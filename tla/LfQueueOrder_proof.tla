----------------------- MODULE LfQueueOrder_proof ------------------------
(***************************************************************************)
(* The steps that keep the order of the blocks of the queue: those by which *)
(* a consumer moves the head and clears what it has left behind, and those *)
(* by which a producer lays new blocks and pages after the others.         *)
(***************************************************************************)
EXTENDS LfQueueOrder, LfQueueChain_proof

---------------------------------------------------------------------------
(* Steps that leave the layout of the queue alone *)

\* The pages of the queue, its head and its tail stay.
Kept == LinkedPages' = LinkedPages /\ First' = First /\ m_tail' = m_tail

\* The links between pages and the extent of the blocks stay.
EndsKept == \A x \in LinkedPages : m_next'[End(x)] = m_next[End(x)]
SpansKept == \A b, e \in Block : Inner(b) => (Spans(b, e)' <=> Spans(b, e))

\* Where the blocks are depends on the pages, the head and the tail only.
LEMMA LiveKept ==
    ASSUME Kept
    PROVE  /\ \A b : Live(b)' <=> Live(b)
           /\ \A b : Inner(b)' <=> Inner(b)
           /\ \A x : TailSlot(x)' = TailSlot(x)
<1>1. \A b : Live(b)' <=> Live(b)
  BY DEF Kept, Live
<1>2. \A b : Inner(b)' <=> Inner(b)
  BY <1>1 DEF Inner
<1> QED
  BY <1>1, <1>2 DEF Kept, TailSlot

\* ... and which page is the last one on the links between them.
LEMMA OpenKept == Kept /\ EndsKept => \A x : Open(x)' <=> Open(x)
BY DEF Kept, EndsKept, Open

\* Such a step keeps the order of the pages and of the blocks.
LEMMA LayoutKept ==
    ASSUME NEW rank, PagesOrdered(rank), HeadPlace, TailPlace, BlocksApart,
           Kept, EndsKept, SpansKept,
           \A b \in Block : Inner(b) /\ IsEnd(m_next'[b]) => m_next'[b] = Zero,
           m_initial_page' = m_initial_page, m_initial_page = NoPage => m_head' = m_head,
           \A p \in Producers : AdvancesTail(p) => AdvancesTail(p)',
           m_tail \in Block /\ m_tail[2] = EndSlot => m_next'[m_tail].to \in {m_next[m_tail].to, NoBlock},
           m_tail \in Block \cup {InvalidBlock}
    PROVE  PagesOrdered(rank)' /\ HeadPlace' /\ TailPlace' /\ BlocksApart'
<1>1. /\ LinkedPages' = LinkedPages /\ First' = First /\ m_tail' = m_tail
      /\ \A x : Open(x)' <=> Open(x)
  BY OpenKept DEF Kept
<1>2. /\ \A b : Inner(b)' <=> Inner(b)
      /\ \A x : TailSlot(x)' = TailSlot(x)
  BY LiveKept
<1>3. PagesOrdered(rank)'
  BY <1>1 DEF PagesOrdered, PageOrdered, EndsKept
<1>4. HeadPlace'
  BY <1>1 DEF HeadPlace
<1>5. TailPlace'
  BY <1>1, <1>2 DEF TailPlace
<1>6. BlocksApart'
  <2>1. ASSUME NEW a \in Block, NEW e \in Block, BlockApart(a, e)
        PROVE  BlockApart(a, e)'
    BY <1>1, <1>2, <2>1 DEF BlockApart, SpansKept
  <2> QED
    BY <1>2, <2>1 DEF BlocksApart, SpansKept
<1> QED
  BY <1>3, <1>4, <1>5, <1>6

---------------------------------------------------------------------------
(* Steps of a consumer that keep the layout *)

\* What a consumer writes: it clears a block the head has left, or it sets
\* the flags of a block that no producer owns.
ConsumerWrites ==
    \A b \in Block :
        \/ m_next'[b] = m_next[b]
        \/ ~Live(b) /\ PageOf(b) \notin NewPages /\ m_next'[b] = Zero
        \/ /\ Inner(b) /\ m_next[b].to # NoBlock /\ m_next'[b].to = m_next[b].to
           /\ ~IsDead(m_next[b])
           /\ \A p \in Producers : prod[p].control # b

\* The producers keep the pins of the pages they leave.
EndPinsKept ==
    \A p \in Producers, q \in Pages :
        <<p, "end_block">> \in pinners[q] => <<p, "end_block">> \in pinners'[q]

\* The types, state by state.
LEMMA Typed ==
    ASSUME IInv
    PROVE  /\ \A b \in Block : m_next[b] \in NextPtr
           /\ \A p \in Producers : prod[p] \in Producer /\ ProducerOK(p)
           /\ \A c \in Consumers : cons[c] \in Consume /\ ConsumerOK(c)
           /\ m_tail \in Block \cup {InvalidBlock}
           /\ m_head \in BlockOrNull
           /\ First \in BlockOrNull
<1>1. First \in BlockOrNull
  BY Addresses DEF IInv, TypeOK, BaseTypeOK, HeadTypeOK, First, BlockOrNull
<1> QED
  BY <1>1 DEF IInv, TypeOK, BaseTypeOK, HeadTypeOK, TailTypeOK, ConsumersOK, ProducersOK

\* The slots of a page, and its end.
LEMMA Spots ==
    /\ EndSlot \in Nat /\ EndSlot > 0
    /\ \A b \in Block : PageOf(b) \in Pages /\ b[2] \in Nat /\ b[2] <= EndSlot
    /\ \A b \in BlockOrNull : b[2] \in Nat /\ b[2] <= EndSlot
    /\ \A b \in Block : b = <<PageOf(b), b[2]>>
    /\ \A x \in Pages : End(x) \in Block /\ End(x)[2] = EndSlot /\ PageOf(End(x)) = x
    /\ \A b \in Block : b[2] = EndSlot => b = End(PageOf(b))
BY BaseAssumption DEF Block, BlockOrNull, NoBlock, Slots, PageOf, End

\* The head never leaves the end of a page of the queue.
LEMMA EndsLive ==
    ASSUME IInv, NEW x \in LinkedPages
    PROVE  Live(End(x)) /\ ~Inner(End(x)) /\ x \in Pages /\ x \notin NewPages
BY Typed, Spots DEF Live, Inner, LinkedPages

\* The producers' part of the invariant.
LEMMA ConsumerKeepsLayout ==
    ASSUME NEW rank, IInv, Ordered(rank), UNCHANGED tailVars, Kept, ConsumerWrites, EndPinsKept,
           m_initial_page' = m_initial_page, m_initial_page = NoPage => m_head' = m_head,
           \A q \in NewPages : pool'[q] = pool[q]
    PROVE  /\ PagesOrdered(rank)' /\ HeadPlace' /\ TailPlace' /\ BlocksApart'
           /\ NewPagesBlank' /\ ReservationsOK' /\ PutsOK(rank)' /\ CreationOK'
           /\ NewPages' = NewPages
<1>1. /\ prod' = prod /\ m_tail' = m_tail /\ NewPages' = NewPages
      /\ \A p \in Producers : Creates(p) => prod[p].new_page \in NewPages
  BY DEF tailVars, NewPages, Creates
<1>2. /\ \A b : Live(b)' <=> Live(b)
      /\ \A b : Inner(b)' <=> Inner(b)
      /\ \A b : Inner(b) => Live(b) /\ b \in Block
  BY LiveKept DEF Inner, Live
<1>3. EndsKept
  BY EndsLive, Spots DEF ConsumerWrites, EndsKept
<1>4. \A x : Open(x)' <=> Open(x)
  BY <1>3, OpenKept
<1>5. SpansKept
  <2> SUFFICES ASSUME NEW b \in Block, NEW e \in Block, Inner(b)
               PROVE  Spans(b, e)' <=> Spans(b, e)
    BY DEF SpansKept
  <2>1. Reserving(b)' = Reserving(b) /\ \A p : ReservedEnd(p)' = ReservedEnd(p)
    BY <1>1 DEF Reserving, ReservedEnd, PAt
  <2>2. m_next'[b].to = m_next[b].to
    BY <1>2 DEF ConsumerWrites
  <2> QED
    BY <2>1, <2>2 DEF Spans
<1>6. \A b \in Block : Inner(b) /\ IsEnd(m_next[b]) => m_next[b] = Zero
  BY <1>2 DEF Ordered, BlocksApart
<1>7. \A b \in Block : Inner(b) /\ IsEnd(m_next'[b]) => m_next'[b] = Zero
  BY <1>2, <1>6 DEF ConsumerWrites, IsEnd
<1>8. PagesOrdered(rank)' /\ HeadPlace' /\ TailPlace' /\ BlocksApart'
  <2>1. \A p \in Producers : AdvancesTail(p) => AdvancesTail(p)'
    BY <1>1 DEF AdvancesTail, PAt
  <2>2. /\ m_tail \in Block => m_next'[m_tail].to \in {m_next[m_tail].to, NoBlock}
        /\ m_tail \in Block \cup {InvalidBlock}
    BY Typed DEF ConsumerWrites, Zero
  <2> QED
    BY <1>3, <1>5, <1>7, <2>1, <2>2, LayoutKept DEF Ordered
<1>9. NewPagesBlank'
  <2>1. \A b \in Block : PageOf(b) \in NewPages => m_next'[b] = m_next[b]
    BY <1>2 DEF ConsumerWrites, Live, LinkedPages
  <2>2. \A p : Creates(p)' <=> Creates(p)
    BY <1>1 DEF Creates
  <2> QED
    BY <1>1, <2>1, <2>2 DEF Ordered, NewPagesBlank, NewPageBlank
<1>10. ReservationsOK'
  <2>1. ASSUME NEW p \in Producers, ReservationOK(p)
        PROVE  ReservationOK(p)'
    BY <1>1, <1>2, <2>1 DEF ReservationOK, Stores, ConsumerWrites, Zero
  <2> QED
    BY <1>1, <2>1 DEF Ordered, ReservationsOK, Stores
<1>11. PutsOK(rank)'
  BY <1>1, <1>2 DEF Ordered, PutsOK, PutOK, Putting, ConsumerWrites, Before
<1>12. CreationOK'
  <2>1. \A p \in Producers : prod[p].pinned \in Pages \cup {NoPage}
    BY Typed DEF Producer
  <2> QED
    BY <1>1, <1>4, <2>1 DEF Ordered, CreationOK, CreationPlaced, EndPinsKept
<1> QED
  BY <1>1, <1>8, <1>9, <1>10, <1>11, <1>12

\* The other consumers are where they were.
LEMMA OthersPlaced ==
    ASSUME IInv, ConsumersPlaced, Kept, ConsumerWrites, NewPages' = NewPages,
           m_initial_page' = m_initial_page, NEW c \in Consumers,
           \A d \in Consumers \ {c} : cons'[d] = cons[d],
           \A d \in Consumers \ {c} : Passed(d) => m_next'[cons[d].control] = m_next[cons[d].control]
    PROVE  \A d \in Consumers \ {c} : ConsumerPlaced(d)'
<1> SUFFICES ASSUME NEW d \in Consumers \ {c} PROVE ConsumerPlaced(d)'
  OBVIOUS
<1>1. \A b : Live(b)' <=> Live(b)
  BY LiveKept
<1>2. ConsumerPlaced(d) /\ cons'[d] = cons[d] /\ First' = First
  BY DEF ConsumersPlaced, Kept
<1>3. cons[d].pc = "advance" /\ Live(cons[d].control) => m_next'[cons[d].control] = m_next[cons[d].control]
  BY <1>2 DEF ConsumerPlaced, ConsumerWrites, Live
<1> QED
  BY <1>1, <1>2, <1>3 DEF ConsumerPlaced, Passed

\* A consumer reads, pins or unpins: it holds no block, before and after.
Free(pc) == pc \notin {"free_external", "zero", "memset", "free_page", "consuming"}

\* A consumer goes on without touching the memory: begin_iteration, move_next
\* and the reads that a search makes.
LEMMA ConsumerMoves ==
    ASSUME NEW rank, IInv, Ordered(rank), UNCHANGED tailVars, EndPinsKept,
           UNCHANGED <<m_next, content, pool, m_initial_page, status>>,
           First' = First, m_initial_page = NoPage => m_head' = m_head,
           NEW c \in Consumers, \A d \in Consumers \ {c} : cons'[d] = cons[d],
           Free(cons[c].pc), Free(cons'[c].pc),
           cons'[c].pc = "advance" =>
              /\ PageOf(cons'[c].control) \notin NewPages /\ IsDead(cons'[c].next)
              /\ Live(cons'[c].control) => m_next[cons'[c].control] = cons'[c].next,
           cons'[c].pc = "try_busy" => Consumable(cons'[c].next),
           cons'[c].pc = "init_head" => cons'[c].target \in {NoBlock, FirstBlock(m_initial_page)}
    PROVE  Ordered(rank)'
<1>1. \A d \in Consumers \ {c} : cons'[d] = cons[d]
  OBVIOUS
<1>2. NewPages' = NewPages /\ LeftPages' = LeftPages
  <2>1. \A d \in Consumers :
           /\ cons'[d].pc \in {"zero", "free_page"} <=> cons[d].pc \in {"zero", "free_page"}
           /\ cons[d].pc \in {"zero", "free_page"} => cons'[d] = cons[d]
    BY <1>1 DEF Free
  <2>2. LeftPages' = LeftPages
    BY <2>1 DEF LeftPages
  <2> QED
    BY <2>2 DEF NewPages, tailVars
<1>3. Kept /\ ConsumerWrites
  BY <1>2 DEF Kept, LinkedPages, ConsumerWrites, tailVars
<1>4. /\ PagesOrdered(rank)' /\ HeadPlace' /\ TailPlace' /\ BlocksApart'
      /\ NewPagesBlank' /\ ReservationsOK' /\ PutsOK(rank)' /\ CreationOK'
  BY <1>3, ConsumerKeepsLayout
<1>5. /\ \A b : Live(b)' <=> Live(b)
      /\ \A b : Inner(b)' <=> Inner(b)
  BY <1>3, LiveKept
<1>6. /\ \A d \in Consumers : Passed(d)' <=> Passed(d)
      /\ \A d \in Consumers : Passed(d) => cons'[d] = cons[d]
      /\ \A d \in Consumers : Wipes(d)' <=> Wipes(d)
      /\ \A d \in Consumers : Wipes(d) => cons'[d] = cons[d]
      /\ \A d \in Consumers : Takes(d)' <=> Takes(d)
      /\ \A d \in Consumers : Takes(d) => cons'[d] = cons[d]
  BY <1>1 DEF Passed, Wipes, Takes, At, Free
<1>7. LeftBehind'
  BY <1>2, <1>5, <1>6 DEF Ordered, LeftBehind
<1>8. ConsumersPlaced'
  <2>1. \A d \in Consumers \ {c} : ConsumerPlaced(d)'
    BY <1>1, <1>2, <1>3, OthersPlaced DEF Ordered
  <2>2. ConsumerPlaced(c)'
    BY <1>1, <1>2, <1>5 DEF ConsumerPlaced, Free, Passed
  <2> QED
    BY <1>6, <2>1, <2>2 DEF Ordered, ConsumersPlaced
<1>9. OwnersOK'
  <2>1. \A p \in Producers : PutterOwns(p)' <=> PutterOwns(p)
    BY <1>5 DEF PutterOwns, Putting, tailVars
  <2>2. \A d \in Consumers : TakerOwns(d) => TakerOwns(d)'
    BY <1>5, <1>6 DEF TakerOwns, TakenWord
  <2> QED
    BY <1>6, <2>1, <2>2 DEF Ordered, OwnersOK, Putting, tailVars
<1>10. ContentsWiped'
  <2>1. \A x : InBlock(x) => InBlock(x)'
    BY <1>5 DEF InBlock, Between
  <2>2. \A x : BeingWiped(x) => BeingWiped(x)'
    BY <1>6 DEF BeingWiped, Between
  <2> QED
    BY <2>1, <2>2 DEF Ordered, ContentsWiped
<1>11. ElementsOK'
  <2>1. \A p \in Producers : PutElementOK(p)' <=> PutElementOK(p)
    BY DEF PutElementOK, Putting, Current, PAt, tailVars
  <2>2. \A b : ReadyBlock(b)' <=> ReadyBlock(b)
    BY <1>5 DEF ReadyBlock
  <2>3. \A b, s : Holds(b, s)' <=> Holds(b, s)
    BY DEF Holds, ElementOf
  <2> QED
    BY <1>6, <2>1, <2>2, <2>3 DEF Ordered, ElementsOK
<1> QED
  BY <1>4, <1>7, <1>8, <1>9, <1>10, <1>11 DEF Ordered

\* No word of a page that is not linked yet is dead or can be consumed.
LEMMA NewWords ==
    ASSUME NewPagesBlank, NEW b \in Block, PageOf(b) \in NewPages
    PROVE  m_next[b].to = NoBlock /\ ~IsDead(m_next[b]) /\ m_next[b] \in {Zero, InvalidNextPage}
BY DEF NewPagesBlank, NewPageBlank, NewPages, Creates, IsDead, Zero, InvalidNextPage

\* The control word of a block has been read.
LEMMA EnterMoves ==
    ASSUME NEW rank, IInv, Ordered(rank), UNCHANGED tailVars, EndPinsKept,
           UNCHANGED <<m_next, content, pool, m_initial_page, status>>,
           First' = First, m_initial_page = NoPage => m_head' = m_head,
           NEW c \in Consumers, Free(cons[c].pc),
           NEW b \in Block, Enter(c, b, m_next[b])
    PROVE  Ordered(rank)'
<1> DEFINE n == m_next[b]
           to == AfterLoad(cons[c].mode, n)
<1>1. cons[c] \in Consume /\ cons \in [Consumers -> Consume]
  BY Typed DEF IInv, TypeOK, HeadTypeOK
<1>2. n \in NextPtr
  BY Typed
<1>3. to \in {"nothing", "found", "try_busy", "advance", "move", "idle"}
      /\ (to = "advance" => IsDead(n))
  BY <1>1, <1>2, Loaded DEF Consume
<1>4. to = "try_busy" => Consumable(n)
  BY <1>1 DEF AfterLoad, Consume, Mode
<1> HIDE DEF to
<1>5. /\ \A d \in Consumers \ {c} : cons'[d] = cons[d]
      /\ cons'[c].pc = to /\ cons'[c].control = b
      /\ to # "idle" => cons'[c].next = n
  BY <1>1 DEF Enter, to, Consume
<1>6. to = "advance" => PageOf(b) \notin NewPages
  BY <1>3, NewWords DEF Ordered
<1> QED
  BY <1>3, <1>4, <1>5, <1>6, ConsumerMoves DEF Free

\* A consumer pins and unpins for itself only.
LEMMA PinsOfOthers ==
    ASSUME IInv, NEW c \in Consumers, NEW q, Pin(c, q) \/ Unpin(c, q) \/ UNCHANGED pinners
    PROVE  EndPinsKept
BY BaseAssumption DEF IInv, TypeOK, BaseTypeOK, Pin, Unpin, EndPinsKept

\* From begin_iteration to the read of the control word of the head.
LEMMA BeginIterationKeepsOrder ==
    ASSUME NEW rank, IInv, Ordered(rank), UNCHANGED tailVars, NEW c \in Consumers,
           \/ LoadHead(c) \/ ReloadHead(c) \/ LoadInitialPage(c) \/ InitHead(c)
           \/ PinHead(c) \/ UnpinOld(c) \/ LoadHeadNext(c)
    PROVE  Ordered(rank)'
<1>1. cons[c] \in Consume /\ ConsumerOK(c) /\ cons \in [Consumers -> Consume]
  BY Typed DEF IInv, TypeOK, HeadTypeOK
<1>2. Free(cons[c].pc)
  BY DEF LoadHead, ReloadHead, LoadInitialPage, InitHead, PinHead, UnpinOld, LoadHeadNext, At, Free
<1>3. EndPinsKept
  BY PinsOfOthers DEF LoadHead, ReloadHead, LoadInitialPage, InitHead, PinHead, UnpinOld, LoadHeadNext, baseVars
<1>4. UNCHANGED <<m_next, content, pool, m_initial_page, status>>
  BY DEF LoadHead, ReloadHead, LoadInitialPage, InitHead, PinHead, UnpinOld, LoadHeadNext, baseVars
<1>5. First' = First /\ (m_initial_page = NoPage => m_head' = m_head)
  <2>1. CASE InitHead(c)
    <3>1. cons[c].target \in {NoBlock, FirstBlock(m_initial_page)}
      BY <2>1 DEF InitHead, At, Ordered, ConsumersPlaced, ConsumerPlaced
    <3> QED
      BY <1>4, <2>1, <3>1, Addresses DEF InitHead, First
  <2>2. CASE ~InitHead(c)
    BY <1>4, <2>2 DEF LoadHead, ReloadHead, LoadInitialPage, PinHead, UnpinOld, LoadHeadNext, First
  <2> QED
    BY <2>1, <2>2
<1>6. \A d \in Consumers \ {c} : cons'[d] = cons[d]
  BY <1>1 DEF LoadHead, ReloadHead, LoadInitialPage, InitHead, PinHead, UnpinOld, LoadHeadNext,
     FollowHead, Goto, Enter
<1>7. CASE LoadHead(c) \/ ReloadHead(c) \/ LoadInitialPage(c) \/ PinHead(c) \/ UnpinOld(c)
  <2>1. /\ cons'[c].pc \in {"reload_head", "initial_page", "load_head_next", "pin_head",
                            "unpin_old", "begin", "init_head"}
        /\ cons'[c].pc = "init_head" => cons'[c].target = FirstBlock(m_initial_page)
    <3>1. CASE LoadHead(c) \/ ReloadHead(c)
      BY <1>1, <3>1 DEF LoadHead, ReloadHead, FollowHead, Goto, Consume
    <3>2. CASE LoadInitialPage(c)
      BY <1>1, <3>2 DEF LoadInitialPage, Consume
    <3>3. CASE PinHead(c) \/ UnpinOld(c)
      BY <1>1, <3>3 DEF PinHead, UnpinOld, Goto, Consume
    <3> QED
      BY <1>7, <3>1, <3>2, <3>3
  <2> QED
    BY <1>2, <1>3, <1>4, <1>5, <1>6, <2>1, ConsumerMoves DEF Free
<1>8. CASE InitHead(c)
  <2>1. CASE m_head' = NoBlock
    <3>1. AfterLoad(cons[c].mode, Zero) \in {"nothing", "idle"}
      BY <1>1 DEF AfterLoad, Zero, IsEnd, IsDead, Mode, Consume
    <3>2. cons'[c].pc \in {"nothing", "idle"}
      BY <1>1, <1>8, <2>1, <3>1 DEF InitHead, Enter, Consume
    <3> QED
      BY <1>2, <1>3, <1>4, <1>5, <1>6, <3>2, ConsumerMoves DEF Free
  <2>2. CASE m_head' # NoBlock
    <3>1. cons'[c].pc \in {"load_head_next", "pin_head"}
      BY <1>1, <1>8, <2>2 DEF InitHead, FollowHead, Consume
    <3> QED
      BY <1>2, <1>3, <1>4, <1>5, <1>6, <3>1, ConsumerMoves DEF Free
  <2> QED
    BY <2>1, <2>2
<1>9. CASE LoadHeadNext(c)
  BY <1>1, <1>2, <1>3, <1>4, <1>5, <1>9, EnterMoves DEF LoadHeadNext, At, ConsumerOK
<1> QED
  BY <1>7, <1>8, <1>9

\* Entering and leaving an operation, and going from block to block.
LEMMA MovesKeepOrder ==
    ASSUME NEW rank, IInv, Ordered(rank), UNCHANGED tailVars, NEW c \in Consumers,
           \/ Start(c, "consume") \/ Start(c, "empty") \/ Return(c) \/ DestroyConsume(c)
           \/ MoveNext(c) \/ Reread(c) \/ UnpinLeft(c) \/ LoadNext(c)
           \/ TryBusy(c) /\ m_next[cons[c].control] # cons[c].next
           \/ AdvanceHead(c) /\ m_head # cons[c].control
    PROVE  Ordered(rank)'
<1> USE DEF Start, Return, DestroyConsume, MoveNext, Reread, UnpinLeft, LoadNext, TryBusy, AdvanceHead
<1>1. cons[c] \in Consume /\ ConsumerOK(c) /\ cons \in [Consumers -> Consume]
  BY Typed DEF IInv, TypeOK, HeadTypeOK
<1>2. Free(cons[c].pc)
  BY DEF At, Free
<1>3. EndPinsKept
  BY PinsOfOthers DEF baseVars
<1>4. UNCHANGED <<m_next, content, pool, m_initial_page, status, m_head>> /\ First' = First
  BY DEF baseVars, First
<1>5. \A d \in Consumers \ {c} : cons'[d] = cons[d]
  BY <1>1 DEF Goto, Enter
<1>6. CASE LoadNext(c)
  BY <1>1, <1>2, <1>3, <1>4, <1>6, EnterMoves DEF At, ConsumerOK
<1>7. CASE MoveNext(c) /\ SamePage(cons[c].control, cons[c].next.to)
  BY <1>1, <1>2, <1>3, <1>4, <1>7, EnterMoves DEF At, ConsumerOK
<1>8. CASE ~LoadNext(c) /\ ~(MoveNext(c) /\ SamePage(cons[c].control, cons[c].next.to))
  <2>1. cons'[c].pc \in {"begin", "idle", "reread", "unpin_left", "unpin_left_restart",
                         "load_next", "move"}
    <3>1. CASE Start(c, "consume") \/ Start(c, "empty") \/ DestroyConsume(c) \/ Return(c)
      BY <1>1, <3>1 DEF At, Consume
    <3>2. CASE MoveNext(c) /\ ~SamePage(cons[c].control, cons[c].next.to)
      BY <1>1, <3>2 DEF Consume
    <3>3. CASE Reread(c) \/ UnpinLeft(c)
      BY <1>1, <3>3 DEF Goto, Consume
    <3>4. CASE TryBusy(c) /\ m_next[cons[c].control] # cons[c].next
      BY <1>1, <3>4 DEF Consume
    <3>5. CASE AdvanceHead(c) /\ m_head # cons[c].control
      BY <1>1, <3>5 DEF Goto, Consume
    <3> QED
      BY <1>8, <3>1, <3>2, <3>3, <3>4, <3>5
  <2> QED
    BY <1>2, <1>3, <1>4, <1>5, <2>1, ConsumerMoves DEF Free
<1> QED
  BY <1>6, <1>7, <1>8

---------------------------------------------------------------------------
(* An element is taken, consumed or put back: the flags of its block change *)

\* A flag set or cleared leaves the block as long as it was.
LEMMA FlagsKeepLayout ==
    ASSUME NEW rank, IInv, Ordered(rank), UNCHANGED <<tailVars, m_head>>,
           UNCHANGED <<content, pool, pinners, m_initial_page>>,
           NEW c \in Consumers, \A d \in Consumers \ {c} : cons'[d] = cons[d],
           cons[c].pc \in {"try_busy", "consuming"},
           cons'[c].pc \in {"consuming", "advance", "idle"},
           NEW b, Inner(b), m_next[b].to \in Block, ~IsDead(m_next[b]),
           \A p \in Producers : prod[p].control # b,
           m_next'[b].to = m_next[b].to, \A a \in Block \ {b} : m_next'[a] = m_next[a]
    PROVE  /\ PagesOrdered(rank)' /\ HeadPlace' /\ TailPlace' /\ BlocksApart'
           /\ NewPagesBlank' /\ ReservationsOK' /\ PutsOK(rank)' /\ CreationOK'
           /\ LeftBehind' /\ (ConsumerPlaced(c)' => ConsumersPlaced') /\ ContentsWiped'
           /\ NewPages' = NewPages
           /\ \A a : Inner(a)' <=> Inner(a)
           /\ \A a : Live(a)' <=> Live(a)
           /\ b \in Block /\ PageOf(b) \notin NewPages
<1>1. /\ b \in Block /\ PageOf(b) \notin NewPages /\ Live(b)
      /\ \A a \in Block \ {b} : m_next'[a] = m_next[a]
  BY DEF Inner, Live, LinkedPages
<1>2. NewPages' = NewPages /\ LeftPages' = LeftPages
  <2>1. \A d \in Consumers :
           /\ cons'[d].pc \in {"zero", "free_page"} <=> cons[d].pc \in {"zero", "free_page"}
           /\ cons[d].pc \in {"zero", "free_page"} => cons'[d] = cons[d]
    OBVIOUS
  <2>2. LeftPages' = LeftPages
    BY <2>1 DEF LeftPages
  <2> QED
    BY <2>2 DEF NewPages, tailVars
<1>3. Kept
  BY <1>2 DEF Kept, LinkedPages, First, tailVars
<1>4. ConsumerWrites
  BY <1>1, Addresses DEF ConsumerWrites
<1>5. /\ PagesOrdered(rank)' /\ HeadPlace' /\ TailPlace' /\ BlocksApart'
      /\ NewPagesBlank' /\ ReservationsOK' /\ PutsOK(rank)' /\ CreationOK'
  BY <1>3, <1>4, ConsumerKeepsLayout DEF EndPinsKept
<1>6. /\ \A a : Live(a)' <=> Live(a)
      /\ \A a : Inner(a)' <=> Inner(a)
  BY <1>3, LiveKept
<1>7. /\ \A d \in Consumers : Passed(d)' <=> Passed(d)
      /\ \A d \in Consumers : Passed(d) => cons'[d] = cons[d]
      /\ \A d \in Consumers : Wipes(d)' <=> Wipes(d)
      /\ \A d \in Consumers : Wipes(d) => cons'[d] = cons[d]
  BY DEF Passed, Wipes
<1>8. LeftBehind'
  BY <1>1, <1>2, <1>6, <1>7 DEF Ordered, LeftBehind
<1>9. ASSUME ConsumerPlaced(c)' PROVE ConsumersPlaced'
  <2>1. \A d \in Consumers : Passed(d) => cons[d].control # b
    BY <1>1 DEF Ordered, ConsumersPlaced, ConsumerPlaced, Passed
  <2>2. \A d \in Consumers : Passed(d) => cons[d].control \in Block
    BY Typed DEF ConsumerOK, Passed
  <2>3. \A d \in Consumers \ {c} : ConsumerPlaced(d)'
    BY <1>1, <1>2, <1>3, <1>4, <2>1, <2>2, OthersPlaced DEF Ordered
  <2> QED
    BY <1>7, <1>9, <2>3 DEF Ordered, ConsumersPlaced
<1>10. ContentsWiped'
  <2>1. \A a \in Block : m_next'[a].to = m_next[a].to
    BY <1>1
  <2>2. \A x : InBlock(x) => InBlock(x)'
    BY <1>6, <2>1 DEF InBlock, Between
  <2>3. \A x : BeingWiped(x) => BeingWiped(x)'
    BY <1>7 DEF BeingWiped, Between
  <2> QED
    BY <2>2, <2>3 DEF Ordered, ContentsWiped
<1> QED
  BY <1>1, <1>2, <1>5, <1>6, <1>8, <1>9, <1>10

\* The word read by a consumer that is about to take the element, if it is
\* still there, is that of a ready block.
LEMMA ReadyFound ==
    ASSUME NEW rank, IInv, Ordered(rank), NEW b \in Block, Consumable(m_next[b]), m_next[b].to \in Block
    PROVE  ReadyBlock(b)
<1>1. Live(b)
  <2> SUFFICES ASSUME ~Live(b) PROVE FALSE
    OBVIOUS
  <2>1. CASE PageOf(b) \in NewPages
    BY <2>1, NewWords, Addresses DEF Ordered
  <2>2. CASE PageOf(b) \notin NewPages
    <3>1. PICK d \in Consumers : Passed(d) /\ cons[d].control = b
      BY <2>2, Addresses DEF Ordered, LeftBehind, Zero
    <3>2. m_next[b] = cons[d].next /\ IsDead(cons[d].next)
      BY <3>1 DEF Ordered, ConsumersPlaced, ConsumerPlaced, Passed
    <3> QED
      BY <3>2 DEF IsDead, Consumable
  <2> QED
    BY <2>1, <2>2
<1>2. b[2] # EndSlot
  <2> SUFFICES ASSUME b[2] = EndSlot PROVE FALSE
    OBVIOUS
  <2>1. b = End(PageOf(b)) /\ PageOf(b) \in LinkedPages
    BY <1>1, Spots DEF Live
  <2>2. "invalid_next_page" \in m_next[b].flags \/ "dead" \in m_next[b].flags
    <3>1. PageOrdered(rank, PageOf(b))
      BY <2>1 DEF Ordered, PagesOrdered
    <3>2. m_next[b] = InvalidNextPage \/ \E y \in LinkedPages : m_next[b] = NextWord(FirstBlock(y), {"dead"})
      BY <2>1, <3>1 DEF PageOrdered, Open
    <3>3. InvalidNextPage.flags = {"invalid_next_page"} /\ \A a, f : NextWord(a, f).flags = f
      BY DEF InvalidNextPage, NextWord
    <3> QED
      BY <3>2, <3>3
  <2> QED
    BY <2>2 DEF Consumable
<1>3. Inner(b)
  BY <1>1, <1>2, Spots DEF Inner
<1> QED
  BY <1>3 DEF ReadyBlock, Consumable

\* An item of an element is that element's alone.
LEMMA ElementItems ==
    /\ \A i \in Item : ElementOf(i) \in Element
    /\ \A i, j \in Item : i[3] = 0 /\ j[3] = 0 /\ ElementOf(i) = ElementOf(j) => i = j
    /\ \A p \in Producers, k \in 1 .. MaxPuts : /\ <<p, k, 0>> \in Item
                                                /\ <<p, k, 0>>[3] = 0
                                                /\ ElementOf(<<p, k, 0>>) = <<p, k>>
BY BaseAssumption DEF Item, Element, ElementOf

\* What the history says of the elements that are not in b.
LEMMA StatusOfOthers ==
    ASSUME IInv, ElementsOK, \A p \in Producers : Putting(p) => ~PAt(p, "idle"),
           NEW b \in Block, Holds(b, "ready") \/ Holds(b, "consuming"),
           \A e \in Element : e # ElementOf(content[b]) => status'[e] = status[e],
           content' = content, prod' = prod
    PROVE  /\ \A p \in Producers : PutElementOK(p)'
           /\ \A t : \A a \in Block : Holds(a, t) /\ content[a] # content[b] => Holds(a, t)'
           /\ content[b] \in Item /\ content[b][3] = 0
<1>1. ElementOf(content[b]) \in Element /\ content[b] \in Item /\ content[b][3] = 0
  BY ElementItems DEF Holds
<1>2. \A e \in Element : e # ElementOf(content[b]) => status'[e] = status[e]
  OBVIOUS
<1>3. \A t : \A a \in Block : Holds(a, t) /\ content[a] # content[b] => Holds(a, t)'
  BY <1>1, <1>2, ElementItems DEF Holds, ElementOf
<1>4. ASSUME NEW p \in Producers PROVE PutElementOK(p)'
  <2>1. PutElementOK(p) /\ prod[p] \in Producer /\ ProducerOK(p) /\ prod' = prod
    BY Typed DEF ElementsOK
  <2>2. \A k \in 1 .. MaxPuts : status[<<p, k>>] \in {"putting", "none"} =>
            status'[<<p, k>>] = status[<<p, k>>]
    BY <1>2 DEF Holds, Element
  <2>3. ~PAt(p, "idle") => prod[p].puts \in 1 .. MaxPuts
    BY <2>1 DEF ProducerOK, PAt
  <2>4. Putting(p) => ~PAt(p, "idle")
    OBVIOUS
  <2> QED
    BY <2>1, <2>2, <2>3, <2>4 DEF PutElementOK, Putting, Current, PAt
<1> QED
  BY <1>1, <1>2, <1>3, <1>4

\* The CAS that takes an element.
LEMMA TryBusyKeepsOrder ==
    ASSUME NEW rank, IInv, Ordered(rank), UNCHANGED tailVars, NEW c \in Consumers,
           TryBusy(c), m_next[cons[c].control] = cons[c].next
    PROVE  Ordered(rank)'
<1> PICK b, n, w : /\ b = cons[c].control /\ n = cons[c].next
                  /\ w = [m_next[b] EXCEPT !.flags = @ \cup {"busy"}]
  OBVIOUS
<1>1. /\ cons[c] \in Consume /\ cons \in [Consumers -> Consume] /\ cons[c].pc = "try_busy"
      /\ b \in Block /\ n.to \in Block /\ n \in NextPtr /\ Consumable(n) /\ m_next[b] = n
  BY Typed DEF IInv, TypeOK, HeadTypeOK, TryBusy, At, ConsumerOK, Consume, Ordered,
     ConsumersPlaced, ConsumerPlaced
<1>2. ReadyBlock(b) /\ Inner(b) /\ Holds(b, "ready")
  BY <1>1, ReadyFound DEF ReadyBlock, Ordered, ElementsOK
<1>3. /\ m_next' = [m_next EXCEPT ![b] = w]
      /\ cons' = [cons EXCEPT ![c].pc = "consuming", ![c].next.flags = @ \cup {"dead"}]
      /\ status' = [status EXCEPT ![ElementOf(content[b])] = "consuming"]
      /\ content' = content /\ pool' = pool /\ pinners' = pinners
      /\ m_initial_page' = m_initial_page /\ m_head' = m_head
      /\ tailVars' = tailVars
  BY <1>1 DEF TryBusy
<1>4. /\ \A d \in Consumers \ {c} : cons'[d] = cons[d]
      /\ cons'[c].pc = "consuming" /\ cons'[c].control = b
      /\ cons'[c].next.to = n.to /\ cons'[c].next.flags = n.flags \cup {"dead"}
  BY <1>1, <1>3 DEF Consume, NextPtr
<1>5. w = NextWord(n.to, n.flags \cup {"busy"}) /\ w.to = n.to /\ w.flags = n.flags \cup {"busy"}
  BY <1>1 DEF NextPtr, NextWord
<1>6. "busy" \notin n.flags /\ "dead" \notin n.flags
  BY <1>1 DEF Consumable
<1>7. /\ \A p \in Producers : Putting(p) => prod[p].control # b
      /\ \A d \in Consumers : Takes(d) => cons[d].control # b
  <2>1. \A d : "busy" \in TakenWord(d).flags
    BY DEF TakenWord, NextWord
  <2>2. \A p \in Producers : Putting(p) => "busy" \in m_next[prod[p].control].flags
    BY DEF Ordered, OwnersOK, PutterOwns
  <2>3. \A d \in Consumers : Takes(d) => "busy" \in m_next[cons[d].control].flags
    BY <2>1 DEF Ordered, OwnersOK, TakerOwns
  <2> QED
    BY <1>1, <1>6, <2>2, <2>3
<1>8. /\ PagesOrdered(rank)' /\ HeadPlace' /\ TailPlace' /\ BlocksApart'
      /\ NewPagesBlank' /\ ReservationsOK' /\ PutsOK(rank)' /\ CreationOK'
      /\ LeftBehind' /\ (ConsumerPlaced(c)' => ConsumersPlaced') /\ ContentsWiped'
      /\ \A a : Inner(a)' <=> Inner(a)
      /\ \A a \in Block \ {b} : m_next'[a] = m_next[a]
      /\ m_next'[b] = w
  <2>1. ~IsDead(m_next[b]) /\ \A p \in Producers : prod[p].control # b
    BY <1>1, <1>6, <1>7, Addresses DEF IsDead, Putting
  <2>2. /\ m_next[b].to \in Block /\ m_next'[b] = w /\ m_next'[b].to = m_next[b].to
        /\ \A a \in Block \ {b} : m_next'[a] = m_next[a]
    BY <1>1, <1>3, <1>5 DEF IInv, TypeOK, BaseTypeOK
  <2>3. UNCHANGED <<tailVars, m_head>> /\ UNCHANGED <<content, pool, pinners, m_initial_page>>
    BY <1>3
  <2>4. cons[c].pc \in {"try_busy", "consuming"} /\ cons'[c].pc \in {"consuming", "advance", "idle"}
    BY <1>1, <1>4
  <2> QED
    BY <1>2, <1>4, <2>1, <2>2, <2>3, <2>4, FlagsKeepLayout
<1>9. ConsumersPlaced'
  BY <1>4, <1>8 DEF ConsumerPlaced, Passed
<1>10. /\ prod' = prod
       /\ \A d \in Consumers : Takes(d)' <=> Takes(d) \/ d = c
       /\ \A d \in Consumers \ {c} : TakenWord(d)' = TakenWord(d)
  BY <1>4 DEF Takes, At, TakenWord, tailVars
<1>11. OwnersOK'
  <2>1. TakenWord(c)' = w
    <3>1. ((n.flags \cup {"dead"}) \ {"dead"}) \cup {"busy"} = n.flags \cup {"busy"}
      BY <1>6
    <3> QED
      BY <1>4, <1>5, <3>1 DEF TakenWord
  <2>2. TakerOwns(c)'
    BY <1>2, <1>4, <1>6, <1>8, <2>1 DEF TakerOwns
  <2>3. ASSUME NEW d \in Consumers \ {c} PROVE TakerOwns(d)'
    <3>1. TakerOwns(d) /\ (Takes(d) => cons[d].control # b)
      BY <1>7 DEF Ordered, OwnersOK
    <3>2. Inner(cons[d].control) => cons[d].control \in Block
      BY DEF Inner, Live
    <3> QED
      BY <1>4, <1>8, <1>10, <3>1, <3>2 DEF TakerOwns
  <2>4. ASSUME NEW p \in Producers PROVE PutterOwns(p)'
    <3>1. PutterOwns(p) /\ (Putting(p) => prod[p].control # b)
      BY <1>7 DEF Ordered, OwnersOK
    <3>2. Inner(prod[p].control) => prod[p].control \in Block
      BY DEF Inner, Live
    <3> QED
      BY <1>8, <1>10, <3>1, <3>2 DEF PutterOwns, Putting
  <2> QED
    BY <1>4, <1>7, <1>10, <2>2, <2>3, <2>4 DEF Ordered, OwnersOK, Putting
<1>12. ElementsOK'
  <2>1. /\ \A p \in Producers : PutElementOK(p)'
        /\ \A t : \A a \in Block : Holds(a, t) /\ content[a] # content[b] => Holds(a, t)'
        /\ content[b] \in Item /\ content[b][3] = 0 /\ status'[ElementOf(content[b])] = "consuming"
    <3>1. \A p \in Producers : Putting(p) => ~PAt(p, "idle")
      BY DEF Ordered, PutsOK, PutOK, PAt
    <3>2. content' = content /\ prod' = prod /\ ElementsOK
      BY <1>3 DEF Ordered, tailVars
    <3>3. ElementOf(content[b]) \in Element
      BY <1>2, ElementItems DEF Holds
    <3>4. /\ \A e \in Element : e # ElementOf(content[b]) => status'[e] = status[e]
          /\ status'[ElementOf(content[b])] = "consuming"
      BY <1>3, <3>3 DEF IInv, TypeOK, BaseTypeOK
    <3> QED
      BY <1>1, <1>2, <3>1, <3>2, <3>4, StatusOfOthers
  <2>2. Holds(b, "consuming")'
    BY <1>3, <2>1 DEF Holds, ElementOf
  <2>3. \A a \in Block : ReadyBlock(a)' => ReadyBlock(a) /\ a # b
    BY <1>5, <1>8 DEF ReadyBlock
  <2>4. \A a \in Block : ReadyBlock(a)' => Holds(a, "ready")'
    BY <1>1, <1>2, <2>1, <2>3 DEF Ordered, ElementsOK
  <2>5. \A d \in Consumers : Takes(d) =>
          content[cons[d].control] # content[b] /\ Holds(cons[d].control, "consuming") /\ cons[d].control \in Block
    BY <1>2, Typed DEF Ordered, ElementsOK, Holds, Takes, At, ConsumerOK
  <2>6. ASSUME NEW d \in Consumers, Takes(d)' PROVE Holds(cons[d].control, "consuming")'
    <3>1. CASE d = c
      <4>1. cons'[d].control = b
        BY <1>4, <3>1
      <4> QED
        BY <2>2, <4>1 DEF Holds, ElementOf
    <3>2. CASE d # c
      <4>1. Takes(d) /\ cons'[d] = cons[d]
        BY <1>4, <1>10, <2>6, <3>2
      <4> DEFINE a == cons[d].control
      <4>2. Holds(a, "consuming")'
        BY <2>1, <2>5, <4>1
      <4> QED
        BY <4>1, <4>2 DEF Holds, ElementOf
    <3> QED
      BY <3>1, <3>2
  <2>7. \A d, e \in Consumers : Takes(d)' /\ Takes(e)' /\ d # e =>
          content'[cons'[d].control] # content'[cons'[e].control]
    <3>1. \A d, e \in Consumers : Takes(d) /\ Takes(e) /\ d # e =>
             content[cons[d].control] # content[cons[e].control]
      BY DEF Ordered, ElementsOK
    <3>2. \A d \in Consumers : Takes(d) => content[cons[d].control] # content[b]
      BY <2>5
    <3>3. content' = content /\ \A d \in Consumers : cons'[d].control = cons[d].control
      BY <1>1, <1>3, <1>4
    <3>4. \A d \in Consumers : Takes(d)' => Takes(d) \/ d = c
      BY <1>10
    <3> QED
      BY <1>1, <3>1, <3>2, <3>3, <3>4
  <2> QED
    BY <1>3, <2>1, <2>3, <2>4, <2>6, <2>7 DEF Ordered, ElementsOK
<1> QED
  BY <1>8, <1>9, <1>11, <1>12 DEF Ordered

\* The element is consumed, or left where it is.
LEMMA ReleaseKeepsOrder ==
    ASSUME NEW rank, IInv, Ordered(rank), UNCHANGED tailVars, NEW c \in Consumers,
           CommitConsume(c) \/ CancelConsume(c)
    PROVE  Ordered(rank)'
<1> PICK b, n, w, s :
          /\ b = cons[c].control /\ n = cons[c].next
          /\ w = IF CommitConsume(c) THEN n ELSE NextWord(n.to, n.flags \ {"dead"})
          /\ s = IF CommitConsume(c) THEN "consumed" ELSE "ready"
  OBVIOUS
<1>1. /\ cons[c] \in Consume /\ cons \in [Consumers -> Consume] /\ cons[c].pc = "consuming"
      /\ b \in Block /\ n.to \in Block /\ n \in NextPtr /\ Takes(c)
  BY Typed DEF IInv, TypeOK, HeadTypeOK, CommitConsume, CancelConsume, At, ConsumerOK, Consume, Takes
<1>2. /\ Inner(b) /\ m_next[b] = TakenWord(c) /\ "dead" \in n.flags /\ "busy" \notin n.flags
      /\ Holds(b, "consuming")
  BY <1>1 DEF Ordered, OwnersOK, TakerOwns, ElementsOK
<1>3. /\ w.to = n.to /\ w = IF CommitConsume(c) THEN n ELSE NextWord(n.to, n.flags \ {"dead"})
      /\ CommitConsume(c) => w = n /\ "dead" \in w.flags
      /\ ~CommitConsume(c) => w.flags = n.flags \ {"dead"}
  BY <1>2 DEF NextWord
<1>4. s = IF CommitConsume(c) THEN "consumed" ELSE "ready"
  OBVIOUS
<1>5. m_next' = [m_next EXCEPT ![b] = w]
  <2>1. CASE CommitConsume(c)
    BY <1>3, <2>1 DEF CommitConsume
  <2>2. CASE ~CommitConsume(c)
    BY <1>3, <2>2 DEF CancelConsume
  <2> QED
    BY <2>1, <2>2
<1>6. status' = [status EXCEPT ![ElementOf(content[b])] = s]
  <2>1. CASE CommitConsume(c)
    BY <1>4, <2>1 DEF CommitConsume
  <2>2. CASE ~CommitConsume(c)
    BY <1>4, <2>2 DEF CancelConsume
  <2> QED
    BY <2>1, <2>2
<1>7. /\ content' = content /\ pool' = pool /\ pinners' = pinners
      /\ m_initial_page' = m_initial_page /\ m_head' = m_head
      /\ tailVars' = tailVars /\ prod' = prod
  BY DEF CommitConsume, CancelConsume, tailVars
<1>8. /\ \A d \in Consumers \ {c} : cons'[d] = cons[d]
      /\ cons'[c].pc = IF CommitConsume(c) THEN "advance" ELSE "idle"
      /\ CommitConsume(c) => cons'[c].control = b /\ cons'[c].next = n
  <2>1. CASE CommitConsume(c)
    BY <1>1, <2>1 DEF CommitConsume, Consume
  <2>2. CASE ~CommitConsume(c)
    BY <1>1, <2>2 DEF CancelConsume, Consume
  <2> QED
    BY <2>1, <2>2
<1>9. /\ m_next[b].to = n.to /\ "busy" \in m_next[b].flags /\ ~IsDead(m_next[b])
  <2>1. TakenWord(c).to = n.to /\ "busy" \in TakenWord(c).flags
    BY DEF TakenWord, NextWord
  <2> QED
    BY <1>2, <2>1 DEF IsDead
<1>10. /\ \A p \in Producers : Putting(p) => prod[p].control # b
       /\ \A d \in Consumers \ {c} : Takes(d) => cons[d].control # b
  BY <1>1 DEF Ordered, OwnersOK
<1>11. /\ PagesOrdered(rank)' /\ HeadPlace' /\ TailPlace' /\ BlocksApart'
       /\ NewPagesBlank' /\ ReservationsOK' /\ PutsOK(rank)' /\ CreationOK'
       /\ LeftBehind' /\ (ConsumerPlaced(c)' => ConsumersPlaced') /\ ContentsWiped'
       /\ \A a : Inner(a)' <=> Inner(a)
       /\ \A a : Live(a)' <=> Live(a)
       /\ NewPages' = NewPages /\ PageOf(b) \notin NewPages
       /\ \A a \in Block \ {b} : m_next'[a] = m_next[a]
       /\ m_next'[b] = w
  <2>1. \A p \in Producers : prod[p].control # b
    BY <1>1, <1>10, Addresses DEF Putting
  <2>2. /\ m_next[b].to \in Block /\ m_next'[b] = w /\ m_next'[b].to = m_next[b].to
        /\ \A a \in Block \ {b} : m_next'[a] = m_next[a]
    BY <1>1, <1>3, <1>5, <1>9 DEF IInv, TypeOK, BaseTypeOK
  <2>3. UNCHANGED <<tailVars, m_head>> /\ UNCHANGED <<content, pool, pinners, m_initial_page>>
    BY <1>7
  <2>4. cons'[c].pc \in {"consuming", "advance", "idle"} /\ cons[c].pc \in {"try_busy", "consuming"}
    BY <1>1, <1>8
  <2> QED
    BY <1>2, <1>8, <1>9, <2>1, <2>2, <2>3, <2>4, FlagsKeepLayout
<1>12. ConsumersPlaced'
  BY <1>2, <1>3, <1>8, <1>11 DEF ConsumerPlaced, Passed, IsDead
<1>13. /\ \A d \in Consumers : Takes(d)' <=> Takes(d) /\ d # c
       /\ \A d \in Consumers \ {c} : TakenWord(d)' = TakenWord(d)
  BY <1>8 DEF Takes, At, TakenWord
<1>14. OwnersOK'
  <2>1. ASSUME NEW d \in Consumers \ {c} PROVE TakerOwns(d)'
    <3>1. TakerOwns(d) /\ (Takes(d) => cons[d].control # b)
      BY <1>10 DEF Ordered, OwnersOK
    <3>2. Inner(cons[d].control) => cons[d].control \in Block
      BY DEF Inner, Live
    <3> QED
      BY <1>8, <1>11, <1>13, <3>1, <3>2 DEF TakerOwns
  <2>2. ASSUME NEW p \in Producers PROVE PutterOwns(p)'
    <3>1. PutterOwns(p) /\ (Putting(p) => prod[p].control # b)
      BY <1>10 DEF Ordered, OwnersOK
    <3>2. Inner(prod[p].control) => prod[p].control \in Block
      BY DEF Inner, Live
    <3> QED
      BY <1>7, <1>11, <3>1, <3>2 DEF PutterOwns, Putting
  <2>3. TakerOwns(c)'
    BY <1>13 DEF TakerOwns
  <2> QED
    BY <1>7, <1>8, <1>13, <2>1, <2>2, <2>3 DEF Ordered, OwnersOK, Putting
<1>15. ElementsOK'
  <2>1. /\ \A p \in Producers : PutElementOK(p)'
        /\ \A t : \A a \in Block : Holds(a, t) /\ content[a] # content[b] => Holds(a, t)'
        /\ content[b] \in Item /\ content[b][3] = 0 /\ status'[ElementOf(content[b])] = s
    <3>1. \A p \in Producers : Putting(p) => ~PAt(p, "idle")
      BY DEF Ordered, PutsOK, PutOK, PAt
    <3>2. content' = content /\ prod' = prod /\ ElementsOK
      BY <1>7 DEF Ordered
    <3>3. ElementOf(content[b]) \in Element
      BY <1>2, ElementItems DEF Holds
    <3>4. /\ \A e \in Element : e # ElementOf(content[b]) => status'[e] = status[e]
          /\ status'[ElementOf(content[b])] = s
      BY <1>6, <3>3 DEF IInv, TypeOK, BaseTypeOK
    <3> QED
      BY <1>1, <1>2, <3>1, <3>2, <3>4, StatusOfOthers
  <2>2. \A a \in Block : ReadyBlock(a) => content[a] # content[b] /\ Holds(a, "ready")
    BY <1>2 DEF Ordered, ElementsOK, Holds
  <2>3. \A a \in Block : ReadyBlock(a)' => ReadyBlock(a) \/ a = b
    BY <1>11 DEF ReadyBlock
  <2>4. ReadyBlock(b)' => s = "ready"
    <3>1. ReadyBlock(b)' => "dead" \notin w.flags
      BY <1>11 DEF ReadyBlock
    <3> QED
      BY <1>3, <1>4, <3>1
  <2>5. ReadyBlock(b)' => Holds(b, "ready")'
    BY <1>7, <2>1, <2>4 DEF Holds, ElementOf
  <2>6. \A a \in Block : ReadyBlock(a)' => Holds(a, "ready")'
    BY <2>1, <2>2, <2>3, <2>5
  <2>7. \A d \in Consumers \ {c} : Takes(d) =>
          content[cons[d].control] # content[b] /\ Holds(cons[d].control, "consuming") /\ cons[d].control \in Block
    BY <1>1, Typed DEF Ordered, ElementsOK, Takes, At, ConsumerOK
  <2>8. ASSUME NEW d \in Consumers, Takes(d)' PROVE Holds(cons[d].control, "consuming")'
    <3>1. Takes(d) /\ cons'[d] = cons[d] /\ d # c
      BY <1>8, <1>13, <2>8
    <3> DEFINE a == cons[d].control
    <3>2. Holds(a, "consuming")'
      BY <2>1, <2>7, <3>1
    <3> QED
      BY <3>1, <3>2 DEF Holds, ElementOf
  <2>9. \A a, e \in Block : ReadyBlock(a)' /\ ReadyBlock(e)' /\ a # e => content'[a] # content'[e]
    <3>1. \A a, e \in Block : ReadyBlock(a) /\ ReadyBlock(e) /\ a # e => content[a] # content[e]
      BY DEF Ordered, ElementsOK
    <3> QED
      BY <1>7, <2>2, <2>3, <3>1
  <2>10. \A d, e \in Consumers : Takes(d)' /\ Takes(e)' /\ d # e =>
          content'[cons'[d].control] # content'[cons'[e].control]
    <3>1. \A d, e \in Consumers : Takes(d) /\ Takes(e) /\ d # e =>
             content[cons[d].control] # content[cons[e].control]
      BY DEF Ordered, ElementsOK
    <3> QED
      BY <1>7, <1>8, <1>13, <3>1
  <2> QED
    BY <2>1, <2>6, <2>8, <2>9, <2>10 DEF ElementsOK
<1> QED
  BY <1>11, <1>12, <1>14, <1>15 DEF Ordered

---------------------------------------------------------------------------
(* The head leaves a block *)

\* A producer that has moved the tail past a block has reserved it to a block.
LEMMA ReservedBlock ==
    ASSUME IInv, NEW p \in Producers, Stores(p)
    PROVE  ReservedEnd(p) \in Block /\ prod[p].tail \in Block
<1>1. prod[p] \in Producer /\ ProducerOK(p)
  BY Typed
<1>2. prod[p].tail \in Block
  BY <1>1 DEF ProducerOK, Stores
<1>3. CASE prod[p].pc = "store"
  BY <1>1, <1>2, <1>3, BlockAfter DEF ProducerOK, Producer, ReservedEnd, NewTail, PAt
<1>4. CASE prod[p].pc = "store_pad"
  BY <1>1, <1>2, <1>4, BlockAfter DEF ProducerOK, Producer, ReservedEnd, NewTail, PAt
<1> QED
  BY <1>2, <1>3, <1>4 DEF Stores

\* The head is at b, whose word n a consumer has read: the word is still the
\* same, and either n ends in the page or b is the end of it.
LEMMA HeadWord ==
    ASSUME NEW rank \in [Pages -> Nat], IInv, Ordered(rank), NEW c \in Consumers,
           At(c, "advance"), m_head = cons[c].control
    PROVE  LET b == cons[c].control
               n == cons[c].next
           IN /\ b = First /\ b \in Block /\ n.to \in Block /\ n \in NextPtr /\ IsDead(n)
              /\ Live(b) /\ m_next[b] = n /\ PageOf(b) \notin NewPages
              /\ SamePage(b, n.to) => Inner(b) /\ b[2] < n.to[2]
              /\ ~SamePage(b, n.to) =>
                    /\ b = End(PageOf(b)) /\ n.flags = {"dead"}
                    /\ \E y \in LinkedPages : n.to = FirstBlock(y) /\ rank[y] = rank[PageOf(b)] + 1
<1> DEFINE b == cons[c].control
           n == cons[c].next
           x == PageOf(b)
<1>1. b \in Block /\ n.to \in Block /\ n \in NextPtr
  BY Typed DEF ConsumerOK, At, Consume
<1>2. x \notin NewPages /\ IsDead(n) /\ (Live(b) => m_next[b] = n)
  BY DEF Ordered, ConsumersPlaced, ConsumerPlaced, At
<1>3. b = First /\ m_head # NoBlock
  BY <1>1, Addresses DEF First
<1>4. x \in LinkedPages /\ Live(b)
  BY <1>1, <1>3, Spots DEF Ordered, HeadPlace, Live
<1>5. m_next[b] = n
  BY <1>2, <1>4
<1>6. CASE b[2] = EndSlot
  <2>1. b = End(x)
    BY <1>1, <1>6, Spots
  <2>2. PageOrdered(rank, x)
    BY <1>4 DEF Ordered, PagesOrdered
  <2>3. n # InvalidNextPage
    BY <1>1, Addresses DEF InvalidNextPage
  <2>4. PICK y \in LinkedPages : n = NextWord(FirstBlock(y), {"dead"}) /\ rank[y] = rank[x] + 1
    BY <1>5, <2>1, <2>2, <2>3 DEF PageOrdered, Open
  <2>5. n.to = FirstBlock(y) /\ n.flags = {"dead"}
    BY <2>4 DEF NextWord
  <2>6. PageOf(n.to) = y /\ y # x
    <3>1. y \in Pages /\ x \in Pages
      BY <1>4 DEF LinkedPages
    <3>2. rank[x] \in Nat
      BY <3>1
    <3> QED
      BY <2>4, <2>5, <3>2 DEF FirstBlock, PageOf
  <2> QED
    BY <1>1, <1>2, <1>3, <1>4, <1>5, <2>1, <2>4, <2>5, <2>6 DEF SamePage
<1>7. CASE b[2] # EndSlot
  <2>1. Inner(b)
    BY <1>1, <1>4, <1>7, Spots DEF Inner
  <2>2. BlockApart(b, n.to)
    BY <1>1, <1>5, <2>1 DEF Ordered, BlocksApart, Spans
  <2> QED
    BY <1>1, <1>2, <1>3, <1>4, <1>5, <2>1, <2>2 DEF BlockApart
<1> QED
  BY <1>6, <1>7

\* What the head leaves: a block of its page, or the page.
LEMMA HeadLeaves ==
    ASSUME NEW rank \in [Pages -> Nat], IInv, Ordered(rank), UNCHANGED tailVars, NEW c \in Consumers,
           At(c, "advance"), m_head = cons[c].control, m_head' = cons[c].next.to,
           UNCHANGED baseVars, \A d \in Consumers \ {c} : cons'[d] = cons[d],
           cons'[c].control = cons[c].control, cons'[c].next = cons[c].next,
           (cons'[c].pc = "free_external" /\ SamePage(cons[c].control, cons[c].next.to)) \/ cons'[c].pc = "zero"
    PROVE  /\ PagesOrdered(rank)' /\ HeadPlace' /\ TailPlace'
           /\ NewPages' = NewPages /\ \A x : Open(x)' <=> Open(x)
           /\ \A a : Live(a)' => Live(a)
           /\ \A a : Inner(a)' => Inner(a)
           /\ ~Live(cons[c].control)'
           /\ \A a, g \in Block : Inner(a) /\ Spans(a, g) /\ a # cons[c].control => Inner(a)'
           /\ \A a \in Block : Live(a) /\ ~Live(a)' /\ m_next[a] # Zero => a = cons[c].control
           /\ \A a \in Block : ~Live(a) /\ PageOf(a) = PageOf(First)' =>
                 PageOf(a) = PageOf(First) /\ First[2] <= First'[2]
           /\ First' = cons[c].next.to
<1> PICK b, n, x : b = cons[c].control /\ n = cons[c].next /\ x = PageOf(b)
  OBVIOUS
<1>1. /\ b = First /\ b \in Block /\ n.to \in Block /\ n \in NextPtr /\ IsDead(n)
      /\ Live(b) /\ m_next[b] = n /\ PageOf(b) \notin NewPages
      /\ SamePage(b, n.to) => Inner(b) /\ b[2] < n.to[2]
      /\ ~SamePage(b, n.to) =>
            /\ b = End(PageOf(b)) /\ n.flags = {"dead"}
            /\ \E y \in LinkedPages : n.to = FirstBlock(y) /\ rank[y] = rank[PageOf(b)] + 1
  BY HeadWord
<1>2. /\ First' = n.to /\ NewPages' = NewPages /\ m_next' = m_next /\ m_tail' = m_tail /\ pool' = pool
      /\ m_initial_page' = m_initial_page /\ prod' = prod
      /\ \A y : TailSlot(y)' = TailSlot(y)
  <2>1. First' = n.to
    BY <1>1, Addresses DEF First
  <2> QED
    BY <2>1 DEF NewPages, baseVars, tailVars, TailSlot
<1>3. \A p \in Producers : AdvancesTail(p)' <=> AdvancesTail(p)
  BY <1>2 DEF AdvancesTail, PAt
<1>4. x \in LinkedPages /\ x \in Pages /\ m_head # NoBlock /\ m_initial_page # NoPage
  BY <1>1, Spots, Addresses DEF Live, Ordered, HeadPlace
<1>5. \A y \in LinkedPages : y \in Pages /\ rank[y] \in Nat /\ End(y) \in Block
  BY Spots DEF LinkedPages
<1>6. CASE SamePage(b, n.to)
  <2>1. LeftPages' = LeftPages
    <3>1. /\ ~(cons[c].pc \in {"zero", "free_page"})
          /\ ~(cons'[c].pc \in {"zero", "free_page"} /\ ~SamePage(cons'[c].control, cons'[c].next.to))
      BY <1>6 DEF At
    <3>2. {d \in Consumers : cons'[d].pc \in {"zero", "free_page"} /\ ~SamePage(cons'[d].control, cons'[d].next.to)}
          = {d \in Consumers : cons[d].pc \in {"zero", "free_page"} /\ ~SamePage(cons[d].control, cons[d].next.to)}
      BY <3>1
    <3> QED
      BY <3>2 DEF LeftPages
  <2>2. LinkedPages' = LinkedPages /\ \A y : Open(y)' <=> Open(y)
    BY <1>2, <2>1 DEF LinkedPages, Open
  <2>3. PageOf(First') = PageOf(First) /\ PageOf(First) = x /\ First[2] = b[2] /\ b[2] < First'[2]
        /\ First'[2] \in Nat /\ First'[2] <= EndSlot /\ b[2] \in Nat
    BY <1>1, <1>2, <1>6, Spots DEF SamePage
  <2>4. \A a : Live(a)' <=> Live(a) /\ ~(PageOf(a) = x /\ a[2] < First'[2])
    <3> SUFFICES ASSUME NEW a \in Block PROVE Live(a)' <=> Live(a) /\ ~(PageOf(a) = x /\ a[2] < First'[2])
      BY DEF Live
    <3>1. a[2] \in Nat
      BY Spots
    <3> QED
      BY <2>2, <2>3, <3>1 DEF Live
  <2>5. BlockApart(b, n.to) /\ Inner(b)
    BY <1>1, <1>6 DEF Ordered, BlocksApart, Spans
  <2>6. \A a, g \in Block : Inner(a) /\ Spans(a, g) /\ a # b => Inner(a)'
    <3> SUFFICES ASSUME NEW a \in Block, NEW g \in Block, Inner(a), Spans(a, g), a # b, PageOf(a) = x
                 PROVE  n.to[2] <= a[2]
      <4>1. \A a, g \in Block : Inner(a) /\ Spans(a, g) /\ PageOf(a) # x => Inner(a)'
        BY <2>4 DEF Inner
      <4>2. \A a \in Block : Inner(a) /\ PageOf(a) = x /\ n.to[2] <= a[2] => Inner(a)'
        BY <1>2, <2>3, <2>4, Spots DEF Inner
      <4> QED
        BY <4>1, <4>2
    <3>1. SamePage(b, a) /\ b[2] <= a[2]
      BY <1>1 DEF SamePage, Inner, Live
    <3> QED
      BY <2>5, <3>1 DEF BlockApart
  <2>7. \A a \in Block : Live(a) /\ ~Live(a)' /\ m_next[a] # Zero => a = b
    <3> SUFFICES ASSUME NEW a \in Block, Live(a), ~Live(a)', m_next[a] # Zero, a # b PROVE FALSE
      OBVIOUS
    <3>1. Inner(a)
      BY <2>3, <2>4, Spots DEF Inner
    <3>2. m_next[a].to \in Block
      BY <3>1, Typed, Addresses DEF Ordered, BlocksApart, IsEnd, NextPtr
    <3> QED
      BY <2>6, <3>1, <3>2 DEF Spans, Inner
  <2>8. PagesOrdered(rank)'
    BY <1>2, <2>2, <2>3 DEF Ordered, PagesOrdered, PageOrdered
  <2>9. HeadPlace'
    BY <1>2, <1>4, <2>2, <2>3 DEF Ordered, HeadPlace
  <2>10. TailPlace'
    <3>1. Open(x) => First'[2] <= TailSlot(x)
      BY <1>2, <2>5 DEF BlockApart
    <3> QED
      BY <1>2, <1>3, <2>2, <2>3, <3>1 DEF Ordered, TailPlace
  <2>11. ~Live(b)'
    BY <2>3, <2>4
  <2>12. \A a \in Block : ~Live(a) /\ PageOf(a) = PageOf(First)' =>
            PageOf(a) = PageOf(First) /\ First[2] <= First'[2]
    BY <2>3
  <2>13. \A a : Inner(a)' => Inner(a)
    BY <2>4 DEF Inner
  <2> QED
    BY <1>2, <2>2, <2>4, <2>6, <2>7, <2>8, <2>9, <2>10, <2>11, <2>12, <2>13
<1>7. CASE ~SamePage(b, n.to)
  <2>1. PICK y \in LinkedPages : n.to = FirstBlock(y) /\ rank[y] = rank[x] + 1
    BY <1>1, <1>7
  <2>2. LeftPages' = LeftPages \cup {x}
    <3>1. /\ ~(cons[c].pc \in {"zero", "free_page"})
          /\ cons'[c].pc \in {"zero", "free_page"} /\ ~SamePage(cons'[c].control, cons'[c].next.to)
          /\ PageOf(cons'[c].control) = x
      BY <1>7 DEF At
    <3>2. {d \in Consumers : cons'[d].pc \in {"zero", "free_page"} /\ ~SamePage(cons'[d].control, cons'[d].next.to)}
          = {d \in Consumers : cons[d].pc \in {"zero", "free_page"} /\ ~SamePage(cons[d].control, cons[d].next.to)} \cup {c}
      BY <3>1
    <3>3. \A d \in Consumers : cons[d].pc \in {"zero", "free_page"} => cons'[d] = cons[d]
      BY <3>1
    <3> QED
      BY <3>1, <3>2, <3>3 DEF LeftPages
  <2>3. LinkedPages' = LinkedPages \ {x} /\ y # x /\ y \in LinkedPages' /\ ~Open(x)
    <3>1. rank[x] \in Nat /\ rank[y] \in Nat
      BY <1>4, <1>5
    <3>2. m_next[End(x)] # InvalidNextPage
      BY <1>1, <1>7, Addresses DEF InvalidNextPage
    <3> QED
      BY <1>2, <2>1, <2>2, <3>1, <3>2 DEF LinkedPages, Open
  <2>4. \A z : Open(z)' <=> Open(z)
    BY <1>2, <2>3 DEF Open
  <2>5. PageOf(First) = x /\ First[2] = EndSlot /\ PageOf(First') = y /\ First'[2] = 0
    <3>1. First = End(x) /\ First' = FirstBlock(y)
      BY <1>1, <1>2, <1>7, <2>1
    <3>2. PageOf(End(x)) = x /\ End(x)[2] = EndSlot
      BY <1>4, Spots
    <3>3. PageOf(FirstBlock(y)) = y /\ FirstBlock(y)[2] = 0
      BY DEF FirstBlock, PageOf
    <3> QED
      BY <3>1, <3>2, <3>3
  <2>6. \A a : Live(a)' <=> Live(a) /\ a # b
    <3> SUFFICES ASSUME NEW a \in Block PROVE Live(a)' <=> Live(a) /\ a # b
      BY DEF Live
    <3>1. a[2] \in Nat /\ a[2] <= EndSlot /\ b = End(x) /\ (a[2] = EndSlot => a = End(PageOf(a))) /\ PageOf(b) = x
      BY <1>1, <1>7, Spots
    <3>2. Live(a) /\ PageOf(a) = x <=> a = b
      <4>1. a = b => Live(a) /\ PageOf(a) = x
        BY <1>1, <3>1
      <4>2. Live(a) /\ PageOf(a) = x => a[2] = EndSlot
        BY <2>5, <3>1, Spots DEF Live
      <4> QED
        BY <3>1, <4>1, <4>2
    <3> QED
      BY <2>3, <2>5, <3>1, <3>2 DEF Live
  <2>7. \A a : Inner(a)' <=> Inner(a)
    BY <1>1, <1>7, <2>6, Spots, <1>4 DEF Inner
  <2>8. PagesOrdered(rank)'
    <3> SUFFICES ASSUME NEW z \in LinkedPages' PROVE PageOrdered(rank, z)'
      BY DEF PagesOrdered
    <3>1. PageOrdered(rank, z) /\ z \in LinkedPages /\ z # x
      BY <2>3 DEF Ordered, PagesOrdered
    <3>2. PageOrdered(rank, x)
      BY <1>4 DEF Ordered, PagesOrdered
    <3>3. rank[x] <= rank[z] /\ rank[x] # rank[z] /\ rank[x] \in Nat /\ rank[z] \in Nat
      BY <1>4, <1>5, <2>5, <3>1, <3>2 DEF PageOrdered
    <3>4. rank[PageOf(First')] <= rank[z]
      BY <2>1, <2>5, <3>3
    <3>5. \A w \in LinkedPages : rank[w] = rank[z] + 1 => w # x
      BY <3>3
    <3> QED
      BY <1>2, <2>3, <2>4, <3>1, <3>4, <3>5 DEF PageOrdered
  <2>9. HeadPlace'
    BY <1>2, <1>4, <2>3, <2>4, <2>5 DEF Ordered, HeadPlace
  <2>10. TailPlace'
    <3>1. TailSlot(y) \in Nat
      BY Typed, Spots, BaseAssumption DEF TailSlot, InvalidBlock
    <3>2. \A z \in LinkedPages' : Open(z)' /\ PageOf(First)' = z => First'[2] <= TailSlot(z)'
      BY <1>2, <2>5, <3>1
    <3> QED
      BY <1>2, <1>3, <2>4, <3>2 DEF Ordered, TailPlace
  <2>11. \A a \in Block : ~Live(a) /\ PageOf(a) = PageOf(First)' =>
            PageOf(a) = PageOf(First) /\ First[2] <= First'[2]
    BY <2>1, <2>3, <2>5 DEF Live
  <2> QED
    BY <1>2, <2>4, <2>6, <2>7, <2>8, <2>9, <2>10, <2>11
<1> QED
  BY <1>6, <1>7

\* advance_head: the CAS moves the head past a dead block, which is from now on
\* behind it and this consumer's to clear.
LEMMA AdvanceHeadKeepsOrder ==
    ASSUME NEW rank \in [Pages -> Nat], IInv, Ordered(rank), UNCHANGED tailVars, NEW c \in Consumers,
           ZeroedPages, AdvanceHead(c), m_head = cons[c].control
    PROVE  Ordered(rank)'
<1> PICK b, n : b = cons[c].control /\ n = cons[c].next
  OBVIOUS
<1>1. /\ cons[c] \in Consume /\ cons \in [Consumers -> Consume] /\ At(c, "advance")
      /\ cons[c].pc = "advance"
  BY Typed DEF IInv, TypeOK, HeadTypeOK, AdvanceHead, At
<1>2. /\ b = First /\ b \in Block /\ n.to \in Block /\ n \in NextPtr /\ IsDead(n)
      /\ Live(b) /\ m_next[b] = n /\ PageOf(b) \notin NewPages
      /\ SamePage(b, n.to) => Inner(b) /\ b[2] < n.to[2]
      /\ ~SamePage(b, n.to) => n.flags = {"dead"}
  BY <1>1, HeadWord
<1>3. /\ \A d \in Consumers \ {c} : cons'[d] = cons[d]
      /\ cons'[c].control = b /\ cons'[c].next = n
      /\ (cons'[c].pc = "free_external" /\ SamePage(b, n.to)) \/ cons'[c].pc = "zero"
  <2>1. cons' = [cons EXCEPT ![c].pc = IF "external" \in n.flags THEN "free_external" ELSE "zero"]
    BY DEF AdvanceHead, Goto, AfterAdvance
  <2>2. "external" \in n.flags => SamePage(b, n.to)
    BY <1>2
  <2> QED
    BY <1>1, <2>1, <2>2 DEF Consume
<1>4. /\ m_next' = m_next /\ content' = content /\ pinners' = pinners /\ status' = status
      /\ m_initial_page' = m_initial_page /\ prod' = prod /\ m_tail' = m_tail /\ pool' = pool
      /\ UNCHANGED baseVars /\ m_head' = n.to
  BY DEF AdvanceHead, baseVars, tailVars
<1>5. /\ PagesOrdered(rank)' /\ HeadPlace' /\ TailPlace'
      /\ NewPages' = NewPages /\ \A x : Open(x)' <=> Open(x)
      /\ \A a : Live(a)' => Live(a)
      /\ \A a : Inner(a)' => Inner(a)
      /\ ~Live(b)'
      /\ \A a, g \in Block : Inner(a) /\ Spans(a, g) /\ a # b => Inner(a)'
      /\ \A a \in Block : Live(a) /\ ~Live(a)' /\ m_next[a] # Zero => a = b
      /\ \A a \in Block : ~Live(a) /\ PageOf(a) = PageOf(First)' =>
            PageOf(a) = PageOf(First) /\ First[2] <= First'[2]
      /\ First' = n.to
  <2>1. /\ cons'[c].control = cons[c].control /\ cons'[c].next = cons[c].next
        /\ (cons'[c].pc = "free_external" /\ SamePage(cons[c].control, cons[c].next.to)) \/ cons'[c].pc = "zero"
    BY <1>3
  <2>2. m_head' = cons[c].next.to /\ UNCHANGED baseVars
    BY <1>4
  <2>3. ~Live(cons[c].control)' => ~Live(b)'
    BY <1>3, <1>4 DEF Live
  <2> QED
    BY <1>1, <1>3, <2>1, <2>2, <2>3, HeadLeaves
<1>6. \A a \in Block : Inner(a) /\ m_next[a].to \in Block /\ a # b => Inner(a)'
  BY <1>5 DEF Spans
<1>7. /\ \A d \in Consumers : Passed(d)' <=> Passed(d) \/ d = c
      /\ \A d \in Consumers : Wipes(d)' <=> Wipes(d) \/ d = c
      /\ \A d \in Consumers : Takes(d)' <=> Takes(d)
      /\ ~Passed(c) /\ ~Takes(c) /\ ~Wipes(c)
  BY <1>1, <1>3 DEF Passed, Wipes, Takes, At
<1>8. BlocksApart'
  <2>1. /\ \A a, g : Spans(a, g)' <=> Spans(a, g)
        /\ \A x : TailSlot(x)' = TailSlot(x)
    BY <1>4 DEF Spans, Reserving, ReservedEnd, TailSlot, PAt
  <2>2. ASSUME NEW a \in Block, NEW e \in Block, BlockApart(a, e) PROVE BlockApart(a, e)'
    BY <1>5, <2>1, <2>2 DEF BlockApart
  <2> QED
    BY <1>4, <1>5, <2>1, <2>2 DEF Ordered, BlocksApart
<1>9. NewPagesBlank'
  BY <1>4, <1>5 DEF Ordered, NewPagesBlank, NewPageBlank, Creates
<1>10. ReservationsOK'
  <2>1. ASSUME NEW p \in Producers PROVE ReservationOK(p)'
    <3> SUFFICES ASSUME Stores(p) PROVE Inner(prod[p].tail)' /\ m_next[prod[p].tail] = Zero
      BY <1>4 DEF ReservationOK, Stores, Inner, Live
    <3>1. Inner(prod[p].tail) /\ m_next[prod[p].tail] = Zero
      BY DEF Ordered, ReservationsOK, ReservationOK
    <3>2. prod[p].tail \in Block /\ ReservedEnd(p) \in Block
      BY ReservedBlock
    <3>3. Spans(prod[p].tail, ReservedEnd(p))
      BY DEF Spans, Reserving, Stores
    <3>4. prod[p].tail # b
      BY <1>2, <3>1 DEF IsDead, Zero
    <3>5. \A a : a = prod[p].tail => Inner(a)'
      BY <1>5, <3>1, <3>2, <3>3, <3>4
    <3> QED
      BY <1>4, <3>1, <3>5 DEF Inner, Live
  <2> QED
    BY <1>4, <2>1 DEF Ordered, ReservationsOK, Stores
<1>11. LeftBehind'
  <2> SUFFICES ASSUME NEW a \in Block, ~Live(a)', PageOf(a) \notin NewPages, m_next[a] # Zero
               PROVE  \E d \in Consumers : Passed(d)' /\ cons'[d].control = a
    BY <1>4, <1>5 DEF LeftBehind
  <2>1. CASE Live(a)
    BY <1>3, <1>5, <1>7, <2>1
  <2>2. CASE ~Live(a)
    <3>1. PICK d \in Consumers : Passed(d) /\ cons[d].control = a
      BY <2>2 DEF Ordered, LeftBehind
    <3> QED
      BY <1>3, <1>7, <3>1
  <2> QED
    BY <2>1, <2>2
<1>12. ConsumersPlaced'
  <2>1. ASSUME NEW d \in Consumers \ {c} PROVE ConsumerPlaced(d)'
    <3>1. ConsumerPlaced(d) /\ cons'[d] = cons[d] /\ cons[d] \in Consume /\ ConsumerOK(d)
      BY <1>3, Typed DEF Ordered, ConsumersPlaced
    <3>2. cons[d].pc \in {"free_external", "zero", "memset"} =>
             cons[d].control \in Block /\ cons[d].next.to \in Block
      BY <3>1 DEF ConsumerOK
    <3>3. First[2] \in Nat /\ First'[2] \in Nat /\ cons[d].next.to \in Block =>
             cons[d].next.to[2] \in Nat
      BY Spots
    <3>4. First[2] \in Nat /\ First'[2] \in Nat
      BY <1>2, <1>5, Spots
    <3>5. cons[d].pc \in {"free_external", "zero", "memset"} /\ SamePage(cons[d].control, cons[d].next.to)
             /\ PageOf(cons[d].control) = PageOf(First') => cons[d].next.to[2] <= First'[2]
      <4>1. cons[d].pc \in {"free_external", "zero", "memset"} => ~Live(cons[d].control)
        BY <3>1 DEF ConsumerPlaced
      <4>2. cons[d].pc \in {"free_external", "zero", "memset"} /\ SamePage(cons[d].control, cons[d].next.to)
             /\ PageOf(cons[d].control) = PageOf(First) => cons[d].next.to[2] <= First[2]
        BY <3>1 DEF ConsumerPlaced
      <4> QED
        BY <1>5, <3>2, <3>3, <3>4, <4>1, <4>2
    <3>6. \A a : Live(a)' => Live(a)
      BY <1>5
    <3> QED
      BY <1>4, <1>5, <3>1, <3>5, <3>6 DEF ConsumerPlaced, Passed
  <2>2. ConsumerPlaced(c)'
    <3>1. SamePage(b, n.to) => b[2] < n.to[2] /\ n.to[2] <= First'[2]
      BY <1>2, <1>5, Spots
    <3>2. ~Live(cons[c].control)'
      BY <1>3, <1>5 DEF Live
    <3> QED
      BY <1>2, <1>3, <1>4, <1>5, <3>1, <3>2 DEF ConsumerPlaced, Passed
  <2>3. \A d \in Consumers : Passed(d) => cons[d].control # b
    BY <1>2 DEF Ordered, ConsumersPlaced, ConsumerPlaced, Passed
  <2>4. \A d, e \in Consumers : Passed(d)' /\ Passed(e)' /\ d # e => cons'[d].control # cons'[e].control
    BY <1>3, <1>7, <2>3 DEF Ordered, ConsumersPlaced
  <2> QED
    BY <2>1, <2>2, <2>4 DEF ConsumersPlaced
<1>13. OwnersOK'
  <2>1. ASSUME NEW p \in Producers PROVE PutterOwns(p)'
    <3> SUFFICES ASSUME Putting(p) PROVE Inner(prod[p].control)'
      BY <1>4 DEF Ordered, OwnersOK, PutterOwns, Putting
    <3>1. /\ Inner(prod[p].control) /\ m_next[prod[p].control] = prod[p].next
          /\ "busy" \in prod[p].next.flags /\ prod[p].next.to \in Block
      BY Typed DEF Ordered, OwnersOK, PutterOwns, Putting, ProducerOK
    <3>2. prod[p].control # b /\ prod[p].control \in Block
      BY <1>2, <3>1 DEF IsDead, Inner, Live
    <3>3. \A a : a = prod[p].control => Inner(a)'
      BY <1>6, <3>1, <3>2
    <3> QED
      BY <1>4, <3>3 DEF Inner, Live
  <2>2. ASSUME NEW d \in Consumers PROVE TakerOwns(d)'
    <3> SUFFICES ASSUME Takes(d) PROVE Inner(cons[d].control)'
      BY <1>3, <1>4, <1>7 DEF Ordered, OwnersOK, TakerOwns, TakenWord
    <3>1. Inner(cons[d].control) /\ m_next[cons[d].control] = TakenWord(d) /\ cons[d].next.to \in Block
      BY Typed DEF Ordered, OwnersOK, TakerOwns, Takes, At, ConsumerOK
    <3>2. TakenWord(d).to \in Block /\ "busy" \in TakenWord(d).flags
      BY <3>1 DEF TakenWord, NextWord
    <3>3. cons[d].control # b /\ cons[d].control \in Block
      BY <1>2, <3>1, <3>2 DEF IsDead, Inner, Live
    <3>4. \A a : a = cons[d].control => Inner(a)'
      BY <1>6, <3>1, <3>2, <3>3
    <3>5. cons'[d].control = cons[d].control
      BY <1>3
    <3> QED
      BY <3>4, <3>5 DEF Inner, Live
  <2>3. \A d \in Consumers : cons'[d].control = cons[d].control
    BY <1>3
  <2> QED
    BY <1>4, <1>7, <2>1, <2>2, <2>3 DEF Ordered, OwnersOK, Putting
<1>14. PutsOK(rank)'
  <2> SUFFICES ASSUME NEW p \in Producers PROVE PutOK(rank, p)'
    BY DEF PutsOK
  <2>1. PutOK(rank, p) /\ prod[p] \in Producer
    BY Typed DEF Ordered, PutsOK
  <2>2. prod[p].pc = "fill" => Inner(prod[p].tail)'
    <3> SUFFICES ASSUME prod[p].pc = "fill" PROVE Inner(prod[p].tail)'
      OBVIOUS
    <3>1. /\ Putting(p) /\ Inner(prod[p].tail) /\ m_next[prod[p].tail].to = NewTail(prod[p].tail, prod[p].size)
          /\ prod[p].tail # prod[p].control => Before(rank, prod[p].control, prod[p].tail)
      BY <2>1 DEF PutOK
    <3>2. prod[p].tail \in Block /\ m_next[prod[p].tail].to \in Block
      <4>1. prod[p].tail \in Block
        BY <3>1 DEF Inner, Live
      <4>2. m_next[prod[p].tail].to \in BlockOrNull /\ m_next[prod[p].tail].to # NoBlock
        BY <3>1, <4>1, Typed, TailBlocks, BaseAssumption DEF NextPtr, NewTail, NoBlock
      <4> QED
        BY <4>1, <4>2, Addresses
    <3>3. Inner(prod[p].control) /\ m_next[prod[p].control] = prod[p].next /\ "busy" \in prod[p].next.flags
      BY <3>1 DEF Ordered, OwnersOK, PutterOwns
    <3>4. prod[p].tail # b
      <4>1. prod[p].control # b
        BY <1>2, <3>3 DEF IsDead
      <4>2. ~Before(rank, prod[p].control, b)
        <5>1. prod[p].control \in Block /\ PageOf(prod[p].control) \in LinkedPages
              /\ (PageOf(prod[p].control) = PageOf(b) => b[2] <= prod[p].control[2])
          BY <1>2, <3>3 DEF Inner, Live
        <5>2. rank[PageOf(b)] <= rank[PageOf(prod[p].control)]
          BY <1>2, <5>1 DEF Ordered, PagesOrdered, PageOrdered
        <5>3. b[2] \in Nat /\ prod[p].control[2] \in Nat /\ PageOf(b) \in Pages /\ PageOf(prod[p].control) \in Pages
          BY <1>2, <5>1, Spots
        <5>4. rank[PageOf(b)] \in Nat /\ rank[PageOf(prod[p].control)] \in Nat
          BY <5>3
        <5> QED
          BY <5>1, <5>2, <5>3, <5>4 DEF Before
      <4> QED
        BY <3>1, <4>1, <4>2
    <3>5. \A a : a = prod[p].tail => Inner(a)'
      BY <1>6, <3>1, <3>2, <3>4
    <3> QED
      BY <1>4, <3>5 DEF Inner, Live
  <2> QED
    BY <1>4, <2>1, <2>2 DEF PutOK, Putting, Before
<1>15. CreationOK'
  BY <1>4, <1>5 DEF Ordered, CreationOK, CreationPlaced
<1>16. ContentsWiped'
  <2> SUFFICES ASSUME NEW x \in Block, content[x] # NoItem PROVE InBlock(x)' \/ BeingWiped(x)'
    BY <1>4 DEF ContentsWiped
  <2>1. CASE InBlock(x)
    <3>1. PICK a \in Block : Inner(a) /\ Between(a, x, m_next[a].to)
      BY <2>1 DEF InBlock
    <3>2. CASE a = b
      <4>1. Between(b, x, n.to)
        BY <1>2, <3>1, <3>2
      <4>2. BeingWiped(x)'
        BY <1>3, <1>7, <4>1 DEF BeingWiped, Between
      <4> QED
        BY <4>2
    <3>3. CASE a # b
      <4>1. m_next[a].to \in Block
        <5>1. m_next[a].to \in BlockOrNull /\ PageOf(m_next[a].to) \in Pages
          BY <3>1, Typed, Spots DEF NextPtr, Between, SamePage
        <5> QED
          BY <5>1, Addresses, BaseAssumption DEF NoBlock, PageOf
      <4>2. Inner(a)'
        BY <1>6, <3>1, <3>3, <4>1
      <4> QED
        BY <1>4, <3>1, <4>2 DEF InBlock, Between
    <3> QED
      BY <3>2, <3>3
  <2>2. CASE BeingWiped(x)
    <3>1. PICK d \in Consumers : Wipes(d) /\ Between(cons[d].control, x, cons[d].next.to)
      BY <2>2 DEF BeingWiped
    <3>2. cons'[d] = cons[d] /\ Wipes(d)'
      BY <1>3, <1>7, <3>1
    <3> QED
      BY <3>1, <3>2 DEF BeingWiped, Between
  <2> QED
    BY <2>1, <2>2 DEF Ordered, ContentsWiped
<1>17. ElementsOK'
  <2>1. \A p \in Producers : PutElementOK(p)' <=> PutElementOK(p)
    BY <1>4 DEF PutElementOK, Putting, Current, PAt
  <2>2. \A a : ReadyBlock(a)' => ReadyBlock(a)
    BY <1>4, <1>5 DEF ReadyBlock
  <2>3. \A a, s : Holds(a, s)' <=> Holds(a, s)
    BY <1>4 DEF Holds, ElementOf
  <2>4. \A d \in Consumers : Takes(d) => cons'[d].control = cons[d].control
    BY <1>3
  <2>5. \A d \in Consumers : Takes(d)' => Holds(cons[d].control, "consuming")'
    BY <1>4, <1>7, <2>4 DEF Ordered, ElementsOK, Holds, ElementOf
  <2> QED
    BY <1>4, <1>7, <2>1, <2>2, <2>3, <2>4, <2>5 DEF Ordered, ElementsOK
<1> QED
  BY <1>5, <1>8, <1>9, <1>10, <1>11, <1>12, <1>13, <1>14, <1>15, <1>16, <1>17 DEF Ordered

---------------------------------------------------------------------------
(* What the head has left is cleared, and an empty page given back *)

\* What a consumer clears lies behind the head, in no block of the queue.
LEMMA ClearsKeepOrder ==
    ASSUME NEW rank, IInv, Ordered(rank), UNCHANGED tailVars, NEW c \in Consumers,
           UNCHANGED <<pinners, m_initial_page, status, m_head>>, LinkedPages' = LinkedPages,
           \A q \in NewPages : pool'[q] = pool[q],
           \A d \in Consumers \ {c} : cons'[d] = cons[d],
           cons[c].pc \in {"free_external", "zero", "memset", "free_page"},
           cons'[c].pc \in {"zero", "memset", "free_page", "move"},
           cons'[c].control = cons[c].control, cons'[c].next = cons[c].next,
           \A a \in Block : \/ m_next'[a] = m_next[a]
                            \/ Passed(c) /\ ~Passed(c)' /\ a = cons[c].control /\ m_next'[a] = Zero,
           Passed(c)' => Passed(c), Passed(c) /\ ~Passed(c)' => m_next'[cons[c].control] = Zero,
           \A x \in Block : /\ Live(x) => content'[x] = content[x]
                            /\ content'[x] \in {content[x], NoItem},
           Wipes(c)' => Wipes(c),
           \A x \in Block : /\ Wipes(c) /\ ~Wipes(c)' /\ Between(cons[c].control, x, cons[c].next.to)
                            => content'[x] = NoItem,
           cons'[c].pc = "memset" => SamePage(cons[c].control, cons[c].next.to),
           cons'[c].pc = "free_page" => ~SamePage(cons[c].control, cons[c].next.to)
    PROVE  Ordered(rank)'
<1> PICK b, n : b = cons[c].control /\ n = cons[c].next
  OBVIOUS
<1>1. /\ b \in Block /\ ConsumerPlaced(c) /\ cons[c] \in Consume /\ PageOf(b) \notin NewPages /\ ~Live(b)
      /\ \A d \in Consumers \ {c} : cons'[d] = cons[d]
      /\ cons'[c].control = b /\ cons'[c].next = n
  BY Typed DEF Ordered, ConsumersPlaced, ConsumerPlaced, ConsumerOK
<1>2. /\ NewPages' = NewPages /\ First' = First /\ prod' = prod
      /\ m_initial_page' = m_initial_page /\ m_head' = m_head
  BY DEF NewPages, First, tailVars
<1>3. Kept /\ ConsumerWrites /\ EndPinsKept
  <2>1. ConsumerWrites
    BY <1>1 DEF ConsumerWrites
  <2> QED
    BY <1>2, <2>1 DEF Kept, EndPinsKept, tailVars
<1>4. /\ PagesOrdered(rank)' /\ HeadPlace' /\ TailPlace' /\ BlocksApart'
      /\ NewPagesBlank' /\ ReservationsOK' /\ PutsOK(rank)' /\ CreationOK'
  BY <1>2, <1>3, ConsumerKeepsLayout
<1>5. /\ \A a : Live(a)' <=> Live(a)
      /\ \A a : Inner(a)' <=> Inner(a)
      /\ \A a : Inner(a) => Live(a) /\ a \in Block
      /\ \A a \in Block : Live(a) => m_next'[a] = m_next[a]
  BY <1>1, <1>3, LiveKept DEF Inner, Live
<1>6. /\ \A d \in Consumers \ {c} : Passed(d)' <=> Passed(d)
      /\ \A d \in Consumers \ {c} : Wipes(d)' <=> Wipes(d)
      /\ \A d \in Consumers : Takes(d)' <=> Takes(d) /\ d # c
      /\ ~Takes(c)
      /\ \A d \in Consumers : cons'[d].control = cons[d].control /\ cons'[d].next = cons[d].next
  BY <1>1 DEF Passed, Wipes, Takes, At
<1>7. LeftBehind'
  <2> SUFFICES ASSUME NEW a \in Block, ~Live(a), PageOf(a) \notin NewPages, m_next'[a] # Zero
               PROVE  \E d \in Consumers : Passed(d)' /\ cons'[d].control = a
    BY <1>2, <1>5 DEF LeftBehind
  <2>1. m_next[a] # Zero
    OBVIOUS
  <2>2. PICK d \in Consumers : Passed(d) /\ cons[d].control = a
    BY <2>1 DEF Ordered, LeftBehind
  <2> QED
    BY <1>1, <1>6, <2>2
<1>8. ConsumersPlaced'
  <2>1. \A d \in Consumers \ {c} : Passed(d) => m_next'[cons[d].control] = m_next[cons[d].control]
    <3>1. \A d \in Consumers \ {c} : Passed(d) /\ Passed(c) => cons[d].control # cons[c].control
      BY DEF Ordered, ConsumersPlaced
    <3>2. \A d \in Consumers : Passed(d) => cons[d].control \in Block
      BY Typed DEF ConsumerOK, Passed
    <3> QED
      BY <3>1, <3>2
  <2>2. \A d \in Consumers \ {c} : ConsumerPlaced(d)'
    BY <1>1, <1>2, <1>3, <2>1, OthersPlaced DEF Ordered
  <2>3. ConsumerPlaced(c)'
    <3>1. Passed(c)' => m_next'[b] = n
      <4>1. Passed(c) => m_next[b] = n
        BY <1>1 DEF ConsumerPlaced
      <4> QED
        BY <1>1, <4>1
    <3>2. /\ IsDead(n) /\ ~Live(b)'
          /\ SamePage(b, n.to) /\ cons'[c].pc \in {"zero", "memset"} =>
                /\ b[2] < n.to[2]
                /\ PageOf(b) = PageOf(First) => n.to[2] <= First[2]
      <4>1. cons'[c].pc \in {"zero", "memset"} => cons[c].pc \in {"free_external", "zero", "memset"}
        BY DEF Wipes
      <4> QED
        BY <1>1, <1>5, <4>1 DEF ConsumerPlaced
    <3> QED
      BY <1>1, <1>2, <1>5, <3>1, <3>2 DEF ConsumerPlaced
  <2>4. \A d, e \in Consumers : Passed(d)' /\ Passed(e)' /\ d # e => cons'[d].control # cons'[e].control
    <3>1. \A d \in Consumers : Passed(d)' => Passed(d)
      BY <1>6
    <3> QED
      BY <1>6, <3>1 DEF Ordered, ConsumersPlaced
  <2> QED
    BY <2>2, <2>3, <2>4 DEF ConsumersPlaced
<1>9. OwnersOK'
  <2>1. \A p \in Producers : PutterOwns(p)'
    BY <1>2, <1>5 DEF Ordered, OwnersOK, PutterOwns, Putting
  <2>2. \A d \in Consumers : TakenWord(d)' = TakenWord(d)
    BY <1>6 DEF TakenWord
  <2>3. \A d \in Consumers : TakerOwns(d)'
    BY <1>5, <1>6, <2>2 DEF Ordered, OwnersOK, TakerOwns
  <2> QED
    BY <1>2, <1>6, <2>1, <2>3 DEF Ordered, OwnersOK, Putting
<1>10. ContentsWiped'
  <2> SUFFICES ASSUME NEW x \in Block, content'[x] # NoItem PROVE InBlock(x)' \/ BeingWiped(x)'
    BY DEF ContentsWiped
  <2>1. content[x] # NoItem
    OBVIOUS
  <2>2. CASE InBlock(x)
    BY <1>5, <2>2 DEF InBlock, Between
  <2>3. CASE BeingWiped(x)
    <3>1. PICK d \in Consumers : Wipes(d) /\ Between(cons[d].control, x, cons[d].next.to)
      BY <2>3 DEF BeingWiped
    <3>2. Wipes(d)'
      BY <1>6, <3>1
    <3> QED
      BY <1>6, <3>1, <3>2 DEF BeingWiped, Between
  <2> QED
    BY <2>1, <2>2, <2>3 DEF Ordered, ContentsWiped
<1>11. ElementsOK'
  <2>1. \A a : Inner(a) => content'[a] = content[a]
    BY <1>5
  <2>2. \A p \in Producers : PutElementOK(p)'
    <3>1. \A p \in Producers : Putting(p) => Inner(prod[p].control)
      BY DEF Ordered, OwnersOK, PutterOwns
    <3> QED
      BY <1>2, <2>1, <3>1 DEF Ordered, ElementsOK, PutElementOK, Putting, Current, PAt
  <2>3. \A a \in Block : ReadyBlock(a)' => ReadyBlock(a)
    BY <1>5 DEF ReadyBlock
  <2>4. \A a, s : Inner(a) /\ Holds(a, s) => Holds(a, s)'
    BY <2>1 DEF Holds, ElementOf
  <2>5. \A a \in Block : ReadyBlock(a)' => Holds(a, "ready")' /\ content'[a] = content[a]
    BY <2>1, <2>3, <2>4 DEF Ordered, ElementsOK, ReadyBlock
  <2>6. \A d \in Consumers : Takes(d) => Inner(cons[d].control)
    BY DEF Ordered, OwnersOK, TakerOwns
  <2>7. ASSUME NEW d \in Consumers, Takes(d)' PROVE Holds(cons[d].control, "consuming")'
    <3> PICK a : a = cons[d].control
      OBVIOUS
    <3>1. Takes(d) /\ Inner(a) /\ Holds(a, "consuming") /\ cons'[d].control = a
      BY <1>6, <2>6, <2>7 DEF Ordered, ElementsOK
    <3>2. Holds(a, "consuming")'
      BY <2>4, <3>1
    <3> QED
      BY <3>1, <3>2 DEF Holds, ElementOf
  <2>8. \A d \in Consumers : Takes(d)' =>
           Takes(d) /\ cons'[d].control = cons[d].control /\ content'[cons[d].control] = content[cons[d].control]
    BY <1>6, <2>1, <2>6
  <2>9. \A d, e \in Consumers : Takes(d)' /\ Takes(e)' /\ d # e =>
           content'[cons'[d].control] # content'[cons'[e].control]
    BY <2>8 DEF Ordered, ElementsOK
  <2> QED
    BY <2>2, <2>3, <2>5, <2>7, <2>9 DEF Ordered, ElementsOK
<1> QED
  BY <1>4, <1>7, <1>8, <1>9, <1>10, <1>11 DEF Ordered

\* The rest of advance_head: the external block, the control word, the contents
\* and, at the end of a page, the page itself.
LEMMA CleaningKeepsOrder ==
    ASSUME NEW rank, IInv, Ordered(rank), UNCHANGED tailVars, NEW c \in Consumers, ZeroedPages,
           FreeExternal(c) \/ ZeroControl(c) \/ Memset(c) \/ DeallocatePage(c)
    PROVE  Ordered(rank)'
<1> PICK b, n : b = cons[c].control /\ n = cons[c].next
  OBVIOUS
<1>1. /\ cons[c] \in Consume /\ cons \in [Consumers -> Consume]
      /\ cons[c].pc \in {"free_external", "zero", "memset", "free_page"}
      /\ b \in Block /\ n.to \in Block /\ ConsumerPlaced(c) /\ PageOf(b) \notin NewPages /\ ~Live(b)
  BY Typed DEF IInv, TypeOK, HeadTypeOK, FreeExternal, ZeroControl, Memset, DeallocatePage, At,
     ConsumerOK, Ordered, ConsumersPlaced, ConsumerPlaced
<1>2. cons' = [cons EXCEPT ![c].pc =
                 IF FreeExternal(c) THEN "zero"
                 ELSE IF ZeroControl(c) /\ SamePage(b, n.to) THEN "memset"
                 ELSE IF ZeroControl(c) THEN "free_page" ELSE "move"]
  <2>1. FreeExternal(c) => ~ZeroControl(c) /\ cons' = [cons EXCEPT ![c].pc = "zero"]
    BY DEF FreeExternal, ZeroControl, At, Goto, AfterAdvance
  <2>2. ~FreeExternal(c) /\ ZeroControl(c) =>
           cons' = [cons EXCEPT ![c].pc = IF SamePage(b, n.to) THEN "memset" ELSE "free_page"]
    BY DEF ZeroControl, Goto
  <2>3. ~FreeExternal(c) /\ ~ZeroControl(c) => cons' = [cons EXCEPT ![c].pc = "move"]
    BY DEF Memset, DeallocatePage, Goto
  <2> QED
    BY <2>1, <2>2, <2>3
<1>3. /\ \A d \in Consumers \ {c} : cons'[d] = cons[d]
      /\ cons'[c].control = b /\ cons'[c].next = n
      /\ FreeExternal(c) => cons'[c].pc = "zero"
      /\ ~FreeExternal(c) /\ ZeroControl(c) /\ SamePage(b, n.to) => cons'[c].pc = "memset"
      /\ ~FreeExternal(c) /\ ZeroControl(c) /\ ~SamePage(b, n.to) => cons'[c].pc = "free_page"
      /\ ~FreeExternal(c) /\ ~ZeroControl(c) => cons'[c].pc = "move"
  BY <1>1, <1>2 DEF Consume
<1>4. /\ pinners' = pinners /\ m_initial_page' = m_initial_page /\ status' = status /\ m_head' = m_head
      /\ NewPages' = NewPages
  BY DEF FreeExternal, ZeroControl, Memset, DeallocatePage, NewPages, tailVars
<1> DEFINE LeavesPage(d) == cons[d].pc \in {"zero", "free_page"} /\ ~SamePage(cons[d].control, cons[d].next.to)
<1>5. \A d \in Consumers \ {c} : LeavesPage(d)' <=> LeavesPage(d)
  BY <1>3
<1>6. /\ \A q : q \in LeftPages <=> \E d \in Consumers : LeavesPage(d) /\ q = PageOf(cons[d].control)
      /\ \A q : q \in LeftPages' <=> \E d \in Consumers : LeavesPage(d)' /\ q = PageOf(cons'[d].control)
      /\ \A d \in Consumers : cons'[d].control = cons[d].control
  BY <1>3 DEF LeftPages
<1>7. CASE FreeExternal(c)
  <2>1. cons[c].pc = "free_external" /\ SamePage(b, n.to) /\ cons'[c].pc = "zero"
    BY <1>1, <1>3, <1>7 DEF FreeExternal, At, ConsumerPlaced
  <2>2. LeftPages' = LeftPages
    <3>1. LeavesPage(c)' <=> LeavesPage(c)
      BY <1>3, <2>1
    <3> HIDE DEF LeavesPage
    <3>2. \A q : q \in LeftPages' <=> q \in LeftPages
      BY <1>5, <1>6, <3>1
    <3> QED
      BY <3>2 DEF LeftPages
  <2>3. LinkedPages' = LinkedPages /\ m_next' = m_next /\ content' = content /\ pool' = pool
    BY <1>4, <1>7, <2>2 DEF FreeExternal, LinkedPages
  <2>4. Passed(c) /\ Passed(c)' /\ Wipes(c) /\ Wipes(c)'
    BY <2>1 DEF Passed, Wipes
  <2> QED
    BY <1>1, <1>3, <1>4, <2>1, <2>3, <2>4, ClearsKeepOrder
<1>8. CASE ~FreeExternal(c) /\ ZeroControl(c)
  <2>1. cons[c].pc = "zero" /\ cons'[c].pc \in {"memset", "free_page"}
        /\ (cons'[c].pc = "memset" <=> SamePage(b, n.to))
    BY <1>3, <1>8 DEF ZeroControl, At
  <2>2. LeftPages' = LeftPages
    <3>1. LeavesPage(c)' <=> LeavesPage(c)
      BY <1>3, <2>1
    <3> HIDE DEF LeavesPage
    <3>2. \A q : q \in LeftPages' <=> q \in LeftPages
      BY <1>5, <1>6, <3>1
    <3> QED
      BY <3>2 DEF LeftPages
  <2>3. LinkedPages' = LinkedPages /\ content' = content /\ pool' = pool
    BY <1>4, <1>8, <2>2 DEF ZeroControl, LinkedPages
  <2>4. /\ \A a \in Block \ {b} : m_next'[a] = m_next[a]
        /\ m_next'[b] = Zero
    BY <1>1, <1>8 DEF ZeroControl, IInv, TypeOK, BaseTypeOK
  <2>5. /\ Passed(c) /\ ~Passed(c)' /\ Wipes(c)
        /\ ~Wipes(c)' => ~SamePage(b, n.to)
    BY <2>1 DEF Passed, Wipes
  <2>6. \A x \in Block : Wipes(c) /\ ~Wipes(c)' => ~Between(b, x, n.to)
    BY <2>5 DEF Between
  <2> QED
    BY <1>1, <1>3, <1>4, <2>1, <2>3, <2>4, <2>5, <2>6, ClearsKeepOrder
<1>9. CASE Memset(c)
  <2>1. cons[c].pc = "memset" /\ cons'[c].pc = "move" /\ SamePage(b, n.to)
    BY <1>1, <1>3, <1>9 DEF Memset, FreeExternal, ZeroControl, At, ConsumerPlaced
  <2>2. LeftPages' = LeftPages
    <3>1. LeavesPage(c)' <=> LeavesPage(c)
      BY <1>3, <2>1
    <3> HIDE DEF LeavesPage
    <3>2. \A q : q \in LeftPages' <=> q \in LeftPages
      BY <1>5, <1>6, <3>1
    <3> QED
      BY <3>2 DEF LeftPages
  <2>3. LinkedPages' = LinkedPages /\ m_next' = m_next /\ pool' = pool
    BY <1>4, <1>9, <2>2 DEF Memset, LinkedPages
  <2>4. ~Passed(c) /\ ~Passed(c)' /\ Wipes(c) /\ ~Wipes(c)'
    BY <2>1 DEF Passed, Wipes
  <2>5. \A x \in Block : content'[x] = IF Between(b, x, n.to) THEN NoItem ELSE content[x]
    <3> SUFFICES ASSUME NEW x \in Block PROVE content'[x] = IF Between(b, x, n.to) THEN NoItem ELSE content[x]
      OBVIOUS
    <3>1. content'[x] = IF SamePage(x, b) /\ x[2] \in b[2] .. (n.to[2] - 1) THEN NoItem ELSE content[x]
      BY <1>9 DEF Memset
    <3>2. x[2] \in Nat /\ b[2] \in Nat /\ n.to[2] \in Nat
      BY <1>1, Spots
    <3> QED
      BY <2>1, <3>1, <3>2 DEF Between, SamePage
  <2>6. \A x \in Block : Between(b, x, n.to) => ~Live(x)
    <3> SUFFICES ASSUME NEW x \in Block, Between(b, x, n.to), Live(x) PROVE FALSE
      OBVIOUS
    <3>1. PageOf(b) = PageOf(x) /\ b[2] <= x[2] /\ x[2] < n.to[2]
      BY DEF Between, SamePage
    <3>2. PageOf(b) = PageOf(First) /\ ~(First[2] <= b[2])
      BY <1>1, <3>1 DEF Live
    <3>3. n.to[2] <= First[2] /\ First[2] <= x[2]
      BY <1>1, <2>1, <3>1, <3>2 DEF ConsumerPlaced, Live
    <3>4. n.to[2] \in Nat /\ First[2] \in Nat /\ x[2] \in Nat
      BY <1>1, Spots, Typed
    <3> QED
      BY <3>1, <3>3, <3>4
  <2> QED
    BY <1>1, <1>3, <1>4, <2>1, <2>3, <2>4, <2>5, <2>6, ClearsKeepOrder
<1>10. CASE DeallocatePage(c)
  <2>1. cons[c].pc = "free_page" /\ cons'[c].pc = "move" /\ ~SamePage(b, n.to)
    BY <1>1, <1>3, <1>10 DEF DeallocatePage, FreeExternal, ZeroControl, At, ConsumerPlaced
  <2>2. PageOf(b) \in LeftPages /\ \A q : q # PageOf(b) => (q \in LeftPages' <=> q \in LeftPages)
    <3>1. LeavesPage(c) /\ ~LeavesPage(c)' /\ PageOf(cons[c].control) = PageOf(b)
      BY <2>1
    <3> HIDE DEF LeavesPage
    <3> QED
      BY <1>5, <1>6, <3>1
  <2>3. m_next' = m_next /\ content' = content /\ \A q \in Pages \ {PageOf(b)} : pool'[q] = pool[q]
    BY <1>10 DEF DeallocatePage
  <2>4. pool'[PageOf(b)] # "queue"
    BY <1>1, <1>10, Spots DEF DeallocatePage, IInv, TypeOK, BaseTypeOK
  <2>5. LinkedPages' = LinkedPages
    BY <1>4, <2>2, <2>3, <2>4 DEF LinkedPages
  <2>6. ~Passed(c) /\ ~Passed(c)' /\ ~Wipes(c) /\ ~Wipes(c)'
    BY <2>1 DEF Passed, Wipes
  <2>7. NewPages \subseteq Pages
    BY Typed DEF NewPages, ProducerOK
  <2>8. \A q \in NewPages : pool'[q] = pool[q]
    BY <1>1, <2>3, <2>7
  <2> QED
    BY <1>1, <1>3, <1>4, <2>1, <2>3, <2>5, <2>6, <2>8, ClearsKeepOrder
<1> QED
  BY <1>7, <1>8, <1>9, <1>10

\* Every step of a consumer.
LEMMA ConsumerKeepsOrder ==
    ASSUME NEW rank \in [Pages -> Nat], IInv, Ordered(rank), UNCHANGED tailVars, NEW c \in Consumers,
           ZeroedPages, ConsumerNext(c)
    PROVE  Ordered(rank)'
<1>1. CASE TryBusy(c)
  BY <1>1, TryBusyKeepsOrder, MovesKeepOrder
<1>2. CASE AdvanceHead(c)
  BY <1>2, AdvanceHeadKeepsOrder, MovesKeepOrder
<1>3. CASE CommitConsume(c) \/ CancelConsume(c)
  BY <1>3, ReleaseKeepsOrder
<1>4. CASE FreeExternal(c) \/ ZeroControl(c) \/ Memset(c) \/ DeallocatePage(c)
  BY <1>4, CleaningKeepsOrder
<1>5. CASE \/ LoadHead(c) \/ ReloadHead(c) \/ LoadInitialPage(c) \/ InitHead(c)
           \/ PinHead(c) \/ UnpinOld(c) \/ LoadHeadNext(c)
  BY <1>5, BeginIterationKeepsOrder
<1>6. CASE \/ Start(c, "consume") \/ Start(c, "empty") \/ Return(c) \/ DestroyConsume(c)
           \/ MoveNext(c) \/ Reread(c) \/ UnpinLeft(c) \/ LoadNext(c)
  BY <1>6, MovesKeepOrder
<1> QED
  BY <1>1, <1>2, <1>3, <1>4, <1>5, <1>6 DEF ConsumerNext, ConsumerStep

---------------------------------------------------------------------------
(* Steps of a producer that keep the pages linked and the head *)

\* What producer p writes: control words of pages of its own, or of a block
\* no other thread owns, which ends where it did or gets an end.
ProducerWrites(p, own) ==
    \A b \in Block :
        \/ m_next'[b] = m_next[b]
        \/ PageOf(b) \in own
        \/ /\ Inner(b) /\ ~IsDead(m_next[b])
           /\ m_next'[b].to # NoBlock /\ m_next[b].to \in {NoBlock, m_next'[b].to}
           /\ \A q \in Producers \ {p} : /\ Stores(q) => prod[q].tail # b
                                         /\ Putting(q) => prod[q].control # b
           /\ \A c \in Consumers : Takes(c) => cons[c].control # b

\* The pages that p has for itself: it has created them, or gives them back.
OwnPages(p, own) ==
    /\ own \cap LinkedPages = {}
    /\ \A y : y \notin own => (y \in NewPages' <=> y \in NewPages)
    /\ \A y \in Pages \ own : pool'[y] = pool[y]
    /\ \A c \in Consumers :
          cons[c].pc \in {"advance", "free_external", "zero", "memset", "free_page"} =>
              PageOf(cons[c].control) \notin own
    /\ \A b \in Block : PageOf(b) \in own /\ PageOf(b) \notin NewPages' => m_next'[b] = Zero
    /\ \A b \in Block : PageOf(b) \in own => m_next'[b].to = NoBlock
    /\ \A q \in Producers \ {p} :
          /\ Creates(q) => prod[q].new_page \notin own
          /\ prod[q].pc \in {"create_page", "link_page", "discard_page", "advance_tail"} =>
                PageOf(prod[q].tail) \notin own

EndPinsOfOthers(p) ==
    \A q \in Producers \ {p}, y \in Pages :
        <<q, "end_block">> \in pinners[y] => <<q, "end_block">> \in pinners'[y]

\* What the step of p leaves to the others.
OthersKept(rank, p) ==
    /\ LeftBehind /\ ConsumersPlaced
    /\ \A q \in Producers \ {p} :
          NewPageBlank(q) /\ ReservationOK(q) /\ PutterOwns(q) /\ PutOK(rank, q)
    /\ \A c \in Consumers : TakerOwns(c)

\* What is live depends on the pages and the head only.
LEMMA PlaceKept ==
    ASSUME LinkedPages' = LinkedPages, First' = First
    PROVE  /\ \A b : Live(b)' <=> Live(b)
           /\ \A b : Inner(b)' <=> Inner(b)
<1>1. \A b : Live(b)' <=> Live(b)
  BY DEF Live
<1> QED
  BY <1>1 DEF Inner

\* The other threads see nothing of such a step.
LEMMA ProducerKeepsOthers ==
    ASSUME NEW rank, IInv, Ordered(rank), UNCHANGED <<m_head, cons, m_initial_page>>,
           LinkedPages' = LinkedPages, First' = First,
           NEW p \in Producers, \A q \in Producers \ {p} : prod'[q] = prod[q],
           NEW own, ProducerWrites(p, own), OwnPages(p, own)
    PROVE  /\ OthersKept(rank, p)'
           /\ \A x : InBlock(x) => InBlock(x)'
           /\ \A x : BeingWiped(x)' <=> BeingWiped(x)
<1>1. /\ \A b : Live(b)' <=> Live(b)
      /\ \A b : Inner(b)' <=> Inner(b)
      /\ \A b : Inner(b) => Live(b) /\ b \in Block /\ PageOf(b) \notin own
      /\ \A b : Live(b) => b \in Block /\ PageOf(b) \notin own
  BY PlaceKept DEF Inner, Live, OwnPages
<1>2. cons' = cons /\ First' = First /\ \A q \in Producers \ {p} : prod'[q] = prod[q]
  OBVIOUS
<1>3. /\ \A c \in Consumers : Passed(c)' <=> Passed(c)
      /\ \A c \in Consumers : Takes(c)' <=> Takes(c)
      /\ \A c \in Consumers : Wipes(c)' <=> Wipes(c)
      /\ \A c \in Consumers : TakenWord(c)' = TakenWord(c)
  BY DEF Passed, Takes, Wipes, At, TakenWord
<1>4. \A b \in Block : ~Live(b) /\ PageOf(b) \notin own => m_next'[b] = m_next[b]
  BY <1>1 DEF ProducerWrites
<1>5. LeftBehind'
  <2> SUFFICES ASSUME NEW b \in Block, ~Live(b), PageOf(b) \notin NewPages', m_next'[b] # Zero
               PROVE  \E c \in Consumers : Passed(c) /\ cons[c].control = b
    BY <1>1, <1>2, <1>3 DEF LeftBehind
  <2>1. PageOf(b) \notin own /\ PageOf(b) \notin NewPages
    BY DEF OwnPages
  <2> QED
    BY <1>4, <2>1 DEF Ordered, LeftBehind
<1>6. ConsumersPlaced'
  <2>1. ASSUME NEW c \in Consumers PROVE ConsumerPlaced(c)'
    <3>1. ConsumerPlaced(c) /\ ConsumerOK(c)
      BY Typed DEF Ordered, ConsumersPlaced
    <3>2. cons[c].pc \in {"advance", "free_external", "zero", "memset", "free_page"} =>
             /\ PageOf(cons[c].control) \notin NewPages'
             /\ PageOf(cons[c].control) \notin own
             /\ cons[c].control \in Block
      BY <3>1 DEF ConsumerPlaced, OwnPages, ConsumerOK
    <3>3. cons[c].pc = "advance" /\ Live(cons[c].control) => m_next'[cons[c].control] = m_next[cons[c].control]
      BY <3>1, <3>2 DEF ConsumerPlaced, ProducerWrites
    <3>4. Passed(c) => m_next'[cons[c].control] = m_next[cons[c].control]
      BY <1>4, <3>1, <3>2 DEF ConsumerPlaced, Passed
    <3> QED
      BY <1>1, <1>2, <1>3, <3>1, <3>2, <3>3, <3>4 DEF ConsumerPlaced
  <2> QED
    BY <1>2, <1>3, <2>1 DEF Ordered, ConsumersPlaced
<1>7. ASSUME NEW q \in Producers \ {p}
      PROVE  NewPageBlank(q)' /\ ReservationOK(q)' /\ PutterOwns(q)' /\ PutOK(rank, q)'
  <2>1. prod'[q] = prod[q]
    OBVIOUS
  <2>2. NewPageBlank(q)'
    <3>1. Creates(q) => prod[q].new_page \in NewPages /\ prod[q].new_page \in Pages \ own
      BY Typed DEF NewPages, Creates, OwnPages, ProducerOK
    <3>2. Creates(q) => prod[q].new_page \notin LinkedPages
      BY <3>1 DEF LinkedPages
    <3>3. Creates(q) => \A b \in Block : PageOf(b) = prod[q].new_page => m_next'[b] = m_next[b]
      BY <1>4, <3>1, <3>2 DEF Live
    <3> QED
      BY <2>1, <3>1, <3>3 DEF Ordered, NewPagesBlank, NewPageBlank, Creates, OwnPages
  <2>3. ReservationOK(q)'
    BY <1>1, <2>1 DEF Ordered, ReservationsOK, ReservationOK, Stores, ProducerWrites
  <2>4. PutterOwns(q)'
    BY <1>1, <2>1 DEF Ordered, OwnersOK, PutterOwns, Putting, ProducerWrites
  <2>5. PutOK(rank, q)'
    <3>1. PutOK(rank, q)
      BY DEF Ordered, PutsOK
    <3>2. prod[q].pc = "fill" => m_next'[prod[q].tail] = m_next[prod[q].tail]
      <4> SUFFICES ASSUME prod[q].pc = "fill" PROVE m_next'[prod[q].tail] = m_next[prod[q].tail]
        OBVIOUS
      <4>1. Putting(q) /\ Inner(prod[q].tail) /\ (prod[q].tail # prod[q].control => IsDead(m_next[prod[q].tail]))
        BY <3>1 DEF PutOK
      <4> QED
        BY <1>1, <4>1 DEF ProducerWrites
    <3> QED
      BY <1>1, <2>1, <3>1, <3>2 DEF PutOK, Putting, Before
  <2> QED
    BY <2>2, <2>3, <2>4, <2>5
<1>8. ASSUME NEW c \in Consumers PROVE TakerOwns(c)'
  <2>1. TakerOwns(c)
    BY DEF Ordered, OwnersOK
  <2> QED
    BY <1>1, <1>2, <1>3, <2>1 DEF TakerOwns, ProducerWrites
<1>9. ASSUME NEW x, InBlock(x) PROVE InBlock(x)'
  <2>1. PICK b \in Block : Inner(b) /\ Between(b, x, m_next[b].to)
    BY <1>9 DEF InBlock
  <2>2. m_next[b].to # NoBlock
    BY <2>1, Spots, BaseAssumption DEF Between, SamePage, NoBlock, PageOf
  <2>3. m_next'[b].to = m_next[b].to
    BY <1>1, <2>1, <2>2 DEF ProducerWrites
  <2> QED
    BY <1>1, <2>1, <2>3 DEF InBlock, Between
<1>10. \A x : BeingWiped(x)' <=> BeingWiped(x)
  BY <1>2, <1>3 DEF BeingWiped, Between
<1> QED
  BY <1>5, <1>6, <1>7, <1>8, <1>9, <1>10 DEF OthersKept

\* What is left to show of a step of p that keeps the tail as well.
LEMMA ProducerKeepsOrder ==
    ASSUME NEW rank, IInv, Ordered(rank), UNCHANGED <<m_head, cons, m_initial_page>>, Kept, SpansKept,
           NEW p \in Producers, \A q \in Producers \ {p} : prod'[q] = prod[q],
           NEW own, ProducerWrites(p, own), OwnPages(p, own), EndPinsOfOthers(p),
           AdvancesTail(p) => AdvancesTail(p)',
           NewPageBlank(p)',
           Creates(p)' => \/ prod'[p].new_page \in own
                          \/ Creates(p) /\ prod'[p].new_page = prod[p].new_page,
           ReservationOK(p)', Stores(p)' => Stores(p) /\ prod'[p].tail = prod[p].tail,
           PutterOwns(p)',
           Putting(p)' => \/ Putting(p) /\ prod'[p].control = prod[p].control
                          \/ /\ \A q \in Producers \ {p} : Putting(q) => prod[q].control # prod'[p].control
                             /\ \A c \in Consumers : Takes(c) => cons[c].control # prod'[p].control,
           PutOK(rank, p)', CreationPlaced(p)', ContentsWiped', ElementsOK'
    PROVE  Ordered(rank)'
<1>1. OthersKept(rank, p)'
  BY ProducerKeepsOthers DEF Kept
<1>2. /\ \A b : Inner(b)' <=> Inner(b)
      /\ \A b : Inner(b) => Live(b) /\ b \in Block
      /\ \A q \in Producers \ {p} : prod'[q] = prod[q]
      /\ cons' = cons /\ m_tail' = m_tail /\ m_initial_page' = m_initial_page
  BY LiveKept DEF Inner, Live, Kept
<1>3. EndsKept
  BY EndsLive, Spots DEF ProducerWrites, OwnPages, EndsKept
<1>4. \A x : Open(x)' <=> Open(x)
  BY <1>3, OpenKept
<1>5. PagesOrdered(rank)' /\ HeadPlace' /\ TailPlace' /\ BlocksApart'
  <2>1. \A b \in Block : Inner(b) /\ IsEnd(m_next'[b]) => m_next'[b] = Zero
    <3>1. \A b \in Block : Inner(b) /\ IsEnd(m_next[b]) => m_next[b] = Zero
      BY DEF Ordered, BlocksApart
    <3>2. \A b \in Block : Inner(b) => PageOf(b) \notin own
      BY DEF Inner, Live, OwnPages
    <3> QED
      BY <3>1, <3>2 DEF ProducerWrites, IsEnd
  <2>2. \A q \in Producers : AdvancesTail(q) => AdvancesTail(q)'
    BY <1>2 DEF AdvancesTail, PAt
  <2>3. m_tail \in Block /\ m_tail[2] = EndSlot => m_next'[m_tail].to \in {m_next[m_tail].to, NoBlock}
    BY Spots DEF ProducerWrites, OwnPages, Inner
  <2> QED
    BY <1>3, <2>1, <2>2, <2>3, Typed, LayoutKept DEF Ordered
<1>6. NewPagesBlank'
  <2>1. \A q \in Producers \ {p} : /\ Creates(q)' <=> Creates(q)
                                   /\ Creates(q) => prod[q].new_page \notin own
                                   /\ NewPageBlank(q)'
    BY <1>1, <1>2 DEF Creates, OwnPages, OthersKept
  <2>2. \A q \in Producers \ {p} : Creates(q) /\ Creates(p)' => prod[q].new_page # prod'[p].new_page
    BY <2>1 DEF Ordered, NewPagesBlank
  <2>3. \A q, r \in Producers : Creates(q)' /\ Creates(r)' /\ q # r => prod'[q].new_page # prod'[r].new_page
    <3>1. \A q, r \in Producers : Creates(q) /\ Creates(r) /\ q # r => prod[q].new_page # prod[r].new_page
      BY DEF Ordered, NewPagesBlank
    <3> QED
      BY <1>2, <2>1, <2>2, <3>1
  <2> QED
    BY <2>1, <2>3 DEF NewPagesBlank
<1>7. ReservationsOK'
  <2>1. \A q \in Producers : Stores(q)' => Stores(q) /\ prod'[q].tail = prod[q].tail
    BY <1>2 DEF Stores
  <2>2. \A q \in Producers : ReservationOK(q)'
    BY <1>1 DEF OthersKept
  <2> QED
    BY <2>1, <2>2 DEF Ordered, ReservationsOK
<1>8. OwnersOK'
  <2>1. /\ \A q \in Producers : PutterOwns(q)'
        /\ \A c \in Consumers : TakerOwns(c)'
    BY <1>1 DEF OthersKept
  <2>2. /\ \A q \in Producers \ {p} : Putting(q)' <=> Putting(q)
        /\ \A c \in Consumers : Takes(c)' <=> Takes(c)
    BY <1>2 DEF Putting, Takes, At
  <2>3. \A q \in Producers \ {p} : Putting(q) /\ Putting(p)' => prod[q].control # prod'[p].control
    BY DEF Ordered, OwnersOK
  <2>4. \A c \in Consumers : Putting(p)' /\ Takes(c) => cons[c].control # prod'[p].control
    BY DEF Ordered, OwnersOK
  <2>5. \A q, r \in Producers : Putting(q)' /\ Putting(r)' /\ q # r => prod'[q].control # prod'[r].control
    <3>1. \A q, r \in Producers : Putting(q) /\ Putting(r) /\ q # r => prod[q].control # prod[r].control
      BY DEF Ordered, OwnersOK
    <3> QED
      BY <1>2, <2>2, <2>3, <3>1
  <2>6. \A q \in Producers, c \in Consumers : Putting(q)' /\ Takes(c)' => prod'[q].control # cons'[c].control
    <3>1. \A q \in Producers, c \in Consumers : Putting(q) /\ Takes(c) => prod[q].control # cons[c].control
      BY DEF Ordered, OwnersOK
    <3> QED
      BY <1>2, <2>2, <2>4, <3>1
  <2> QED
    BY <1>2, <2>1, <2>2, <2>5, <2>6 DEF Ordered, OwnersOK
<1>9. PutsOK(rank)'
  BY <1>1 DEF OthersKept, PutsOK
<1>10. CreationOK'
  <2>1. ASSUME NEW q \in Producers \ {p} PROVE CreationPlaced(q)'
    <3>1. CreationPlaced(q) /\ prod'[q] = prod[q] /\ prod[q].pinned \in Pages \cup {NoPage}
      BY Typed DEF Ordered, CreationOK, Producer
    <3>2. prod[q].pc \in {"create_page", "link_page", "discard_page", "advance_tail"} =>
             PageOf(prod[q].tail) \notin NewPages'
      BY <3>1 DEF CreationPlaced, OwnPages
    <3> QED
      BY <1>2, <1>4, <3>1, <3>2 DEF CreationPlaced, EndPinsOfOthers
  <2> QED
    BY <2>1 DEF CreationOK
<1> QED
  BY <1>1, <1>5, <1>6, <1>7, <1>8, <1>9, <1>10 DEF Ordered, OthersKept

\* The elements are where they were.
LEMMA ElementsKept ==
    ASSUME IInv, NEW rank, Ordered(rank), UNCHANGED <<content, status, cons>>,
           NEW p \in Producers, \A q \in Producers \ {p} : prod'[q] = prod[q],
           PutElementOK(p)', \A b \in Block : ReadyBlock(b)' => ReadyBlock(b),
           \A x : InBlock(x) => InBlock(x)', \A x : BeingWiped(x)' <=> BeingWiped(x)
    PROVE  ElementsOK' /\ ContentsWiped'
<1>1. ASSUME NEW q \in Producers PROVE PutElementOK(q)'
  <2>1. PutElementOK(q) /\ (q # p => prod'[q] = prod[q])
    BY DEF Ordered, ElementsOK
  <2> QED
    BY <2>1 DEF PutElementOK, Putting, Current, PAt
<1>2. \A b, s : Holds(b, s)' <=> Holds(b, s)
  BY DEF Holds, ElementOf
<1>3. \A c \in Consumers : Takes(c)' => Takes(c) /\ Holds(cons[c].control, "consuming")'
  BY <1>2 DEF Ordered, ElementsOK, Takes, At, Holds, ElementOf
<1>4. ElementsOK'
  BY <1>1, <1>2, <1>3 DEF Ordered, ElementsOK
<1>5. ContentsWiped'
  BY DEF Ordered, ContentsWiped
<1> QED
  BY <1>4, <1>5

\* A producer reads, pins or unpins, or gives up: it writes nothing.
Reserves(pc) == pc \in {"store", "store_pad"}
Created(pc) == pc \in {"link_page", "discard_page", "init_page", "discard_initial"}

\* A producer goes on without touching the memory of the queue.
LEMMA ProducerMoves ==
    ASSUME NEW rank, IInv, Ordered(rank), UNCHANGED <<m_head, cons, m_initial_page, m_tail>>,
           UNCHANGED <<m_next, content, pool, status>>,
           NEW p \in Producers, \A q \in Producers \ {p} : prod'[q] = prod[q],
           EndPinsOfOthers(p), AdvancesTail(p) => AdvancesTail(p)',
           ~Reserves(prod[p].pc), ~Reserves(prod'[p].pc),
           Created(prod'[p].pc) <=> Created(prod[p].pc),
           Created(prod[p].pc) => prod'[p].new_page = prod[p].new_page,
           prod'[p].control = prod[p].control, Putting(p) => prod'[p].next = prod[p].next,
           PutOK(rank, p)', CreationPlaced(p)', PutElementOK(p)'
    PROVE  Ordered(rank)'
<1>1. NewPages' = NewPages /\ LeftPages' = LeftPages
  <2>1. \A q \in Producers : /\ Created(prod'[q].pc) <=> Created(prod[q].pc)
                             /\ Created(prod[q].pc) => prod'[q].new_page = prod[q].new_page
    OBVIOUS
  <2>2. \A y : y \in NewPages' <=> y \in NewPages
    BY <2>1 DEF NewPages, Created
  <2>3. NewPages' = NewPages
    BY <2>2 DEF NewPages
  <2> QED
    BY <2>3 DEF LeftPages
<1>2. Kept
  BY <1>1 DEF Kept, LinkedPages, First
<1>3. ProducerWrites(p, {}) /\ OwnPages(p, {})
  BY <1>1 DEF ProducerWrites, OwnPages
<1>4. \A b : Inner(b)' <=> Inner(b)
  BY <1>2, LiveKept
<1>5. SpansKept
  <2>1. \A b : Reserving(b)' = Reserving(b)
    <3>1. \A b : \A q \in Producers : q \in Reserving(b)' <=> q \in Reserving(b)
      BY DEF Reserving, Reserves
    <3>2. \A b : Reserving(b) \subseteq Producers /\ Reserving(b)' \subseteq Producers
      BY DEF Reserving
    <3> QED
      BY <3>1, <3>2
  <2>2. \A b : \A q \in Reserving(b) : ReservedEnd(q)' = ReservedEnd(q)
    BY DEF Reserving, Reserves, ReservedEnd, PAt
  <2> QED
    BY <2>1, <2>2 DEF SpansKept, Spans
<1>6. /\ Stores(p)' => Stores(p) /\ prod'[p].tail = prod[p].tail
      /\ ReservationOK(p)'
      /\ Creates(p)' => Creates(p) /\ prod'[p].new_page = prod[p].new_page
  BY DEF Stores, ReservationOK, Reserves, Creates, Created
<1>7. NewPageBlank(p)'
  BY <1>6 DEF Ordered, NewPagesBlank, NewPageBlank
<1>8. PutterOwns(p)' /\ (Putting(p)' => Putting(p) /\ prod'[p].control = prod[p].control)
  BY <1>4 DEF Ordered, OwnersOK, PutterOwns, Putting
<1>9. ElementsOK' /\ ContentsWiped'
  <2>1. \A b \in Block : ReadyBlock(b)' => ReadyBlock(b)
    BY <1>4 DEF ReadyBlock
  <2>2. /\ \A x : InBlock(x) => InBlock(x)'
        /\ \A x : BeingWiped(x)' <=> BeingWiped(x)
    BY <1>2, <1>3, ProducerKeepsOthers DEF Kept
  <2> QED
    BY <2>1, <2>2, ElementsKept
<1> QED
  BY <1>2, <1>3, <1>5, <1>6, <1>7, <1>8, <1>9, ProducerKeepsOrder

\* A step inside an allocation, up to the reservation of a block.
LEMMA AllocationGoesOn ==
    ASSUME NEW rank, IInv, Ordered(rank), UNCHANGED <<m_head, cons, m_initial_page, m_tail>>,
           UNCHANGED <<m_next, content, pool, status>>,
           NEW p \in Producers, \A q \in Producers \ {p} : prod'[q] = prod[q],
           EndPinsOfOthers(p), AdvancesTail(p) => AdvancesTail(p)',
           ~Reserves(prod[p].pc), ~Reserves(prod'[p].pc),
           prod[p].pc \notin {"idle", "pending", "fill"}, prod'[p].pc \notin {"idle", "pending", "fill"},
           Created(prod'[p].pc) <=> Created(prod[p].pc),
           Created(prod[p].pc) => prod'[p].new_page = prod[p].new_page,
           prod'[p].control = prod[p].control, prod'[p].next = prod[p].next,
           prod'[p].flags = prod[p].flags, prod'[p].puts = prod[p].puts,
           CreationPlaced(p)'
    PROVE  Ordered(rank)'
<1>1. PutOK(rank, p)'
  BY DEF Ordered, PutsOK, PutOK, Putting, Reserves
<1>2. PutElementOK(p)'
  <2>1. PutElementOK(p)
    BY DEF Ordered, ElementsOK
  <2> QED
    BY <2>1 DEF PutElementOK, Putting, Current, PAt
<1> QED
  BY <1>1, <1>2, ProducerMoves

\* Starting an allocation, and giving up.
LEMMA StartsKeepOrder ==
    ASSUME NEW rank, IInv, Ordered(rank), UNCHANGED headVars, NEW p \in Producers,
           \/ \E size \in Sizes, g \in Guarantees : StartPut(p, size, g)
           \/ \E size \in Sizes : RawAllocate(p, size)
           \/ GiveUp(p)
    PROVE  Ordered(rank)'
<1>1. prod[p] \in Producer /\ ProducerOK(p) /\ prod \in [Producers -> Producer]
      /\ PutOK(rank, p) /\ CreationPlaced(p) /\ PutElementOK(p)
  BY Typed DEF IInv, TypeOK, TailTypeOK, Ordered, PutsOK, CreationOK, ElementsOK
<1>2. /\ UNCHANGED <<m_head, cons, m_initial_page, m_tail>>
      /\ UNCHANGED <<m_next, content, pool, status>>
      /\ EndPinsOfOthers(p)
  BY DEF headVars, StartPut, RawAllocate, GiveUp, EndPinsOfOthers
<1>3. CASE \E size \in Sizes, g \in Guarantees : StartPut(p, size, g)
  <2>1. PICK size \in Sizes, g \in Guarantees : StartPut(p, size, g)
    BY <1>3
  <2>2. prod[p].pc = "idle" /\ prod[p].puts < MaxPuts /\ prod[p].puts \in Nat /\ MaxPuts \in Nat
    <3>1. prod[p].puts \in 0 .. MaxPuts
      BY <1>1 DEF Producer
    <3>2. prod[p].pc = "idle" /\ prod[p].puts < MaxPuts
      BY <2>1 DEF StartPut, PAt
    <3> QED
      BY <3>1, <3>2, BaseAssumption
  <2> DEFINE f == IF External(size) THEN {"busy"} \cup {"external"} ELSE {"busy"}
             s == IF External(size) THEN 1 ELSE size
  <2>3. prod' = [prod EXCEPT ![p] = [[NewProducer EXCEPT !.puts = prod[p].puts + 1, !.guarantee = g]
                                       EXCEPT !.pc = "load_tail", !.size = s, !.flags = f]]
    BY <2>1 DEF StartPut, Allocate
  <2>8. "busy" \in f /\ "dead" \notin f
    OBVIOUS
  <2> HIDE DEF f, s
  <2>4. /\ prod'[p].pc = "load_tail" /\ prod'[p].puts = prod[p].puts + 1
        /\ prod'[p].flags = f /\ prod'[p].control = NoBlock /\ prod'[p].pinned = NoPage
        /\ \A q \in Producers \ {p} : prod'[q] = prod[q]
    BY <1>1, <2>3 DEF NewProducer
  <2>5. prod[p].control = NoBlock
    BY <1>1, <2>2 DEF PutOK, Putting
  <2>6. PutOK(rank, p)' /\ CreationPlaced(p)'
    BY <2>4, <2>8 DEF PutOK, Putting, CreationPlaced
  <2>7. PutElementOK(p)'
    <3>1. \A k \in 1 .. MaxPuts : k > prod[p].puts => status[<<p, k>>] = "none"
      BY <1>1 DEF PutElementOK
    <3>2. prod[p].puts + 1 \in 1 .. MaxPuts
      BY <2>2
    <3>3. status[<<p, prod[p].puts + 1>>] = "none"
      BY <2>2, <3>1, <3>2
    <3>4. \A k \in 1 .. MaxPuts : k > prod[p].puts + 1 => status[<<p, k>>] = "none"
      BY <2>2, <3>1
    <3> QED
      BY <1>2, <2>4, <3>3, <3>4 DEF PutElementOK, Putting, Current, PAt
  <2> QED
    BY <1>2, <2>2, <2>4, <2>5, <2>6, <2>7, ProducerMoves DEF Reserves, Created, Putting, AdvancesTail, PAt
<1>4. CASE \E size \in Sizes : RawAllocate(p, size)
  <2>1. PICK size \in Sizes : RawAllocate(p, size)
    BY <1>4
  <2>2. prod[p].pc = "pending"
    BY <2>1 DEF RawAllocate, PAt
  <2> DEFINE f == IF External(size) THEN {"dead"} \cup {"external"} ELSE {"dead"}
             s == IF External(size) THEN 1 ELSE size
  <2>3. prod' = [prod EXCEPT ![p] = [[prod[p] EXCEPT !.raws = prod[p].raws + 1]
                                       EXCEPT !.pc = "load_tail", !.size = s, !.flags = f]]
    BY <2>1 DEF RawAllocate, Allocate
  <2>8. "dead" \in f /\ "busy" \notin f
    OBVIOUS
  <2> HIDE DEF f, s
  <2>4. /\ prod'[p].pc = "load_tail" /\ prod'[p].puts = prod[p].puts
        /\ prod'[p].flags = f /\ prod'[p].control = prod[p].control /\ prod'[p].pinned = prod[p].pinned
        /\ prod'[p].next = prod[p].next
        /\ \A q \in Producers \ {p} : prod'[q] = prod[q]
    BY <1>1, <2>3 DEF Producer
  <2>5. pinners' = pinners
    BY <2>1 DEF RawAllocate
  <2>6. PutOK(rank, p)' /\ CreationPlaced(p)'
    BY <1>1, <2>2, <2>4, <2>5, <2>8 DEF PutOK, Putting, CreationPlaced
  <2>7. PutElementOK(p)'
    BY <1>1, <1>2, <2>2, <2>4 DEF PutElementOK, Putting, Current, PAt, PutOK
  <2> QED
    BY <1>2, <2>2, <2>4, <2>6, <2>7, ProducerMoves DEF Reserves, Created, Putting, AdvancesTail, PAt
<1>5. CASE GiveUp(p)
  <2>1. prod[p].pc = "give_up"
    BY <1>5 DEF GiveUp, PAt
  <2>2. /\ \A q \in Producers \ {p} : prod'[q] = prod[q]
        /\ prod'[p].pc = IF Putting(p) THEN "pending" ELSE "idle"
        /\ prod'[p].pinned = NoPage /\ prod'[p].puts = prod[p].puts
        /\ prod'[p].control = prod[p].control /\ (Putting(p) => prod'[p].next = prod[p].next)
    <3>1. CASE Putting(p)
      <4>1. prod' = [prod EXCEPT ![p] = Done(p, "pending")]
        BY <1>5, <3>1 DEF GiveUp, Fail, Putting
      <4> QED
        BY <1>1, <3>1, <4>1 DEF Done, Producer
    <3>2. CASE ~Putting(p)
      <4>1. prod' = [prod EXCEPT ![p] = [NewProducer EXCEPT !.puts = prod[p].puts]]
        BY <1>5, <3>2 DEF GiveUp, Fail, Putting
      <4> QED
        BY <1>1, <3>2, <4>1 DEF NewProducer, Producer, Putting
    <3> QED
      BY <3>1, <3>2
  <2>3. PutOK(rank, p)' /\ CreationPlaced(p)'
    BY <2>2 DEF PutOK, Putting, CreationPlaced
  <2>4. PutElementOK(p)'
    BY <1>1, <1>2, <2>1, <2>2 DEF PutElementOK, Putting, Current, PAt
  <2> QED
    BY <1>2, <2>1, <2>2, <2>3, <2>4, ProducerMoves DEF Reserves, Created, Putting, AdvancesTail, PAt
<1> QED
  BY <1>3, <1>4, <1>5

\* The allocation loop, with the end block of a page pinned or not.
LEMMA LoopKeepsOrder ==
    ASSUME NEW rank, IInv, Ordered(rank), UNCHANGED headVars, NEW p \in Producers,
           \/ LoadTail(p) \/ PinEnd(p) \/ CreatePageFails(p) \/ UnpinEnd(p) \/ UnpinFailed(p)
           \/ PAt(p, "try") /\ (\E b, k : Retry(p, b, k)) /\ UNCHANGED <<baseVars, m_tail, m_rest>>
           \/ PAt(p, "try") /\ PGoto(p, "give_up") /\ UNCHANGED <<baseVars, m_tail, m_rest>>
    PROVE  Ordered(rank)'
<1>1. prod[p] \in Producer /\ ProducerOK(p) /\ prod \in [Producers -> Producer] /\ CreationPlaced(p)
  BY Typed DEF IInv, TypeOK, TailTypeOK, Ordered, CreationOK
<1>2. /\ UNCHANGED <<m_head, cons, m_initial_page, m_tail>>
      /\ UNCHANGED <<m_next, content, pool, status>>
  BY DEF headVars, baseVars, LoadTail, PinEnd, CreatePageFails, UnpinEnd, UnpinFailed
<1>3. EndPinsOfOthers(p)
  BY BaseAssumption DEF IInv, TypeOK, BaseTypeOK, EndPinsOfOthers, Pin, Unpin, LoadTail, PinEnd,
     CreatePageFails, UnpinEnd, UnpinFailed, baseVars
<1>4. prod[p].pc \in {"load_tail", "try", "create_page", "unpin_end", "unpin_failed"}
  BY DEF LoadTail, PinEnd, CreatePageFails, Creating, UnpinEnd, UnpinFailed, PAt
<1>5. /\ \A q \in Producers \ {p} : prod'[q] = prod[q]
      /\ prod'[p].pc \in {"try", "recheck", "give_up", "unpin_failed"}
      /\ prod'[p].control = prod[p].control /\ prod'[p].next = prod[p].next
      /\ prod'[p].flags = prod[p].flags /\ prod'[p].puts = prod[p].puts
  <2>1. CASE LoadTail(p) \/ (PAt(p, "try") /\ \E b, k : Retry(p, b, k))
    <3>1. PICK b, k : Retry(p, b, k)
      BY <2>1 DEF LoadTail
    <3> QED
      BY <1>1, <3>1 DEF Retry, Producer
  <2>2. CASE PinEnd(p)
    BY <1>1, <2>2 DEF PinEnd, Producer
  <2>3. CASE CreatePageFails(p) \/ PGoto(p, "give_up")
    BY <1>1, <2>3 DEF CreatePageFails, PGoto, Producer
  <2>4. CASE UnpinEnd(p) \/ UnpinFailed(p)
    BY <1>1, <2>4 DEF UnpinEnd, UnpinFailed, Producer
  <2> QED
    BY <2>1, <2>2, <2>3, <2>4
<1>6. CreationPlaced(p)'
  <2>1. CASE PinEnd(p)
    <3>1. prod[p].tail \in Block /\ prod[p].tail[2] = EndSlot
      BY <1>1, <2>1 DEF PinEnd, PAt, AtEnd, ProducerOK
    <3>2. /\ prod'[p].pc = "recheck" /\ prod'[p].pinned = PageOf(prod[p].tail)
          /\ prod'[p].tail = prod[p].tail
      BY <1>1, <2>1 DEF PinEnd, Producer
    <3>3. <<p, "end_block">> \in pinners'[PageOf(prod[p].tail)]
      BY <2>1, <3>1, Spots DEF PinEnd, Pin, IInv, TypeOK, BaseTypeOK
    <3> QED
      BY <3>1, <3>2, <3>3 DEF CreationPlaced
  <2>2. CASE UnpinEnd(p) \/ UnpinFailed(p)
    <3>1. prod'[p].pc \in {"try", "give_up"} /\ prod'[p].pinned = NoPage
      BY <1>1, <2>2 DEF UnpinEnd, UnpinFailed, Producer
    <3> QED
      BY <3>1 DEF CreationPlaced
  <2>3. CASE ~PinEnd(p) /\ ~UnpinEnd(p) /\ ~UnpinFailed(p)
    <3>1. pinners' = pinners
      BY <2>3 DEF LoadTail, CreatePageFails, baseVars
    <3>2. prod'[p].pc \in {"try", "give_up", "unpin_failed"} /\ prod'[p].pinned = prod[p].pinned
      <4>1. CASE LoadTail(p) \/ (PAt(p, "try") /\ \E b, k : Retry(p, b, k))
        <5>1. PICK b, k : Retry(p, b, k)
          BY <4>1 DEF LoadTail
        <5> QED
          BY <1>1, <5>1 DEF Retry, Producer
      <4>2. CASE CreatePageFails(p) \/ PGoto(p, "give_up")
        BY <1>1, <4>2 DEF CreatePageFails, PGoto, Producer
      <4> QED
        BY <2>3, <4>1, <4>2
    <3> QED
      BY <1>1, <3>1, <3>2 DEF CreationPlaced
  <2> QED
    BY <2>1, <2>2, <2>3
<1> QED
  BY <1>2, <1>3, <1>4, <1>5, <1>6, AllocationGoesOn DEF Reserves, Created, AdvancesTail, PAt

\* The pages that are not linked yet are those of the producers between their
\* creation and the CAS that links them.
LEMMA NewPagesKept ==
    ASSUME NEW p \in Producers, \A q \in Producers \ {p} : prod'[q] = prod[q],
           Created(prod'[p].pc) <=> Created(prod[p].pc),
           Created(prod[p].pc) => prod'[p].new_page = prod[p].new_page
    PROVE  NewPages' = NewPages
<1>1. \A q \in Producers : /\ Created(prod'[q].pc) <=> Created(prod[q].pc)
                           /\ Created(prod[q].pc) => prod'[q].new_page = prod[q].new_page
  OBVIOUS
<1>2. \A y : y \in NewPages' <=> y \in NewPages
  BY <1>1 DEF NewPages, Created
<1> QED
  BY <1>2 DEF NewPages

\* The page of the tail is not a new one, even when the consumers have left it.
LEMMA TailPageOld ==
    ASSUME NEW rank, Ordered(rank), m_tail # InvalidBlock
    PROVE  PageOf(m_tail) \notin NewPages
<1>1. CASE Open(PageOf(m_tail))
  BY <1>1 DEF Open, LinkedPages
<1>2. ASSUME NEW p \in Producers, AdvancesTail(p)
      PROVE  PageOf(m_tail) \notin NewPages
  <2>1. CreationPlaced(p)
    BY DEF Ordered, CreationOK
  <2> QED
    BY <1>2, <2>1 DEF AdvancesTail, PAt, CreationPlaced
<1> QED
  BY <1>1, <1>2 DEF Ordered, TailPlace

\* get_or_allocate_next_page and create_initial_page, when p finds that another
\* producer has been faster.
LEMMA OvertakenKeepsOrder ==
    ASSUME NEW rank, IInv, Ordered(rank), UNCHANGED headVars, m_rest = 0, NEW p \in Producers,
           \/ RecheckTail(p)
           \/ LinkPage(p) /\ m_next[prod[p].tail] # InvalidNextPage
           \/ AdvanceTail(p) /\ m_tail # prod[p].tail
           \/ InitPage(p) /\ m_initial_page # NoPage
           \/ InitTail(p) /\ m_tail # InvalidBlock
    PROVE  Ordered(rank)'
<1>1. prod[p] \in Producer /\ ProducerOK(p) /\ prod \in [Producers -> Producer] /\ CreationPlaced(p)
  BY Typed DEF IInv, TypeOK, TailTypeOK, Ordered, CreationOK
<1>2. /\ UNCHANGED <<m_head, cons, m_initial_page, m_tail>>
      /\ UNCHANGED <<m_next, content, pool, status>>
      /\ pinners' = pinners
  BY DEF headVars, baseVars, RecheckTail, LinkPage, AdvanceTail, InitPage, InitTail, TailIs
<1>3. EndPinsOfOthers(p)
  BY <1>2 DEF EndPinsOfOthers
<1>4. CASE RecheckTail(p)
  <2>1. prod[p].pc = "recheck" /\ prod[p].tail \in Block
    BY <1>1, <1>4 DEF RecheckTail, PAt, CreationPlaced
  <2>2. /\ \A q \in Producers \ {p} : prod'[q] = prod[q]
        /\ \/ prod'[p].pc = "create_page" /\ prod[p].tail = m_tail /\ prod'[p].tail = prod[p].tail
           \/ prod'[p].pc = "unpin_end"
        /\ prod'[p].control = prod[p].control /\ prod'[p].next = prod[p].next
        /\ prod'[p].flags = prod[p].flags /\ prod'[p].puts = prod[p].puts
        /\ prod'[p].pinned = prod[p].pinned
    BY <1>1, <1>4 DEF RecheckTail, PGoto, TailIs, Producer
  <2>3. NewPages' = NewPages
    BY <2>1, <2>2, NewPagesKept DEF Created
  <2>4. prod[p].tail = m_tail => PageOf(m_tail) \notin NewPages
    BY <2>1, TailPageOld, Addresses
  <2>5. CreationPlaced(p)'
    BY <1>1, <1>2, <2>1, <2>2, <2>3, <2>4 DEF CreationPlaced
  <2> QED
    BY <1>2, <1>3, <2>1, <2>2, <2>5, AllocationGoesOn DEF Reserves, Created, AdvancesTail, PAt
<1>5. CASE LinkPage(p) /\ m_next[prod[p].tail] # InvalidNextPage
  <2>1. prod[p].pc = "link_page" /\ prod[p].tail \in Block /\ prod[p].tail[2] = EndSlot
    BY <1>1, <1>5 DEF LinkPage, PAt, CreationPlaced
  <2>2. /\ \A q \in Producers \ {p} : prod'[q] = prod[q]
        /\ prod'[p].pc = "discard_page" /\ prod'[p].found = m_next[prod[p].tail].to
        /\ prod'[p].control = prod[p].control /\ prod'[p].next = prod[p].next
        /\ prod'[p].flags = prod[p].flags /\ prod'[p].puts = prod[p].puts
        /\ prod'[p].pinned = prod[p].pinned /\ prod'[p].tail = prod[p].tail
        /\ prod'[p].new_page = prod[p].new_page
    BY <1>1, <1>5 DEF LinkPage, Producer
  <2>3. NewPages' = NewPages /\ \A x : Open(x)' <=> Open(x)
    <3>1. NewPages' = NewPages
      BY <2>1, <2>2, NewPagesKept DEF Created
    <3> QED
      BY <1>2, <3>1 DEF Open, LinkedPages, LeftPages, headVars
  <2>4. prod[p].tail = m_tail /\ m_next[m_tail].to # NoBlock =>
           Open(PageOf(m_next[m_tail].to)) /\ PageOf(m_next[m_tail].to) # PageOf(m_tail)
    <3> SUFFICES ASSUME prod[p].tail = m_tail, m_next[m_tail].to # NoBlock
                 PROVE  Open(PageOf(m_next[m_tail].to)) /\ PageOf(m_next[m_tail].to) # PageOf(m_tail)
      OBVIOUS
    <3>1. m_tail # InvalidBlock /\ m_tail = End(PageOf(m_tail))
      BY <2>1, Addresses, Spots
    <3>2. ~Open(PageOf(m_tail))
      BY <1>5, <3>1 DEF Open
    <3> QED
      BY <3>1, <3>2 DEF Ordered, TailPlace
  <2>5. CreationPlaced(p)'
    <3>1. /\ prod[p].pinned = PageOf(prod[p].tail) /\ PageOf(prod[p].tail) \notin NewPages
          /\ Open(PageOf(prod[p].tail)) => m_tail = prod[p].tail
          /\ prod[p].pinned # NoPage => <<p, "end_block">> \in pinners[prod[p].pinned]
      BY <1>1, <2>1 DEF CreationPlaced
    <3> QED
      BY <1>2, <2>1, <2>2, <2>3, <2>4, <3>1 DEF CreationPlaced
  <2> QED
    BY <1>2, <1>3, <2>1, <2>2, <2>5, AllocationGoesOn DEF Reserves, Created, AdvancesTail, PAt
<1>6. CASE AdvanceTail(p) /\ m_tail # prod[p].tail
  <2>1. /\ \A q \in Producers \ {p} : prod'[q] = prod[q]
        /\ prod[p].pc = "advance_tail" /\ prod'[p].pc = "unpin_end"
        /\ prod'[p].control = prod[p].control /\ prod'[p].next = prod[p].next
        /\ prod'[p].flags = prod[p].flags /\ prod'[p].puts = prod[p].puts
        /\ prod'[p].pinned = prod[p].pinned
    BY <1>1, <1>6 DEF AdvanceTail, PAt, Producer
  <2>2. CreationPlaced(p)'
    BY <1>1, <1>2, <2>1 DEF CreationPlaced
  <2> QED
    BY <1>2, <1>3, <1>6, <2>1, <2>2, AllocationGoesOn DEF Reserves, Created, AdvancesTail, PAt
<1>7. CASE InitPage(p) /\ m_initial_page # NoPage
  <2>1. /\ \A q \in Producers \ {p} : prod'[q] = prod[q]
        /\ prod[p].pc = "init_page" /\ prod'[p].pc = "discard_initial"
        /\ prod'[p].control = prod[p].control /\ prod'[p].next = prod[p].next
        /\ prod'[p].flags = prod[p].flags /\ prod'[p].puts = prod[p].puts
        /\ prod'[p].pinned = prod[p].pinned /\ prod'[p].found = FirstBlock(m_initial_page)
        /\ prod'[p].new_page = prod[p].new_page
    BY <1>1, <1>7 DEF InitPage, PAt, Producer
  <2>2. CreationPlaced(p)'
    BY <1>1, <1>2, <2>1 DEF CreationPlaced
  <2> QED
    BY <1>2, <1>3, <2>1, <2>2, AllocationGoesOn DEF Reserves, Created, AdvancesTail, PAt
<1>8. CASE InitTail(p) /\ m_tail # InvalidBlock
  <2>1. /\ \A q \in Producers \ {p} : prod'[q] = prod[q]
        /\ prod[p].pc = "init_tail" /\ prod'[p].pc = "try"
        /\ prod'[p].control = prod[p].control /\ prod'[p].next = prod[p].next
        /\ prod'[p].flags = prod[p].flags /\ prod'[p].puts = prod[p].puts
        /\ prod'[p].pinned = prod[p].pinned
    BY <1>1, <1>8 DEF InitTail, PAt, Producer
  <2>2. CreationPlaced(p)'
    BY <1>1, <1>2, <2>1 DEF CreationPlaced
  <2> QED
    BY <1>2, <1>3, <2>1, <2>2, AllocationGoesOn DEF Reserves, Created, AdvancesTail, PAt
<1> QED
  BY <1>4, <1>5, <1>6, <1>7, <1>8

\* Only p is in no control word or reservation: the blocks extend as before.
LEMMA ReservationsStay ==
    ASSUME NEW p \in Producers, \A q \in Producers \ {p} : prod'[q] = prod[q],
           ~Reserves(prod[p].pc), ~Reserves(prod'[p].pc),
           \A b \in Block : Inner(b) => m_next'[b].to = m_next[b].to
    PROVE  SpansKept
<1>1. \A b : Reserving(b)' = Reserving(b)
  <2>1. \A b : \A q \in Producers : q \in Reserving(b)' <=> q \in Reserving(b)
    BY DEF Reserving, Reserves
  <2>2. \A b : Reserving(b) \subseteq Producers /\ Reserving(b)' \subseteq Producers
    BY DEF Reserving
  <2> QED
    BY <2>1, <2>2
<1>2. \A b : \A q \in Reserving(b) : ReservedEnd(q)' = ReservedEnd(q)
  BY DEF Reserving, Reserves, ReservedEnd, PAt
<1> QED
  BY <1>1, <1>2 DEF SpansKept, Spans

\* What the user fills is his block: no other block that has been written, and
\* none that holds a committed element.
LEMMA FillWrites ==
    ASSUME NEW rank, IInv, Ordered(rank), UNCHANGED headVars, NEW p \in Producers, Fill(p),
           NEW t, t = prod[p].tail, NEW e, e = NewTail(t, prod[p].size)
    PROVE  /\ prod[p].pc = "fill" /\ prod[p].size \in Nat /\ prod[p].size > 0
           /\ \A q \in Producers \ {p} : prod'[q] = prod[q]
           /\ prod'[p].pc = "pending" /\ prod'[p].pinned = NoPage /\ prod'[p].flags = {}
           /\ prod'[p].control = prod[p].control /\ prod'[p].next = prod[p].next
           /\ prod'[p].puts = prod[p].puts
           /\ Putting(p) /\ Inner(t) /\ m_next[t].to = e
           /\ t = prod[p].control => "dead" \notin prod[p].flags
           /\ t # prod[p].control => IsDead(m_next[t])
           /\ t \in Block /\ e \in Block
           /\ content'[t] = Allocating(p)
           /\ \A x \in Block : content'[x] = content[x] \/ Between(t, x, e)
           /\ \A x \in Block : Inner(x) /\ m_next[x].to \in Block /\ x # t => content'[x] = content[x]
           /\ \A c \in Consumers : Takes(c) =>
                 /\ Inner(cons[c].control) /\ m_next[cons[c].control].to \in Block
                 /\ ~IsDead(m_next[cons[c].control])
           /\ \A b \in Block : ReadyBlock(b) => content'[b] = content[b]
           /\ \A c \in Consumers : Takes(c) => content'[cons[c].control] = content[cons[c].control]
<1>1. prod[p] \in Producer /\ ProducerOK(p) /\ prod \in [Producers -> Producer]
      /\ PutOK(rank, p) /\ CreationPlaced(p) /\ PutterOwns(p) /\ PutElementOK(p)
  BY Typed DEF IInv, TypeOK, TailTypeOK, Ordered, PutsOK, CreationOK, OwnersOK, ElementsOK
<1>2. /\ UNCHANGED <<m_head, cons, m_initial_page, m_tail>>
      /\ UNCHANGED <<m_next, pool, status, pinners>>
  BY DEF headVars, Fill
<1>3. /\ prod[p].pc = "fill" /\ prod[p].size \in Nat /\ prod[p].size > 0
      /\ \A q \in Producers \ {p} : prod'[q] = prod[q]
      /\ prod'[p].pc = "pending" /\ prod'[p].pinned = NoPage /\ prod'[p].flags = {}
      /\ prod'[p].control = prod[p].control /\ prod'[p].next = prod[p].next
      /\ prod'[p].puts = prod[p].puts
  BY <1>1 DEF Fill, PAt, Done, Producer, ProducerOK
<1>6. /\ Putting(p) /\ Inner(t) /\ m_next[t].to = e
      /\ t = prod[p].control => "dead" \notin prod[p].flags
      /\ t # prod[p].control => IsDead(m_next[t])
  BY <1>1, <1>3 DEF PutOK
<1>7. "busy" \in m_next[t].flags \/ "dead" \in m_next[t].flags
  BY <1>1, <1>6 DEF PutterOwns, IsDead
<1>8. t \in Block /\ e \in Block /\ e = <<t[1], t[2] + prod[p].size>>
  <2>1. t \in Block
    BY <1>6 DEF Inner, Live
  <2>2. e \in Block
    BY <1>6, <1>7, <2>1 DEF IInv, WordsOK
  <2> QED
    BY <2>1, <2>2 DEF NewTail
<1>9. \A x \in Block :
         \/ content'[x] = content[x]
         \/ /\ SamePage(t, x) /\ t[2] <= x[2] /\ x[2] < e[2]
            /\ content'[x] = Allocating(p)
  <2> SUFFICES ASSUME NEW x \in Block, content'[x] # content[x]
               PROVE  /\ SamePage(t, x) /\ t[2] <= x[2] /\ x[2] < e[2]
                      /\ content'[x] = Allocating(p)
    OBVIOUS
  <2>1. /\ SamePage(x, t) /\ x[2] \in t[2] .. (t[2] + prod[p].size - 1)
        /\ content'[x] = Allocating(p)
    BY DEF Fill
  <2>2. e[2] = t[2] + prod[p].size /\ t[2] \in Nat /\ x[2] \in Nat
    BY <1>8, Spots
  <2> QED
    BY <1>3, <2>1, <2>2 DEF SamePage
<1>10. \A x \in Block : Inner(x) /\ m_next[x].to \in Block /\ x # t => content'[x] = content[x]
  <2> SUFFICES ASSUME NEW x \in Block, Inner(x), m_next[x].to \in Block, x # t, SamePage(t, x), t[2] <= x[2]
               PROVE  e[2] <= x[2]
    BY <1>8, <1>9, Spots
  <2>1. Spans(t, e) /\ Spans(x, m_next[x].to)
    BY <1>6 DEF Spans
  <2>2. BlockApart(t, e)
    BY <1>6, <1>8, <2>1 DEF Ordered, BlocksApart
  <2> QED
    BY <2>1, <2>2 DEF BlockApart
<1>11. content'[t] = Allocating(p)
  <2>1. t[2] \in t[2] .. (t[2] + prod[p].size - 1)
    BY <1>3, <1>8, Spots
  <2> QED
    BY <1>8, <2>1 DEF Fill, SamePage
<1>12. \A b : Inner(b) => b \in Block
  BY DEF Inner, Live
<1>13. \A c \in Consumers : Takes(c) =>
           Inner(cons[c].control) /\ m_next[cons[c].control].to \in Block /\ ~IsDead(m_next[cons[c].control])
  <2> SUFFICES ASSUME NEW c \in Consumers, Takes(c)
               PROVE  Inner(cons[c].control) /\ m_next[cons[c].control].to \in Block
                      /\ ~IsDead(m_next[cons[c].control])
    OBVIOUS
  <2>1. Inner(cons[c].control) /\ m_next[cons[c].control] = TakenWord(c)
    BY DEF Ordered, OwnersOK, TakerOwns
  <2>2. "busy" \in TakenWord(c).flags
    BY DEF TakenWord, NextWord
  <2> QED
    BY <1>12, <2>1, <2>2 DEF IsDead, IInv, WordsOK
<1>14. /\ \A b \in Block : ReadyBlock(b) => content'[b] = content[b]
       /\ \A c \in Consumers : Takes(c) => content'[cons[c].control] = content[cons[c].control]
  <2>1. \A b \in Block : ReadyBlock(b) => Inner(b) /\ m_next[b].to \in Block /\ b # t
    BY <1>7 DEF ReadyBlock
  <2>2. \A c \in Consumers : Takes(c) => cons[c].control # t
    BY <1>6, <1>13 DEF Ordered, OwnersOK
  <2> QED
    BY <1>10, <1>12, <1>13, <2>1, <2>2
<1>15. \A x \in Block : content'[x] = content[x] \/ Between(t, x, e)
  BY <1>8, <1>9 DEF Between, SamePage, PageOf
<1> QED
  BY <1>3, <1>6, <1>8, <1>10, <1>11, <1>13, <1>14, <1>15

\* The user fills a block: no slot of any other.
LEMMA FillKeepsOrder ==
    ASSUME NEW rank, IInv, Ordered(rank), UNCHANGED headVars, NEW p \in Producers, Fill(p)
    PROVE  Ordered(rank)'
<1>1. prod[p] \in Producer /\ ProducerOK(p) /\ prod \in [Producers -> Producer]
      /\ PutOK(rank, p) /\ CreationPlaced(p) /\ PutterOwns(p) /\ PutElementOK(p)
  BY Typed DEF IInv, TypeOK, TailTypeOK, Ordered, PutsOK, CreationOK, OwnersOK, ElementsOK
<1>2. /\ UNCHANGED <<m_head, cons, m_initial_page, m_tail>>
      /\ UNCHANGED <<m_next, pool, status, pinners>>
  BY DEF headVars, Fill
<1>3. PICK t, e : t = prod[p].tail /\ e = NewTail(t, prod[p].size)
  OBVIOUS
<1>4. /\ prod[p].pc = "fill"
      /\ \A q \in Producers \ {p} : prod'[q] = prod[q]
      /\ prod'[p].pc = "pending" /\ prod'[p].pinned = NoPage
      /\ prod'[p].control = prod[p].control /\ prod'[p].next = prod[p].next
      /\ prod'[p].puts = prod[p].puts
  BY <1>3, FillWrites
<1>5. /\ Putting(p) /\ Inner(t) /\ m_next[t].to = e
      /\ t = prod[p].control => "dead" \notin prod[p].flags
      /\ t # prod[p].control => IsDead(m_next[t])
      /\ t \in Block /\ e \in Block
  BY <1>3, FillWrites
<1>6. /\ content'[t] = Allocating(p)
      /\ \A x \in Block : content'[x] = content[x] \/ Between(t, x, e)
      /\ \A x \in Block : Inner(x) /\ m_next[x].to \in Block /\ x # t => content'[x] = content[x]
  BY <1>3, FillWrites
<1>7. /\ \A c \in Consumers : Takes(c) =>
            /\ Inner(cons[c].control) /\ m_next[cons[c].control].to \in Block
            /\ ~IsDead(m_next[cons[c].control])
      /\ \A b \in Block : ReadyBlock(b) => content'[b] = content[b]
      /\ \A c \in Consumers : Takes(c) => content'[cons[c].control] = content[cons[c].control]
  BY <1>3, FillWrites
<1>8. NewPages' = NewPages /\ LeftPages' = LeftPages
  <2>1. NewPages' = NewPages
    BY <1>4, NewPagesKept DEF Created
  <2> QED
    BY <1>2, <2>1 DEF LeftPages
<1>9. Kept
  BY <1>2, <1>8 DEF Kept, LinkedPages, First
<1>10. /\ \A b : Inner(b)' <=> Inner(b)
       /\ \A b : Inner(b) => b \in Block
  BY <1>9, LiveKept DEF Inner, Live
<1>11. SpansKept
  BY <1>2, <1>4, ReservationsStay DEF Reserves
<1>12. ProducerWrites(p, {}) /\ OwnPages(p, {}) /\ EndPinsOfOthers(p)
  BY <1>2, <1>8 DEF ProducerWrites, OwnPages, EndPinsOfOthers
<1>13. /\ ~Creates(p)' /\ ~Stores(p)' /\ ~AdvancesTail(p) /\ Putting(p)'
       /\ PutterOwns(p)' /\ PutOK(rank, p)' /\ CreationPlaced(p)'
  BY <1>1, <1>2, <1>4, <1>5, <1>10 DEF Creates, Stores, AdvancesTail, PAt, Putting, PutterOwns,
     PutOK, CreationPlaced
<1>14. ContentsWiped'
  <2>1. /\ \A x : InBlock(x) => InBlock(x)'
        /\ \A x : BeingWiped(x)' <=> BeingWiped(x)
    BY <1>2, <1>4, <1>9, <1>12, ProducerKeepsOthers DEF Kept
  <2>2. ASSUME NEW x \in Block, content'[x] # content[x] PROVE InBlock(x)
    BY <1>5, <1>6, <2>2 DEF InBlock
  <2> QED
    BY <2>1, <2>2 DEF Ordered, ContentsWiped
<1>15. \A q \in Producers : Putting(q) =>
           Inner(prod[q].control) /\ m_next[prod[q].control].to \in Block /\ ~IsDead(m_next[prod[q].control])
  BY <1>10 DEF Ordered, OwnersOK, PutterOwns, IsDead, IInv, WordsOK
<1>16. ASSUME NEW q \in Producers \ {p} PROVE PutElementOK(q)'
  <2>1. PutElementOK(q) /\ prod'[q] = prod[q]
    BY <1>4 DEF Ordered, ElementsOK
  <2>2. Putting(q) => prod[q].control # t
    BY <1>5, <1>15 DEF Ordered, OwnersOK
  <2>3. Putting(q) => content'[prod[q].control] = content[prod[q].control]
    BY <1>6, <1>10, <1>15, <2>2
  <2> QED
    BY <1>2, <2>1, <2>3 DEF PutElementOK, Putting, Current, PAt
<1>17. PutElementOK(p)'
  <2>1. content'[prod[p].control] = <<p, prod[p].puts, 0>>
    <3>1. CASE t = prod[p].control
      BY <1>5, <1>6, <3>1 DEF Allocating
    <3>2. CASE t # prod[p].control
      BY <1>1, <1>3, <1>5, <1>6, <1>10, <1>15, <3>2 DEF PutElementOK
    <3> QED
      BY <3>1, <3>2
  <2> QED
    BY <1>1, <1>2, <1>4, <1>5, <2>1 DEF PutElementOK, Putting, Current, PAt
<1>18. /\ \A b : ReadyBlock(b)' <=> ReadyBlock(b)
       /\ \A b \in Block : ReadyBlock(b) => content'[b] = content[b]
       /\ \A c \in Consumers : Takes(c)' <=> Takes(c)
       /\ \A c \in Consumers : Takes(c) => content'[cons[c].control] = content[cons[c].control]
  <2>1. \A b : ReadyBlock(b)' <=> ReadyBlock(b)
    BY <1>2, <1>10 DEF ReadyBlock
  <2>2. \A c \in Consumers : Takes(c)' <=> Takes(c)
    BY <1>2 DEF Takes, At
  <2> QED
    BY <1>7, <2>1, <2>2
<1>19. \A b \in Block, s \in Status : content'[b] = content[b] /\ Holds(b, s) => Holds(b, s)'
  BY <1>2 DEF Holds, ElementOf
<1>20. ElementsOK'
  <2>1. /\ \A b \in Block : ReadyBlock(b)' => Holds(b, "ready")'
        /\ \A c \in Consumers : Takes(c)' => Holds(cons[c].control, "consuming")'
    BY <1>2, <1>10, <1>7, <1>18, <1>19 DEF Ordered, ElementsOK, Status, Holds, ElementOf
  <2> QED
    BY <1>2, <1>16, <1>17, <1>18, <2>1 DEF Ordered, ElementsOK
<1> QED
  BY <1>2, <1>4, <1>5, <1>9, <1>11, <1>12, <1>13, <1>14, <1>20, ProducerKeepsOrder
     DEF NewPageBlank, ReservationOK

\* A transaction ends: its element can be consumed, or its block is dead.
LEMMA EndPutKeepsOrder ==
    ASSUME NEW rank, IInv, Ordered(rank), UNCHANGED headVars, NEW p \in Producers,
           CommitPut(p) \/ CancelPut(p)
    PROVE  Ordered(rank)'
<1>1. prod[p] \in Producer /\ ProducerOK(p) /\ prod \in [Producers -> Producer]
      /\ PutOK(rank, p) /\ PutterOwns(p) /\ PutElementOK(p) /\ status \in [Element -> Status]
  BY Typed DEF IInv, TypeOK, BaseTypeOK, TailTypeOK, Ordered, PutsOK, OwnersOK, ElementsOK
<1>2. PICK f, s : EndPut(p, f, s) /\ "busy" \notin f /\ ("dead" \notin f => s = "ready")
  <2>1. CASE CommitPut(p)
    BY <2>1 DEF CommitPut
  <2>2. CASE CancelPut(p)
    BY <2>2 DEF CancelPut
  <2> QED
    BY <2>1, <2>2
<1>3. /\ UNCHANGED <<m_head, cons, m_initial_page, m_tail>>
      /\ UNCHANGED <<content, pool, pinners>>
  BY <1>2 DEF headVars, EndPut
<1>4. PICK b : b = prod[p].control
  OBVIOUS
<1>5. /\ prod[p].pc = "pending" /\ prod[p].puts \in 1 .. MaxPuts
      /\ \A q \in Producers \ {p} : prod'[q] = prod[q]
      /\ prod'[p].pc = "idle" /\ prod'[p].pinned = NoPage
      /\ prod'[p].control = NoBlock /\ prod'[p].puts = prod[p].puts
  BY <1>1, <1>2 DEF EndPut, PAt, NewProducer, ProducerOK
<1>6. /\ Putting(p) /\ b \in Block /\ Inner(b) /\ ~IsDead(m_next[b])
      /\ m_next[b].to \in Block /\ "busy" \in m_next[b].flags
  <2>1. Putting(p)
    BY <1>1, <1>5 DEF PutOK
  <2> QED
    BY <1>1, <1>4, <2>1 DEF PutterOwns, Putting, ProducerOK, IsDead, Inner, Live
<1>7. m_next' = [m_next EXCEPT ![b] = NextWord(m_next[b].to, f)]
  BY <1>1, <1>2, <1>4, <1>6 DEF EndPut, PutterOwns
<1>8. \A x \in Block : m_next'[x] = IF x = b THEN NextWord(m_next[b].to, f) ELSE m_next[x]
  BY <1>7 DEF IInv, TypeOK, BaseTypeOK
<1>9. /\ Current(p) \in Element /\ Current(p) = <<p, prod[p].puts>>
      /\ status' = [status EXCEPT ![Current(p)] = s]
      /\ status[Current(p)] = "putting" /\ content[b] = <<p, prod[p].puts, 0>>
  BY <1>1, <1>2, <1>4, <1>5, <1>6 DEF Current, Element, EndPut, PutElementOK, PAt
<1>10. NewPages' = NewPages /\ LeftPages' = LeftPages
  <2>1. NewPages' = NewPages
    BY <1>5, NewPagesKept DEF Created
  <2> QED
    BY <1>3, <2>1 DEF LeftPages
<1>11. Kept
  BY <1>3, <1>10 DEF Kept, LinkedPages, First
<1>12. /\ \A x : Inner(x)' <=> Inner(x)
       /\ \A x : Inner(x) => x \in Block
  BY <1>11, LiveKept DEF Inner, Live
<1>13. SpansKept
  <2>1. \A x \in Block : m_next'[x].to = m_next[x].to
    BY <1>8 DEF NextWord
  <2> QED
    BY <1>5, <2>1, ReservationsStay DEF Reserves
<1>14. ProducerWrites(p, {})
  <2>1. \A q \in Producers : Stores(q) => prod[q].tail # b
    BY <1>6 DEF Ordered, ReservationsOK, ReservationOK, Zero
  <2>2. /\ \A q \in Producers \ {p} : Putting(q) => prod[q].control # b
        /\ \A c \in Consumers : Takes(c) => cons[c].control # b
    BY <1>4, <1>6 DEF Ordered, OwnersOK
  <2> QED
    BY <1>6, <1>8, <2>1, <2>2, Addresses DEF ProducerWrites, NextWord
<1>15. OwnPages(p, {}) /\ EndPinsOfOthers(p)
  BY <1>3, <1>10 DEF OwnPages, EndPinsOfOthers
<1>16. /\ ~Creates(p)' /\ ~Stores(p)' /\ ~AdvancesTail(p) /\ ~Putting(p)'
       /\ PutterOwns(p)' /\ PutOK(rank, p)' /\ CreationPlaced(p)'
  BY <1>5 DEF Creates, Stores, AdvancesTail, PAt, Putting, PutterOwns, PutOK, CreationPlaced
<1>17. ContentsWiped'
  <2>1. /\ \A x : InBlock(x) => InBlock(x)'
        /\ \A x : BeingWiped(x)' <=> BeingWiped(x)
    BY <1>3, <1>5, <1>11, <1>14, <1>15, ProducerKeepsOthers DEF Kept
  <2> QED
    BY <1>3, <2>1 DEF Ordered, ContentsWiped
<1>18. \A e : e # Current(p) => status'[e] = status[e]
  BY <1>1, <1>9
<1>19. ASSUME NEW q \in Producers PROVE PutElementOK(q)'
  <2>1. CASE q = p
    <3>1. \A k \in 1 .. MaxPuts : k > prod[p].puts => status'[<<p, k>>] = status[<<p, k>>]
      BY <1>5, <1>9, <1>18
    <3> QED
      BY <1>1, <1>5, <2>1, <3>1 DEF PutElementOK, Putting, PAt
  <2>2. CASE q # p
    <3>1. PutElementOK(q) /\ prod'[q] = prod[q] /\ content' = content
      BY <1>3, <1>5, <2>2 DEF Ordered, ElementsOK
    <3>2. /\ Current(q)' = Current(q) /\ status'[Current(q)] = status[Current(q)]
          /\ \A k : status'[<<q, k>>] = status[<<q, k>>]
      BY <1>9, <1>18, <2>2, <3>1 DEF Current
    <3> QED
      BY <3>1, <3>2 DEF PutElementOK, Putting, PAt
  <2> QED
    BY <2>1, <2>2
<1>20. \A x \in Block, t \in {"ready", "consuming"} : Holds(x, t) => Holds(x, t)' /\ content[x] # content[b]
  <2>1. ElementOf(content[b]) = Current(p)
    BY <1>9 DEF ElementOf
  <2>2. \A x \in Block, t \in {"ready", "consuming"} : Holds(x, t) => ElementOf(content[x]) # Current(p)
    BY <1>9 DEF Holds
  <2> QED
    BY <1>3, <1>18, <2>1, <2>2 DEF Holds, ElementOf
<1>21. \A x \in Block : ReadyBlock(x)' => Holds(x, "ready") \/ (x = b /\ s = "ready")
  <2> SUFFICES ASSUME NEW x \in Block, ReadyBlock(x)' PROVE Holds(x, "ready") \/ (x = b /\ s = "ready")
    OBVIOUS
  <2>1. CASE x = b
    <3>1. m_next'[b].flags = f
      BY <1>6, <1>8 DEF NextWord
    <3>2. "dead" \notin f
      BY <2>1, <3>1 DEF ReadyBlock
    <3> QED
      BY <1>2, <2>1, <3>2
  <2>2. CASE x # b
    <3>1. ReadyBlock(x)
      BY <1>8, <1>12, <2>2 DEF ReadyBlock
    <3> QED
      BY <3>1 DEF Ordered, ElementsOK
  <2> QED
    BY <2>1, <2>2
<1>22. s = "ready" => Holds(b, "ready")'
  <2>1. content[b] \in Item /\ content[b][3] = 0 /\ ElementOf(content[b]) = Current(p)
    BY <1>5, <1>9, ElementItems, BaseAssumption DEF Item, ElementOf
  <2>2. s = "ready" => status'[Current(p)] = "ready"
    BY <1>1, <1>9
  <2> QED
    BY <1>3, <2>1, <2>2 DEF Holds, ElementOf
<1>23. ElementsOK'
  <2>1. \A x \in Block : ReadyBlock(x)' => Holds(x, "ready")'
    BY <1>20, <1>21, <1>22
  <2>2. \A x, y \in Block : ReadyBlock(x)' /\ ReadyBlock(y)' /\ x # y => content'[x] # content'[y]
    <3>1. \A x \in Block : ReadyBlock(x)' => x = b \/ (ReadyBlock(x) /\ Holds(x, "ready"))
      BY <1>8, <1>12 DEF ReadyBlock, Ordered, ElementsOK
    <3> QED
      BY <1>3, <1>6, <1>20, <3>1 DEF Ordered, ElementsOK
  <2>3. \A c \in Consumers : Takes(c)' => Takes(c) /\ cons'[c] = cons[c]
    BY <1>3 DEF Takes, At
  <2>4. \A c \in Consumers : Takes(c) => cons[c].control \in Block
    BY <1>12 DEF Ordered, OwnersOK, TakerOwns
  <2>5. ASSUME NEW c \in Consumers, Takes(c)' PROVE Holds(cons[c].control, "consuming")'
    <3>1. PICK x \in Block : x = cons[c].control
      BY <2>3, <2>4, <2>5
    <3>2. Holds(x, "consuming") /\ cons'[c].control = x
      BY <2>3, <2>5, <3>1 DEF Ordered, ElementsOK
    <3>3. Holds(x, "consuming")'
      BY <1>20, <3>2
    <3> QED
      BY <3>2, <3>3
  <2>7. \A c, d \in Consumers : Takes(c)' /\ Takes(d)' /\ c # d => content'[cons'[c].control] # content'[cons'[d].control]
    BY <1>3, <2>3 DEF Ordered, ElementsOK
  <2> QED
    BY <1>19, <2>1, <2>2, <2>5, <2>7 DEF ElementsOK
<1> QED
  BY <1>3, <1>5, <1>11, <1>13, <1>14, <1>15, <1>16, <1>17, <1>23, ProducerKeepsOrder
     DEF NewPageBlank, ReservationOK

\* p gets a page of its own, or gives it back.
LEMMA OwnPageKeepsOrder ==
    ASSUME NEW rank, IInv, Ordered(rank), UNCHANGED <<m_head, cons, m_initial_page, m_tail>>,
           UNCHANGED <<content, status, pinners>>, LinkedPages' = LinkedPages,
           NEW p \in Producers, \A r \in Producers \ {p} : prod'[r] = prod[r],
           NEW q, OwnPages(p, {q}), \A b \in Block : PageOf(b) # q => m_next'[b] = m_next[b],
           ~Reserves(prod[p].pc), ~Reserves(prod'[p].pc),
           prod[p].pc \notin {"idle", "pending", "fill", "advance_tail"},
           prod'[p].pc \notin {"idle", "pending", "fill"},
           prod'[p].control = prod[p].control, prod'[p].next = prod[p].next,
           prod'[p].flags = prod[p].flags, prod'[p].puts = prod[p].puts,
           NewPageBlank(p)', Creates(p)' => prod'[p].new_page = q, CreationPlaced(p)'
    PROVE  Ordered(rank)'
<1>1. Kept
  BY DEF Kept, First
<1>2. /\ \A b : Inner(b)' <=> Inner(b)
      /\ \A b : Inner(b) => b \in Block /\ PageOf(b) # q
  BY <1>1, LiveKept DEF Inner, Live, OwnPages
<1>3. SpansKept
  BY <1>2, ReservationsStay
<1>4. ProducerWrites(p, {q}) /\ EndPinsOfOthers(p)
  BY DEF ProducerWrites, EndPinsOfOthers
<1>5. ~Stores(p)' /\ ~AdvancesTail(p) /\ ReservationOK(p)'
  BY DEF Stores, AdvancesTail, PAt, Reserves, ReservationOK
<1>6. /\ PutterOwns(p)'
      /\ Putting(p)' => Putting(p) /\ prod'[p].control = prod[p].control
  BY <1>2 DEF Ordered, OwnersOK, PutterOwns, Putting
<1>7. PutOK(rank, p)'
  BY DEF Ordered, PutsOK, PutOK, Putting, Reserves
<1>8. PutElementOK(p)'
  <2>1. PutElementOK(p)
    BY DEF Ordered, ElementsOK
  <2> QED
    BY <2>1 DEF PutElementOK, Putting, Current, PAt
<1>9. ElementsOK' /\ ContentsWiped'
  <2>1. /\ \A x : InBlock(x) => InBlock(x)'
        /\ \A x : BeingWiped(x)' <=> BeingWiped(x)
    BY <1>1, <1>4, ProducerKeepsOthers DEF Kept
  <2>2. \A b \in Block : ReadyBlock(b)' => ReadyBlock(b)
    BY <1>2 DEF ReadyBlock
  <2> QED
    BY <1>8, <2>1, <2>2, ElementsKept
<1> QED
  BY <1>1, <1>3, <1>4, <1>5, <1>6, <1>7, <1>9, ProducerKeepsOrder

\* A page that can be allocated is blank, and no thread is in it.
LEMMA AllocatableBlank ==
    ASSUME NEW rank, IInv, Ordered(rank), NEW q \in Pages, Allocatable(q)
    PROVE  /\ q \notin NewPages \cup LinkedPages
           /\ \A b \in Block : PageOf(b) = q => m_next[b] = Zero
           /\ \A c \in Consumers : cons[c].control # NoBlock => PageOf(cons[c].control) # q
           /\ \A p \in Producers : prod[p].pinned # q
<1>1. q \notin NewPages
  BY DEF NewPages, Ordered, NewPagesBlank, NewPageBlank, Creates, Allocatable
<1>2. q \notin LinkedPages
  BY DEF LinkedPages, Allocatable
<1>3. \A c \in Consumers : cons[c].control # NoBlock => PageOf(cons[c].control) # q
  BY DEF IInv, ControlPinned, Allocatable
<1>4. \A p \in Producers : prod[p].pinned # q
  BY BaseAssumption DEF Ordered, CreationOK, CreationPlaced, Allocatable
<1>5. \A b \in Block : PageOf(b) = q => m_next[b] = Zero
  BY <1>1, <1>2, <1>3, Addresses DEF Ordered, LeftBehind, Live
<1> QED
  BY <1>1, <1>2, <1>3, <1>4, <1>5

\* create_page takes a page in which no thread is.
LEMMA PageCreated ==
    ASSUME NEW rank, IInv, Ordered(rank), UNCHANGED headVars, NEW p \in Producers, CreatePage(p)
    PROVE  \E q \in Pages :
              /\ \A r \in Producers \ {p} : prod'[r] = prod[r]
              /\ prod'[p].new_page = q /\ prod'[p].tail = prod[p].tail /\ prod'[p].pinned = prod[p].pinned
              /\ prod'[p].control = prod[p].control /\ prod'[p].next = prod[p].next
              /\ prod'[p].flags = prod[p].flags /\ prod'[p].puts = prod[p].puts
              /\ \/ prod[p].pc = "try" /\ prod[p].tail = InvalidBlock /\ prod'[p].pc = "init_page"
                 \/ prod[p].pc = "create_page" /\ prod[p].tail \in Block /\ prod'[p].pc = "link_page"
              /\ q \notin NewPages \cup LinkedPages
              /\ \A c \in Consumers : cons[c].control # NoBlock => PageOf(cons[c].control) # q
              /\ \A r \in Producers : prod[r].pinned # q
              /\ pool[q] = "zeroed" /\ pool'[q] = "queue" /\ \A y \in Pages \ {q} : pool'[y] = pool[y]
              /\ \A y : y \in NewPages' <=> y = q \/ y \in NewPages
              /\ LinkedPages' = LinkedPages
              /\ \A b \in Block : PageOf(b) # q => m_next'[b] = m_next[b]
              /\ \A b \in Block : PageOf(b) = q =>
                    m_next'[b] = IF b[2] < EndSlot THEN Zero ELSE InvalidNextPage
<1>1. prod[p] \in Producer /\ ProducerOK(p) /\ prod \in [Producers -> Producer] /\ CreationPlaced(p)
  BY Typed DEF IInv, TypeOK, TailTypeOK, Ordered, CreationOK
<1>2. /\ UNCHANGED <<m_head, cons, m_initial_page, m_tail>>
      /\ UNCHANGED <<content, status, pinners>>
  BY DEF headVars, CreatePage
<1>3. PICK q \in Pages :
         /\ Allocatable(q)
         /\ pool' = [pool EXCEPT ![q] = "queue"]
         /\ m_next' = [m_next EXCEPT ![EndBlock(FirstBlock(q))] = InvalidNextPage]
         /\ prod' = [prod EXCEPT ![p].new_page = q, ![p].pc =
                       IF prod[p].tail = InvalidBlock THEN "init_page" ELSE "link_page"]
  BY DEF CreatePage
<1>4. /\ \A r \in Producers \ {p} : prod'[r] = prod[r]
      /\ prod'[p].new_page = q /\ prod'[p].tail = prod[p].tail /\ prod'[p].pinned = prod[p].pinned
      /\ prod'[p].control = prod[p].control /\ prod'[p].next = prod[p].next
      /\ prod'[p].flags = prod[p].flags /\ prod'[p].puts = prod[p].puts
      /\ prod'[p].pc = IF prod[p].tail = InvalidBlock THEN "init_page" ELSE "link_page"
  BY <1>1, <1>3 DEF Producer
<1>5. \/ prod[p].pc = "try" /\ prod[p].tail = InvalidBlock /\ prod'[p].pc = "init_page"
      \/ prod[p].pc = "create_page" /\ prod[p].tail \in Block /\ prod'[p].pc = "link_page"
  <2>1. PAt(p, "create_page") => prod[p].tail \in Block /\ prod[p].tail # InvalidBlock
    BY <1>1, Addresses DEF PAt, CreationPlaced
  <2> QED
    BY <1>4, <2>1 DEF CreatePage, Creating, PAt
<1>6. /\ q \notin NewPages \cup LinkedPages
      /\ \A b \in Block : PageOf(b) = q => m_next[b] = Zero
      /\ \A c \in Consumers : cons[c].control # NoBlock => PageOf(cons[c].control) # q
      /\ \A r \in Producers : prod[r].pinned # q
  BY <1>3, AllocatableBlank
<1>7. /\ pool'[q] = "queue" /\ \A y \in Pages \ {q} : pool'[y] = pool[y]
      /\ m_next'[End(q)] = InvalidNextPage
      /\ \A b \in Block : b # End(q) => m_next'[b] = m_next[b]
  BY <1>3, Spots DEF IInv, TypeOK, BaseTypeOK, EndBlock, FirstBlock, PageOf, End
<1>8. \A y : y \in NewPages' <=> y = q \/ y \in NewPages
  <2>1. /\ Created(prod'[p].pc) /\ ~Created(prod[p].pc)
        /\ \A r \in Producers \ {p} : prod'[r] = prod[r]
    BY <1>4, <1>5 DEF Created
  <2> QED
    BY <1>4, <2>1 DEF NewPages, Created
<1>9. LinkedPages' = LinkedPages
  <2>1. LeftPages' = LeftPages
    BY <1>2 DEF LeftPages
  <2> QED
    BY <1>6, <1>7, <1>8, <2>1 DEF LinkedPages
<1>10. \A b \in Block : PageOf(b) # q => m_next'[b] = m_next[b]
  BY <1>7, Spots
<1>11. \A b \in Block : PageOf(b) = q => m_next'[b] = IF b[2] < EndSlot THEN Zero ELSE InvalidNextPage
  BY <1>6, <1>7, Spots
<1>12. pool[q] = "zeroed"
  BY <1>3 DEF Allocatable
<1> QED
  BY <1>4, <1>5, <1>6, <1>7, <1>8, <1>9, <1>10, <1>11, <1>12

\* create_page: a page from the allocator has nothing in it but the invalid next
\* of its end block.
LEMMA CreatePageKeepsOrder ==
    ASSUME NEW rank, IInv, Ordered(rank), UNCHANGED headVars, NEW p \in Producers, CreatePage(p)
    PROVE  Ordered(rank)'
<1>1. prod[p] \in Producer /\ ProducerOK(p) /\ prod \in [Producers -> Producer] /\ CreationPlaced(p)
  BY Typed DEF IInv, TypeOK, TailTypeOK, Ordered, CreationOK
<1>2. /\ UNCHANGED <<m_head, cons, m_initial_page, m_tail>>
      /\ UNCHANGED <<content, status, pinners>>
  BY DEF headVars, CreatePage
<1>3. PICK q \in Pages :
         /\ \A r \in Producers \ {p} : prod'[r] = prod[r]
         /\ prod'[p].new_page = q /\ prod'[p].tail = prod[p].tail /\ prod'[p].pinned = prod[p].pinned
         /\ prod'[p].control = prod[p].control /\ prod'[p].next = prod[p].next
         /\ prod'[p].flags = prod[p].flags /\ prod'[p].puts = prod[p].puts
         /\ \/ prod[p].pc = "try" /\ prod[p].tail = InvalidBlock /\ prod'[p].pc = "init_page"
            \/ prod[p].pc = "create_page" /\ prod[p].tail \in Block /\ prod'[p].pc = "link_page"
         /\ q \notin NewPages \cup LinkedPages
         /\ \A c \in Consumers : cons[c].control # NoBlock => PageOf(cons[c].control) # q
         /\ \A r \in Producers : prod[r].pinned # q
         /\ pool[q] = "zeroed" /\ pool'[q] = "queue" /\ \A y \in Pages \ {q} : pool'[y] = pool[y]
         /\ \A y : y \in NewPages' <=> y = q \/ y \in NewPages
         /\ LinkedPages' = LinkedPages
         /\ \A b \in Block : PageOf(b) # q => m_next'[b] = m_next[b]
         /\ \A b \in Block : PageOf(b) = q =>
               m_next'[b] = IF b[2] < EndSlot THEN Zero ELSE InvalidNextPage
  BY PageCreated
<1>4. \A r \in Producers :
          /\ Creates(r) => prod[r].new_page # q
          /\ prod[r].pc \in {"create_page", "link_page", "discard_page", "advance_tail"} =>
                PageOf(prod[r].tail) # q
  <2>1. \A r \in Producers : Creates(r) => prod[r].new_page \in NewPages
    BY DEF Creates, NewPages
  <2>2. \A r \in Producers : CreationPlaced(r)
    BY DEF Ordered, CreationOK
  <2>3. q \notin NewPages /\ \A r \in Producers : prod[r].pinned # q
    BY <1>3
  <2> QED
    BY <2>1, <2>2, <2>3 DEF CreationPlaced
<1>5. OwnPages(p, {q})
  <2>1. \A c \in Consumers :
          cons[c].pc \in {"advance", "free_external", "zero", "memset", "free_page"} =>
              PageOf(cons[c].control) # q
    <3>1. \A c \in Consumers :
            cons[c].pc \in {"advance", "free_external", "zero", "memset", "free_page"} =>
                cons[c].control \in Block
      BY Typed DEF ConsumerOK
    <3> QED
      BY <1>3, <3>1, Addresses
  <2>2. \A b \in Block : PageOf(b) = q => m_next'[b].to = NoBlock
    BY <1>3 DEF Zero, InvalidNextPage
  <2> QED
    BY <1>3, <1>4, <2>1, <2>2 DEF OwnPages
<1>6. NewPageBlank(p)'
  BY <1>3 DEF NewPageBlank
<1>7. CreationPlaced(p)'
  <2>1. CASE prod'[p].pc = "init_page"
    BY <1>1, <1>2, <1>3, <2>1 DEF CreationPlaced
  <2>2. CASE prod'[p].pc = "link_page"
    <3>1. /\ prod[p].pc = "create_page" /\ PageOf(prod[p].tail) # q
          /\ prod[p].tail \in Block
      BY <1>3, <1>4, <2>2
    <3>2. Open(PageOf(prod[p].tail))' => Open(PageOf(prod[p].tail))
      <4>1. PICK x : x = PageOf(prod[p].tail)
        OBVIOUS
      <4>2. Open(x)' => Open(x)
        BY <1>3, <3>1, <4>1, Spots DEF Open
      <4> QED
        BY <1>3, <4>1, <4>2
    <3> QED
      BY <1>1, <1>2, <1>3, <2>2, <3>1, <3>2 DEF CreationPlaced
  <2> QED
    BY <1>3, <2>1, <2>2
<1> QED
  BY <1>2, <1>3, <1>5, <1>6, <1>7, OwnPageKeepsOrder DEF Reserves, Creates

\* A page created for nothing goes back to the allocator: it is not linked.
LEMMA PageDiscarded ==
    ASSUME NEW rank, IInv, Ordered(rank), UNCHANGED headVars, NEW p \in Producers,
           DiscardPage(p) \/ DiscardInitial(p), NEW q, q = prod[p].new_page
    PROVE  /\ \A r \in Producers \ {p} : prod'[r] = prod[r]
           /\ prod'[p].tail = prod[p].tail /\ prod'[p].pinned = prod[p].pinned
           /\ prod'[p].control = prod[p].control /\ prod'[p].next = prod[p].next
           /\ prod'[p].flags = prod[p].flags /\ prod'[p].puts = prod[p].puts
           /\ prod'[p].new_page = PageOf(prod[p].found)
           /\ \/ /\ prod[p].pc = "discard_page" /\ prod[p].found = NoBlock /\ prod'[p].pc = "unpin_end"
              \/ /\ prod[p].pc = "discard_page" /\ prod[p].found # NoBlock /\ prod'[p].pc = "advance_tail"
              \/ /\ prod[p].pc = "discard_initial" /\ prod'[p].pc = "init_tail"
           /\ Creates(p) /\ q \in Pages /\ q \in NewPages /\ q \notin LinkedPages
           /\ \A y \in Pages \ {q} : pool'[y] = pool[y]
           /\ \A b \in Block : PageOf(b) # q => m_next'[b] = m_next[b]
           /\ \A b \in Block : PageOf(b) = q => m_next'[b] = Zero
           /\ \A r \in Producers \ {p} :
                 /\ Creates(r) => prod[r].new_page # q
                 /\ prod[r].pc \in {"create_page", "link_page", "discard_page", "advance_tail"} =>
                       PageOf(prod[r].tail) # q
           /\ ~Created(prod'[p].pc)
           /\ \A y : y \in NewPages' <=> y # q /\ y \in NewPages
           /\ LinkedPages' = LinkedPages
<1>1. prod[p] \in Producer /\ ProducerOK(p) /\ prod \in [Producers -> Producer] /\ CreationPlaced(p)
      /\ NewPageBlank(p)
  BY Typed DEF IInv, TypeOK, TailTypeOK, Ordered, CreationOK, NewPagesBlank
<1>2. /\ UNCHANGED <<m_head, cons, m_initial_page, m_tail>>
      /\ UNCHANGED <<content, status, pinners>>
  BY DEF headVars, DiscardPage, DiscardInitial
<1>3. /\ \A r \in Producers \ {p} : prod'[r] = prod[r]
      /\ prod'[p].tail = prod[p].tail /\ prod'[p].pinned = prod[p].pinned
      /\ prod'[p].control = prod[p].control /\ prod'[p].next = prod[p].next
      /\ prod'[p].flags = prod[p].flags /\ prod'[p].puts = prod[p].puts
      /\ prod'[p].new_page = PageOf(prod[p].found)
  BY <1>1 DEF DiscardPage, DiscardInitial, Producer
<1>4. \/ /\ prod[p].pc = "discard_page" /\ prod[p].found = NoBlock /\ prod'[p].pc = "unpin_end"
      \/ /\ prod[p].pc = "discard_page" /\ prod[p].found # NoBlock /\ prod'[p].pc = "advance_tail"
      \/ /\ prod[p].pc = "discard_initial" /\ prod'[p].pc = "init_tail"
  BY <1>1 DEF DiscardPage, DiscardInitial, PAt, Producer
<1>5. /\ Creates(p) /\ q \in Pages /\ q \in NewPages /\ q \notin LinkedPages
  <2>1. Creates(p) /\ q \in Pages
    BY <1>1, <1>4 DEF Creates, ProducerOK
  <2> QED
    BY <2>1 DEF Creates, NewPages, LinkedPages
<1>6. DiscardCreatedPage(q)
  BY DEF DiscardPage, DiscardInitial
<1>7. /\ pool'[q] = "zeroed" /\ \A y \in Pages \ {q} : pool'[y] = pool[y]
      /\ m_next'[End(q)] = Zero
      /\ \A b \in Block : b # End(q) => m_next'[b] = m_next[b]
  BY <1>5, <1>6, Spots DEF IInv, TypeOK, BaseTypeOK, DiscardCreatedPage, EndBlock, FirstBlock, PageOf, End
<1>8. \A b \in Block : PageOf(b) # q => m_next'[b] = m_next[b]
  BY <1>5, <1>7, Spots
<1>9. \A b \in Block : PageOf(b) = q => m_next'[b] = Zero
  BY <1>1, <1>5, <1>7, Spots DEF NewPageBlank
<1>10. \A r \in Producers \ {p} :
          /\ Creates(r) => prod[r].new_page # q
          /\ prod[r].pc \in {"create_page", "link_page", "discard_page", "advance_tail"} =>
                PageOf(prod[r].tail) # q
  BY <1>5 DEF Ordered, NewPagesBlank, CreationOK, CreationPlaced
<1>11. ~Created(prod'[p].pc) /\ Created(prod[p].pc)
  BY <1>4 DEF Created
<1>12. \A y : y \in NewPages' <=> y # q /\ y \in NewPages
  BY <1>3, <1>10, <1>11 DEF NewPages, Created, Creates
<1>13. LinkedPages' = LinkedPages
  <2>1. LeftPages' = LeftPages
    BY <1>2 DEF LeftPages
  <2> QED
    BY <1>5, <1>7, <1>12, <2>1 DEF LinkedPages
<1> QED
  BY <1>3, <1>4, <1>5, <1>7, <1>8, <1>9, <1>10, <1>11, <1>12, <1>13

\* Giving it back keeps the order.
LEMMA DiscardsKeepOrder ==
    ASSUME NEW rank, IInv, Ordered(rank), UNCHANGED headVars, NEW p \in Producers,
           DiscardPage(p) \/ DiscardInitial(p)
    PROVE  Ordered(rank)'
<1>1. prod[p] \in Producer /\ ProducerOK(p) /\ prod \in [Producers -> Producer] /\ CreationPlaced(p)
      /\ NewPageBlank(p)
  BY Typed DEF IInv, TypeOK, TailTypeOK, Ordered, CreationOK, NewPagesBlank
<1>2. /\ UNCHANGED <<m_head, cons, m_initial_page, m_tail>>
      /\ UNCHANGED <<content, status, pinners>>
  BY DEF headVars, DiscardPage, DiscardInitial
<1>3. PICK q : q = prod[p].new_page
  OBVIOUS
<1>4. /\ \A r \in Producers \ {p} : prod'[r] = prod[r]
      /\ prod'[p].tail = prod[p].tail /\ prod'[p].pinned = prod[p].pinned
      /\ prod'[p].control = prod[p].control /\ prod'[p].next = prod[p].next
      /\ prod'[p].flags = prod[p].flags /\ prod'[p].puts = prod[p].puts
      /\ prod'[p].new_page = PageOf(prod[p].found)
      /\ \/ /\ prod[p].pc = "discard_page" /\ prod[p].found = NoBlock /\ prod'[p].pc = "unpin_end"
         \/ /\ prod[p].pc = "discard_page" /\ prod[p].found # NoBlock /\ prod'[p].pc = "advance_tail"
         \/ /\ prod[p].pc = "discard_initial" /\ prod'[p].pc = "init_tail"
      /\ Creates(p) /\ q \in Pages /\ q \in NewPages /\ q \notin LinkedPages
      /\ \A y \in Pages \ {q} : pool'[y] = pool[y]
      /\ \A b \in Block : PageOf(b) # q => m_next'[b] = m_next[b]
      /\ \A b \in Block : PageOf(b) = q => m_next'[b] = Zero
      /\ \A r \in Producers \ {p} :
            /\ Creates(r) => prod[r].new_page # q
            /\ prod[r].pc \in {"create_page", "link_page", "discard_page", "advance_tail"} =>
                  PageOf(prod[r].tail) # q
      /\ ~Created(prod'[p].pc)
      /\ \A y : y \in NewPages' <=> y # q /\ y \in NewPages
      /\ LinkedPages' = LinkedPages
  BY <1>3, PageDiscarded
<1>5. OwnPages(p, {q})
  <2>1. \A c \in Consumers :
          cons[c].pc \in {"advance", "free_external", "zero", "memset", "free_page"} =>
              PageOf(cons[c].control) # q
    BY <1>4 DEF Ordered, ConsumersPlaced, ConsumerPlaced
  <2>2. \A b \in Block : PageOf(b) = q => m_next'[b].to = NoBlock
    BY <1>4 DEF Zero
  <2> QED
    BY <1>4, <2>1, <2>2 DEF OwnPages
<1>6. ~Creates(p)' /\ NewPageBlank(p)'
  BY <1>4 DEF Creates, Created, NewPageBlank
<1>7. \A x \in Pages \ {q} : Open(x)' <=> Open(x)
  BY <1>4, Spots DEF Open
<1>8. CreationPlaced(p)'
  <2>1. CASE prod[p].pc = "discard_initial"
    <3>1. PageOf(prod[p].found) = m_initial_page
      BY <1>1, <2>1 DEF CreationPlaced, PageOf, FirstBlock
    <3> QED
      BY <1>1, <1>2, <1>4, <2>1, <3>1 DEF CreationPlaced
  <2>2. CASE prod[p].pc = "discard_page" /\ prod[p].found = NoBlock
    BY <1>1, <1>2, <1>4, <2>2 DEF CreationPlaced
  <2>3. CASE prod[p].pc = "discard_page" /\ prod[p].found # NoBlock
    <3>1. PICK x : x = PageOf(prod[p].tail)
      OBVIOUS
    <3>2. /\ x \notin NewPages /\ x \in Pages \ {q} /\ prod[p].tail \in Block
          /\ Open(x) => m_tail = prod[p].tail
      BY <1>1, <1>4, <2>3, <3>1, Addresses DEF CreationPlaced
    <3>3. PICK y : y = PageOf(prod[p].found)
      OBVIOUS
    <3>4. y \in Pages
      BY <1>1, <2>3, <3>3, Addresses DEF Producer
    <3>5. prod[p].tail = m_tail => Open(y) /\ y # PageOf(m_tail)
      BY <1>1, <2>3, <3>3 DEF CreationPlaced
    <3>6. Open(y) => Open(y)'
      BY <1>4, <1>7, <3>4 DEF Open
    <3> QED
      BY <1>1, <1>2, <1>4, <1>7, <2>3, <3>1, <3>2, <3>3, <3>5, <3>6 DEF CreationPlaced
  <2> QED
    BY <1>4, <2>1, <2>2, <2>3
<1> QED
  BY <1>2, <1>4, <1>5, <1>6, <1>8, OwnPageKeepsOrder DEF Reserves

---------------------------------------------------------------------------
(* A page joins the queue *)

\* The page that p has created is the last one.
Joins(p, new) ==
    /\ Creates(p) /\ new = prod[p].new_page /\ ~Created(prod'[p].pc)
    /\ \A q \in Producers \ {p} : prod'[q] = prod[q]
    /\ UNCHANGED <<m_head, cons, m_tail, content, status, pool, pinners>>

\* The page that joins had no block, and is the only one that joins.
LEMMA PageLinked ==
    ASSUME NEW rank, IInv, Ordered(rank), NEW p \in Producers, NEW new, Joins(p, new)
    PROVE  /\ new \in Pages /\ new \in NewPages /\ new \notin LinkedPages
           /\ \A y : y \in NewPages' <=> y # new /\ y \in NewPages
           /\ \A y : y \in LinkedPages' <=> y = new \/ y \in LinkedPages
           /\ \A b \in Block : PageOf(b) = new => m_next[b] = IF b[2] < EndSlot THEN Zero ELSE InvalidNextPage
<1>1. Creates(p) /\ Created(prod[p].pc) /\ ~Created(prod'[p].pc) /\ new = prod[p].new_page
  BY DEF Joins, Creates, Created
<1>2. new \in Pages /\ new \in NewPages /\ NewPageBlank(p) /\ pool[new] = "queue"
  BY <1>1, Typed DEF Creates, NewPages, ProducerOK, Ordered, NewPagesBlank, NewPageBlank
<1>3. \A q \in Producers \ {p} : Creates(q) => prod[q].new_page # new
  BY <1>1 DEF Ordered, NewPagesBlank
<1>4. \A y : y \in NewPages' <=> y # new /\ y \in NewPages
  BY <1>1, <1>3 DEF Joins, NewPages, Created, Creates
<1>5. LeftPages' = LeftPages
  BY DEF Joins, LeftPages
<1>6. new \notin LeftPages
  <2>1. \A c \in Consumers : cons[c].pc \in {"zero", "free_page"} => PageOf(cons[c].control) # new
    BY <1>2 DEF Ordered, ConsumersPlaced, ConsumerPlaced
  <2> QED
    BY <2>1 DEF LeftPages
<1>7. new \notin LinkedPages
  BY <1>2 DEF LinkedPages
<1>8. \A y : y \in LinkedPages' <=> y = new \/ y \in LinkedPages
  BY <1>2, <1>4, <1>5, <1>6 DEF LinkedPages, Joins
<1> QED
  BY <1>1, <1>2, <1>4, <1>7, <1>8 DEF NewPageBlank

\* The blocks of the other pages are where they were.
LEMMA JoinsKeepBlocks ==
    ASSUME NEW rank, IInv, Ordered(rank), NEW p \in Producers, NEW new, Joins(p, new),
           \/ First' = First /\ PageOf(First) # new
           \/ First' = FirstBlock(new) /\ LinkedPages = {}
    PROVE  /\ \A b : Live(b)' <=> Live(b) \/ (b \in Block /\ PageOf(b) = new)
           /\ \A b : Inner(b)' <=> Inner(b) \/ (b \in Block /\ PageOf(b) = new /\ b[2] < EndSlot)
           /\ \A b : Live(b) => PageOf(b) # new
<1>1. /\ new \notin LinkedPages
      /\ \A y : y \in LinkedPages' <=> y = new \/ y \in LinkedPages
  BY PageLinked
<1>2. \A b : Live(b)' <=> Live(b) \/ (b \in Block /\ PageOf(b) = new)
  <2>1. CASE First' = First /\ PageOf(First) # new
    BY <1>1, <2>1 DEF Live
  <2>2. CASE First' = FirstBlock(new) /\ LinkedPages = {}
    <3>1. \A b \in Block : FirstBlock(new)[2] <= b[2]
      BY Spots DEF FirstBlock
    <3> QED
      BY <1>1, <2>2, <3>1 DEF Live
  <2> QED
    BY <2>1, <2>2
<1>3. \A b : Live(b) => PageOf(b) # new
  BY <1>1 DEF Live
<1> QED
  BY <1>2, <1>3 DEF Inner

\* The queue with one page more is in order, once its new last page has been
\* given a rank, and the head and the tail are where they should be.
LEMMA JoinsKeepOrder ==
    ASSUME NEW rank, IInv, Ordered(rank), NEW p \in Producers, NEW new, Joins(p, new),
           NEW rank2, \A y \in LinkedPages : rank2[y] = rank[y],
           \/ First' = First /\ PageOf(First) # new
           \/ First' = FirstBlock(new) /\ LinkedPages = {},
           \A b \in Block : Inner(b) \/ ~Live(b) \/ IsDead(m_next[b]) \/ PageOf(b) = new => m_next'[b] = m_next[b],
           \A y : Open(y)' => y = new,
           m_initial_page' = m_initial_page \/ m_initial_page = NoPage,
           ~Reserves(prod[p].pc), ~Reserves(prod'[p].pc),
           prod[p].pc \notin {"idle", "pending", "fill"}, prod'[p].pc \notin {"idle", "pending", "fill"},
           prod'[p].control = prod[p].control, prod'[p].next = prod[p].next,
           prod'[p].flags = prod[p].flags, prod'[p].puts = prod[p].puts,
           PagesOrdered(rank2)', HeadPlace', TailPlace', CreationOK'
    PROVE  Ordered(rank2)'
<1>1. /\ new \in Pages /\ new \in NewPages /\ new \notin LinkedPages
      /\ \A y : y \in NewPages' <=> y # new /\ y \in NewPages
      /\ \A y : y \in LinkedPages' <=> y = new \/ y \in LinkedPages
      /\ \A b \in Block : PageOf(b) = new => m_next[b] = IF b[2] < EndSlot THEN Zero ELSE InvalidNextPage
  BY PageLinked
<1>2. /\ \A b : Live(b)' <=> Live(b) \/ (b \in Block /\ PageOf(b) = new)
      /\ \A b : Inner(b)' <=> Inner(b) \/ (b \in Block /\ PageOf(b) = new /\ b[2] < EndSlot)
      /\ \A b : Live(b) => b \in Block /\ PageOf(b) # new
      /\ \A b : Inner(b) => Live(b) /\ b[2] < EndSlot
  BY JoinsKeepBlocks DEF Live, Inner
<1>3. /\ \A q \in Producers \ {p} : prod'[q] = prod[q]
      /\ cons' = cons /\ m_tail' = m_tail /\ content' = content /\ status' = status /\ pool' = pool
  BY DEF Joins
<1>4. \A b \in Block : Inner(b) \/ ~Live(b) \/ IsDead(m_next[b]) \/ PageOf(b) = new => m_next'[b] = m_next[b]
  OBVIOUS
<1>5. NewPagesBlank'
  <2>1. \A q \in Producers \ {p} : Creates(q)' <=> Creates(q)
    BY <1>3 DEF Creates
  <2>2. ~Creates(p)' /\ Creates(p) /\ new = prod[p].new_page
    BY DEF Joins, Creates, Created
  <2>3. ASSUME NEW q \in Producers, Creates(q)' PROVE NewPageBlank(q)'
    <3>1. q # p /\ Creates(q) /\ NewPageBlank(q) /\ prod[q].new_page \in NewPages
      BY <2>1, <2>2, <2>3 DEF Ordered, NewPagesBlank, NewPages, Creates
    <3>2. \A b \in Block : PageOf(b) = prod[q].new_page => ~Live(b)
      BY <3>1 DEF Live, LinkedPages
    <3> QED
      BY <1>3, <1>4, <3>1, <3>2 DEF NewPageBlank
  <2>4. \A q \in Producers : NewPageBlank(q)'
    BY <2>3 DEF NewPageBlank
  <2> QED
    BY <1>3, <2>1, <2>2, <2>4 DEF Ordered, NewPagesBlank
<1>6. /\ \A b \in Block : \A q \in Reserving(b) : Inner(b)
      /\ \A b : Reserving(b)' = Reserving(b)
      /\ \A b : \A q \in Reserving(b) : ReservedEnd(q)' = ReservedEnd(q)
  <2>1. \A b \in Block : \A q \in Reserving(b) : Inner(b)
    BY DEF Reserving, Stores, Ordered, ReservationsOK, ReservationOK
  <2>2. \A b : \A q \in Producers : q \in Reserving(b)' <=> q \in Reserving(b)
    BY <1>3 DEF Reserving, Reserves
  <2>3. \A b : Reserving(b) \subseteq Producers /\ Reserving(b)' \subseteq Producers
    BY DEF Reserving
  <2>4. \A b : \A q \in Reserving(b) : ReservedEnd(q)' = ReservedEnd(q)
    BY <1>3 DEF Reserving, Reserves, ReservedEnd, PAt
  <2> QED
    BY <2>1, <2>2, <2>3, <2>4
<1>7. \A b, e \in Block : Inner(b)' /\ Spans(b, e)' => Inner(b) /\ Spans(b, e)
  <2> SUFFICES ASSUME NEW b \in Block, NEW e \in Block, Inner(b)', Spans(b, e)'
               PROVE  Inner(b) /\ Spans(b, e)
    OBVIOUS
  <2>1. Inner(b)
    <3> SUFFICES ASSUME PageOf(b) = new, b[2] < EndSlot PROVE Inner(b)
      BY <1>2
    <3>1. m_next'[b].to # e
      BY <1>1, <1>4, Addresses DEF Zero
    <3> QED
      BY <1>6, <3>1 DEF Spans
  <2> QED
    BY <1>4, <1>6, <2>1 DEF Spans
<1>8. BlocksApart'
  <2>1. ASSUME NEW a \in Block, Inner(a)', IsEnd(m_next'[a]) PROVE m_next'[a] = Zero
    <3>1. CASE Inner(a)
      BY <1>4, <2>1, <3>1 DEF Ordered, BlocksApart
    <3>2. CASE ~Inner(a)
      BY <1>1, <1>2, <1>4, <2>1, <3>2
    <3> QED
      BY <3>1, <3>2
  <2>2. ASSUME NEW a \in Block, NEW e \in Block, Inner(a)', Spans(a, e)' PROVE BlockApart(a, e)'
    <3>1. Inner(a) /\ BlockApart(a, e)
      BY <1>7, <2>2 DEF Ordered, BlocksApart
    <3>2. ~Open(PageOf(a))'
      <4>1. PICK x : x = PageOf(a)
        OBVIOUS
      <4> QED
        BY <1>2, <3>1, <4>1
    <3>3. \A b \in Block : SamePage(a, b) /\ Inner(b)' => Inner(b)
      BY <1>2, <3>1 DEF SamePage
    <3> QED
      BY <1>7, <3>1, <3>2, <3>3 DEF BlockApart
  <2> QED
    BY <2>1, <2>2 DEF BlocksApart
<1>9. ReservationsOK'
  <2>1. \A q \in Producers : Stores(q)' => Stores(q) /\ q # p /\ prod'[q] = prod[q]
    BY <1>3 DEF Stores, Reserves
  <2> QED
    BY <1>2, <1>4, <2>1 DEF Ordered, ReservationsOK, ReservationOK
<1>10. LeftBehind'
  <2>1. \A c : Passed(c)' <=> Passed(c)
    BY <1>3 DEF Passed
  <2> QED
    BY <1>1, <1>2, <1>3, <1>4, <2>1 DEF Ordered, LeftBehind
<1>11. ConsumersPlaced'
  <2>1. ASSUME NEW c \in Consumers PROVE ConsumerPlaced(c)'
    <3>1. ConsumerPlaced(c) /\ ConsumerOK(c)
      BY Typed DEF Ordered, ConsumersPlaced
    <3>2. cons[c].pc \in {"advance", "free_external", "zero", "memset", "free_page"} =>
             /\ cons[c].control \in Block /\ PageOf(cons[c].control) # new
             /\ PageOf(cons[c].control) \notin NewPages'
             /\ Live(cons[c].control)' <=> Live(cons[c].control)
      <4> SUFFICES ASSUME cons[c].pc \in {"advance", "free_external", "zero", "memset", "free_page"}
                   PROVE  /\ cons[c].control \in Block /\ PageOf(cons[c].control) # new
                          /\ PageOf(cons[c].control) \notin NewPages'
                          /\ Live(cons[c].control)' <=> Live(cons[c].control)
        OBVIOUS
      <4>1. PICK b : b = cons[c].control
        OBVIOUS
      <4>2. b \in Block /\ PageOf(b) # new /\ PageOf(b) \notin NewPages'
        BY <1>1, <3>1, <4>1 DEF ConsumerPlaced, ConsumerOK
      <4>3. Live(b)' <=> Live(b)
        BY <1>2, <4>2
      <4> QED
        BY <1>3, <4>1, <4>2, <4>3
    <3>3. cons[c].pc = "advance" /\ Live(cons[c].control) => m_next'[cons[c].control] = m_next[cons[c].control]
      BY <1>4, <3>1, <3>2 DEF ConsumerPlaced
    <3>4. Passed(c) => m_next'[cons[c].control] = m_next[cons[c].control]
      BY <1>4, <3>1, <3>2 DEF ConsumerPlaced, Passed
    <3>5. cons[c].pc \in {"free_external", "zero", "memset"} /\ PageOf(cons[c].control) = PageOf(First)' =>
             First' = First
      <4>1. PageOf(FirstBlock(new)) = new
        BY DEF PageOf, FirstBlock
      <4> QED
        BY <3>2, <4>1
    <3>6. cons[c].pc = "init_head" /\ m_initial_page = NoPage => cons[c].target = NoBlock
      BY <3>1, Addresses DEF ConsumerPlaced
    <3> QED
      BY <1>3, <3>1, <3>2, <3>3, <3>4, <3>5, <3>6 DEF ConsumerPlaced, Passed
  <2>2. \A c : Passed(c)' <=> Passed(c)
    BY <1>3 DEF Passed
  <2> QED
    BY <1>3, <2>1, <2>2 DEF Ordered, ConsumersPlaced
<1>12. \A q \in Producers : /\ Putting(q)' <=> Putting(q)
                            /\ prod'[q].control = prod[q].control /\ prod'[q].next = prod[q].next
  BY <1>3 DEF Putting
<1>13. OwnersOK'
  <2>1. \A q \in Producers : PutterOwns(q)'
    BY <1>2, <1>4, <1>12 DEF Ordered, OwnersOK, PutterOwns
  <2>2. \A c \in Consumers : /\ Takes(c)' <=> Takes(c)
                             /\ TakenWord(c)' = TakenWord(c)
    BY <1>3 DEF Takes, At, TakenWord
  <2>3. \A c \in Consumers : TakerOwns(c)'
    BY <1>2, <1>3, <1>4, <2>2 DEF Ordered, OwnersOK, TakerOwns
  <2> QED
    BY <1>3, <1>12, <2>1, <2>2, <2>3 DEF Ordered, OwnersOK
<1>14. PutsOK(rank2)'
  <2>1. ASSUME NEW q \in Producers PROVE PutOK(rank2, q)'
    <3>1. PutOK(rank, q) /\ PutterOwns(q) /\ ReservationOK(q)
      BY DEF Ordered, PutsOK, OwnersOK, ReservationsOK
    <3>2. CASE q = p
      BY <3>1, <3>2 DEF PutOK, Putting, Reserves
    <3>3. CASE q # p
      <4>1. prod'[q] = prod[q]
        BY <1>3, <3>3
      <4>2. prod[q].pc \in {"store", "fill"} => Inner(prod[q].tail)
        BY <3>1 DEF PutOK, ReservationOK, Stores
      <4>3. Putting(q) => Inner(prod[q].control)
        BY <3>1 DEF PutterOwns
      <4>4. \A b : Inner(b) => rank2[PageOf(b)] = rank[PageOf(b)]
        BY DEF Inner, Live
      <4> QED
        BY <1>2, <1>4, <3>1, <4>1, <4>2, <4>3, <4>4 DEF PutOK, Putting, Before
    <3> QED
      BY <3>2, <3>3
  <2> QED
    BY <2>1 DEF PutsOK
<1>15. ElementsOK' /\ ContentsWiped'
  <2>1. PutElementOK(p)'
    <3>1. PutElementOK(p)
      BY DEF Ordered, ElementsOK
    <3> QED
      BY <1>3, <3>1 DEF PutElementOK, Putting, Current, PAt
  <2>2. \A b \in Block : ReadyBlock(b)' => ReadyBlock(b)
    BY <1>1, <1>2, <1>4, Addresses DEF ReadyBlock, Zero
  <2>3. \A x : InBlock(x) => InBlock(x)'
    BY <1>2, <1>4 DEF InBlock, Between
  <2>4. \A x : BeingWiped(x)' <=> BeingWiped(x)
    BY <1>3 DEF BeingWiped, Between, Wipes
  <2> QED
    BY <1>3, <2>1, <2>2, <2>3, <2>4, ElementsKept
<1> QED
  BY <1>5, <1>8, <1>9, <1>10, <1>11, <1>13, <1>14, <1>15 DEF Ordered

\* No two pages are the last one.
LEMMA OneOpen ==
    ASSUME NEW rank \in [Pages -> Nat], PagesOrdered(rank), NEW x, NEW y, Open(x), Open(y)
    PROVE  x = y
<1>1. x \in LinkedPages /\ y \in LinkedPages /\ rank[x] \in Nat /\ rank[y] \in Nat
  BY DEF Open, LinkedPages
<1>2. ASSUME NEW a \in LinkedPages, Open(a)
      PROVE  \A z \in LinkedPages : rank[z] <= rank[a]
  <2>1. \A z : m_next[End(a)] # NextWord(FirstBlock(z), {"dead"})
    BY <1>2 DEF Open, InvalidNextPage, NextWord
  <2> QED
    BY <2>1 DEF PagesOrdered, PageOrdered
<1>3. rank[x] = rank[y]
  BY <1>1, <1>2
<1> QED
  BY <1>1, <1>3 DEF PagesOrdered, PageOrdered

\* A page is linked to the last one, where the tail is.
LEMMA PageLinks ==
    ASSUME NEW rank \in [Pages -> Nat], IInv, Ordered(rank), UNCHANGED headVars,
           NEW p \in Producers, LinkPage(p), m_next[prod[p].tail] = InvalidNextPage,
           NEW new, new = prod[p].new_page, NEW x, x = PageOf(prod[p].tail)
    PROVE  /\ prod[p].pc = "link_page" /\ prod[p].tail = End(x) /\ x \in Pages /\ x \notin NewPages
           /\ Open(x) => m_tail = End(x)
           /\ prod[p].pinned = x
           /\ UNCHANGED <<m_head, cons, m_initial_page, m_tail, content, status, pool, pinners>>
           /\ \A q \in Producers \ {p} : prod'[q] = prod[q]
           /\ prod'[p].pc = "advance_tail" /\ prod'[p].new_page = new
           /\ prod'[p].control = prod[p].control /\ prod'[p].next = prod[p].next
           /\ prod'[p].flags = prod[p].flags /\ prod'[p].puts = prod[p].puts
           /\ prod'[p].pinned = prod[p].pinned /\ prod'[p].tail = prod[p].tail
           /\ m_next'[End(x)] = NextWord(FirstBlock(new), {"dead"})
           /\ \A b \in Block : b # End(x) => m_next'[b] = m_next[b]
           /\ m_next[End(x)] = InvalidNextPage
           /\ Joins(p, new)
           /\ new \in Pages /\ new \in NewPages /\ new \notin LinkedPages
           /\ \A y : y \in NewPages' <=> y # new /\ y \in NewPages
           /\ \A y : y \in LinkedPages' <=> y = new \/ y \in LinkedPages
           /\ m_next[End(new)] = InvalidNextPage
           /\ Live(End(x)) /\ ~IsDead(m_next[End(x)])
           /\ x \in LinkedPages /\ Open(x) /\ m_tail = End(x) /\ x # new
           /\ m_initial_page # NoPage /\ PageOf(First) \in LinkedPages /\ First' = First
           /\ \A y : Open(y)' <=> y = new
<1>1. prod[p] \in Producer /\ ProducerOK(p) /\ prod \in [Producers -> Producer] /\ CreationPlaced(p)
  BY Typed DEF IInv, TypeOK, TailTypeOK, Ordered, CreationOK
<1>2. /\ prod[p].pc = "link_page" /\ prod[p].tail = End(x) /\ x \in Pages /\ x \notin NewPages
      /\ Open(x) => m_tail = End(x)
      /\ prod[p].pinned = x
  BY <1>1, Spots DEF LinkPage, PAt, CreationPlaced
<1>3. /\ UNCHANGED <<m_head, cons, m_initial_page, m_tail, content, status, pool, pinners>>
      /\ \A q \in Producers \ {p} : prod'[q] = prod[q]
      /\ prod'[p].pc = "advance_tail" /\ prod'[p].new_page = new
      /\ prod'[p].control = prod[p].control /\ prod'[p].next = prod[p].next
      /\ prod'[p].flags = prod[p].flags /\ prod'[p].puts = prod[p].puts
      /\ prod'[p].pinned = prod[p].pinned /\ prod'[p].tail = prod[p].tail
  BY <1>1 DEF LinkPage, PGoto, Producer, headVars
<1>4. /\ m_next'[End(x)] = NextWord(FirstBlock(new), {"dead"})
      /\ \A b \in Block : b # End(x) => m_next'[b] = m_next[b]
      /\ m_next[End(x)] = InvalidNextPage
  BY <1>2, Spots DEF LinkPage, IInv, TypeOK, BaseTypeOK
<1>5. Joins(p, new)
  BY <1>2, <1>3 DEF Joins, Creates, Created
<1>6. /\ new \in Pages /\ new \in NewPages /\ new \notin LinkedPages
      /\ \A y : y \in NewPages' <=> y # new /\ y \in NewPages
      /\ \A y : y \in LinkedPages' <=> y = new \/ y \in LinkedPages
      /\ m_next[End(new)] = InvalidNextPage
  BY <1>5, PageLinked, Spots
<1>7. Live(End(x)) /\ ~IsDead(m_next[End(x)])
  <2>1. ~IsDead(m_next[End(x)]) /\ m_next[End(x)] # Zero
    BY <1>4 DEF IsDead, InvalidNextPage, Zero
  <2>2. ASSUME NEW c \in Consumers, Passed(c), cons[c].control = End(x) PROVE FALSE
    <3>1. IsDead(m_next[End(x)])
      BY <2>2 DEF Ordered, ConsumersPlaced, ConsumerPlaced, Passed
    <3> QED
      BY <2>1, <3>1
  <2>3. Live(End(x))
    BY <1>2, <2>1, <2>2, Spots DEF Ordered, LeftBehind
  <2> QED
    BY <2>1, <2>3
<1>8. x \in LinkedPages /\ Open(x) /\ m_tail = End(x) /\ x # new
  BY <1>2, <1>4, <1>6, <1>7, Spots DEF Live, Open
<1>9. m_initial_page # NoPage /\ PageOf(First) \in LinkedPages /\ First' = First
  BY <1>3, <1>8 DEF Ordered, HeadPlace, First
<1>10. \A y : Open(y)' <=> y = new
  <2>1. Open(new)'
    <3>1. m_next'[End(new)] = InvalidNextPage
      BY <1>2, <1>4, <1>6, <1>8, Spots
    <3> QED
      BY <1>6, <3>1 DEF Open
  <2>2. ASSUME NEW y, y # new, Open(y)' PROVE FALSE
    <3>1. y \in LinkedPages /\ y # x
      BY <1>4, <1>6, <2>2 DEF Open, NextWord, InvalidNextPage
    <3>2. Open(y)
      BY <1>4, <2>2, <3>1, Spots DEF Open, LinkedPages
    <3> QED
      BY <1>8, <3>1, <3>2, OneOpen DEF Ordered
  <2> QED
    BY <2>1, <2>2
<1> QED
  BY <1>2, <1>3, <1>4, <1>5, <1>6, <1>7, <1>8, <1>9, <1>10

\* The CAS that links a page succeeds: it comes after all the others.
LEMMA LinkPageKeepsOrder ==
    ASSUME NEW rank \in [Pages -> Nat], IInv, Ordered(rank), UNCHANGED headVars,
           NEW p \in Producers, LinkPage(p), m_next[prod[p].tail] = InvalidNextPage
    PROVE  \E rank2 \in [Pages -> Nat] : Ordered(rank2)'
<1>1. prod[p] \in Producer /\ ProducerOK(p) /\ prod \in [Producers -> Producer] /\ CreationPlaced(p)
  BY Typed DEF IInv, TypeOK, TailTypeOK, Ordered, CreationOK
<1>2. PICK new : new = prod[p].new_page
  OBVIOUS
<1>3. PICK x : x = PageOf(prod[p].tail)
  OBVIOUS
<1>4. /\ prod[p].pc = "link_page" /\ prod[p].tail = End(x) /\ x \in Pages /\ x \notin NewPages
      /\ Open(x) => m_tail = End(x)
      /\ prod[p].pinned = x
  BY <1>2, <1>3, PageLinks
<1>5. /\ UNCHANGED <<m_head, cons, m_initial_page, m_tail, content, status, pool, pinners>>
      /\ \A q \in Producers \ {p} : prod'[q] = prod[q]
      /\ prod'[p].pc = "advance_tail" /\ prod'[p].new_page = new
      /\ prod'[p].control = prod[p].control /\ prod'[p].next = prod[p].next
      /\ prod'[p].flags = prod[p].flags /\ prod'[p].puts = prod[p].puts
      /\ prod'[p].pinned = prod[p].pinned /\ prod'[p].tail = prod[p].tail
  BY <1>2, <1>3, PageLinks
<1>6. /\ m_next'[End(x)] = NextWord(FirstBlock(new), {"dead"})
      /\ \A b \in Block : b # End(x) => m_next'[b] = m_next[b]
      /\ m_next[End(x)] = InvalidNextPage
  BY <1>2, <1>3, PageLinks
<1>7. Joins(p, new)
  BY <1>2, <1>3, PageLinks
<1>8. /\ new \in Pages /\ new \in NewPages /\ new \notin LinkedPages
      /\ \A y : y \in NewPages' <=> y # new /\ y \in NewPages
      /\ \A y : y \in LinkedPages' <=> y = new \/ y \in LinkedPages
      /\ m_next[End(new)] = InvalidNextPage
  BY <1>2, <1>3, PageLinks
<1>9. Live(End(x)) /\ ~IsDead(m_next[End(x)])
  BY <1>2, <1>3, PageLinks
<1>10. x \in LinkedPages /\ Open(x) /\ m_tail = End(x) /\ x # new
  BY <1>2, <1>3, PageLinks
<1>11. m_initial_page # NoPage /\ PageOf(First) \in LinkedPages /\ First' = First
  BY <1>2, <1>3, PageLinks
<1>12. \A y : Open(y)' <=> y = new
  BY <1>2, <1>3, PageLinks
<1> DEFINE rank2 == [rank EXCEPT ![new] = rank[x] + 1]
<1>13. /\ rank2 \in [Pages -> Nat] /\ rank2[new] = rank[x] + 1
       /\ \A y \in LinkedPages : rank2[y] = rank[y] /\ rank[y] \in Nat
       /\ rank[x] \in Nat
  BY <1>4, <1>8 DEF LinkedPages
<1> HIDE DEF rank2
<1>14. PagesOrdered(rank2)'
  <2>1. \A y \in LinkedPages : PageOrdered(rank, y)
    BY DEF Ordered, PagesOrdered
  <2>2. \A z : m_next[End(x)] # NextWord(FirstBlock(z), {"dead"})
    BY <1>6 DEF InvalidNextPage, NextWord
  <2>3. \A y \in LinkedPages : rank[y] <= rank[x]
    BY <1>10, <2>1, <2>2 DEF PageOrdered
  <2>4. ASSUME NEW y \in LinkedPages PROVE PageOrdered(rank2, y)'
    <3>1. rank2[PageOf(First')] <= rank2[y]
      BY <1>11, <1>13, <2>1 DEF PageOrdered
    <3>2. \A z \in LinkedPages' : rank2[y] = rank2[z] => y = z
      BY <1>8, <1>13, <2>1, <2>3 DEF PageOrdered
    <3>3. \E z \in LinkedPages' : /\ m_next'[End(y)] = NextWord(FirstBlock(z), {"dead"})
                                  /\ rank2[z] = rank2[y] + 1
      <4>1. CASE y = x
        BY <1>6, <1>8, <1>13, <4>1
      <4>2. CASE y # x
        <5>1. ~Open(y)
          BY <1>10, <4>2, OneOpen DEF Ordered
        <5>2. PICK z \in LinkedPages : /\ m_next[End(y)] = NextWord(FirstBlock(z), {"dead"})
                                       /\ rank[z] = rank[y] + 1
          BY <2>1, <5>1 DEF PageOrdered
        <5>3. m_next'[End(y)] = m_next[End(y)]
          BY <1>6, <4>2, Spots DEF LinkedPages, End
        <5> QED
          BY <1>8, <1>13, <5>2, <5>3
      <4> QED
        BY <4>1, <4>2
    <3> QED
      BY <3>1, <3>2, <3>3 DEF PageOrdered
  <2>5. PageOrdered(rank2, new)'
    <3>1. rank2[PageOf(First')] <= rank2[new]
      BY <1>11, <1>13, <2>3
    <3>2. \A z \in LinkedPages' : rank2[new] = rank2[z] => new = z
      BY <1>8, <1>13, <2>3
    <3>3. \A z \in LinkedPages' : rank2[z] <= rank2[new]
      BY <1>8, <1>13, <2>3
    <3> QED
      BY <1>12, <3>1, <3>2, <3>3 DEF PageOrdered
  <2> QED
    BY <1>8, <2>4, <2>5 DEF PagesOrdered
<1>15. HeadPlace'
  BY <1>5, <1>8, <1>11, <1>12 DEF HeadPlace
<1>16. TailPlace'
  <2>1. m_tail' = End(x) /\ End(x) \in Block
    BY <1>4, <1>5, <1>10, Spots
  <2>2. AdvancesTail(p)'
    BY <1>4, <1>5, <2>1 DEF AdvancesTail, PAt
  <2>3. PageOf(m_next'[End(x)].to) = new /\ End(x)[2] = EndSlot /\ End(x) # InvalidBlock
    BY <1>4, <1>6, <2>1, Addresses, Spots DEF NextWord, FirstBlock, PageOf
  <2> QED
    BY <1>8, <1>11, <1>12, <2>1, <2>2, <2>3 DEF TailPlace
<1>17. CreationOK'
  <2>1. ASSUME NEW q \in Producers PROVE CreationPlaced(q)'
    <3>1. CASE q = p
      BY <1>1, <1>3, <1>4, <1>5, <1>8, <1>10, <1>12, <3>1, Spots DEF CreationPlaced
    <3>2. CASE q # p
      <4>1. CreationPlaced(q) /\ prod'[q] = prod[q]
        BY <1>5, <3>2 DEF Ordered, CreationOK
      <4>2. prod[q].pc \in {"create_page", "link_page", "discard_page", "advance_tail"} =>
                PageOf(prod[q].tail) # new
        BY <1>8, <4>1 DEF CreationPlaced
      <4>3. \A y : Open(y) => y = x
        BY <1>10, OneOpen DEF Ordered
      <4>4. PageOf(m_tail) = x
        BY <1>4, <1>10, Spots
      <4>5. ~(prod[q].pc = "advance_tail" /\ prod[q].tail = m_tail)
        BY <4>1, <4>3, <4>4 DEF CreationPlaced
      <4>6. ~(prod[q].pc = "discard_page" /\ prod[q].tail = m_tail /\ prod[q].found # NoBlock)
        BY <4>1, <4>3, <4>4 DEF CreationPlaced
      <4> QED
        BY <1>5, <1>8, <1>12, <4>1, <4>2, <4>5, <4>6 DEF CreationPlaced
    <3> QED
      BY <3>1, <3>2
  <2> QED
    BY <2>1 DEF CreationOK
<1>18. Ordered(rank2)'
  <2>1. \A b \in Block : Inner(b) \/ ~Live(b) \/ IsDead(m_next[b]) \/ PageOf(b) = new => m_next'[b] = m_next[b]
    BY <1>4, <1>6, <1>9, <1>10, Spots DEF Inner
  <2> QED
    BY <1>4, <1>5, <1>7, <1>8, <1>11, <1>12, <1>13, <1>14, <1>15, <1>16, <1>17, <2>1, JoinsKeepOrder DEF Reserves
<1> QED
  BY <1>13, <1>18

\* The queue had no page.
LEMMA PageStored ==
    ASSUME NEW rank \in [Pages -> Nat], IInv, Ordered(rank), UNCHANGED headVars,
           NEW p \in Producers, InitPage(p), m_initial_page = NoPage,
           NEW new, new = prod[p].new_page
    PROVE  /\ UNCHANGED <<m_head, cons, m_next, m_tail, content, status, pool, pinners>>
           /\ \A q \in Producers \ {p} : prod'[q] = prod[q]
           /\ prod[p].pc = "init_page" /\ prod'[p].pc = "init_tail" /\ prod'[p].new_page = new
           /\ prod'[p].control = prod[p].control /\ prod'[p].next = prod[p].next
           /\ prod'[p].flags = prod[p].flags /\ prod'[p].puts = prod[p].puts
           /\ prod'[p].pinned = prod[p].pinned /\ prod'[p].tail = prod[p].tail
           /\ m_initial_page' = new
           /\ Joins(p, new)
           /\ new \in Pages /\ new \in NewPages /\ new \notin LinkedPages
           /\ \A y : y \in NewPages' <=> y # new /\ y \in NewPages
           /\ \A y : y \in LinkedPages' <=> y = new \/ y \in LinkedPages
           /\ m_next[End(new)] = InvalidNextPage
           /\ LinkedPages = {} /\ m_head = NoBlock /\ m_tail = InvalidBlock
           /\ First' = FirstBlock(new) /\ PageOf(First') = new /\ First'[2] = 0
           /\ \A y : Open(y)' <=> y = new
<1>1. prod[p] \in Producer /\ ProducerOK(p) /\ prod \in [Producers -> Producer] /\ CreationPlaced(p)
  BY Typed DEF IInv, TypeOK, TailTypeOK, Ordered, CreationOK
<1>2. /\ UNCHANGED <<m_head, cons, m_next, m_tail, content, status, pool, pinners>>
      /\ \A q \in Producers \ {p} : prod'[q] = prod[q]
      /\ prod[p].pc = "init_page" /\ prod'[p].pc = "init_tail" /\ prod'[p].new_page = new
      /\ prod'[p].control = prod[p].control /\ prod'[p].next = prod[p].next
      /\ prod'[p].flags = prod[p].flags /\ prod'[p].puts = prod[p].puts
      /\ prod'[p].pinned = prod[p].pinned /\ prod'[p].tail = prod[p].tail
      /\ m_initial_page' = new
  BY <1>1 DEF InitPage, PAt, PGoto, Producer, headVars
<1>3. Joins(p, new)
  BY <1>2 DEF Joins, Creates, Created
<1>4. /\ new \in Pages /\ new \in NewPages /\ new \notin LinkedPages
      /\ \A y : y \in NewPages' <=> y # new /\ y \in NewPages
      /\ \A y : y \in LinkedPages' <=> y = new \/ y \in LinkedPages
      /\ m_next[End(new)] = InvalidNextPage
  BY <1>3, PageLinked, Spots
<1>5. LinkedPages = {} /\ m_head = NoBlock /\ m_tail = InvalidBlock
  BY DEF Ordered, HeadPlace
<1>6. First' = FirstBlock(new) /\ PageOf(First') = new /\ First'[2] = 0
  BY <1>2, <1>5 DEF First, FirstBlock, PageOf
<1>7. \A y : Open(y)' <=> y = new
  BY <1>2, <1>4, <1>5 DEF Open
<1> QED
  BY <1>2, <1>3, <1>4, <1>5, <1>6, <1>7

\* The first page of the queue is stored.
LEMMA InitPageKeepsOrder ==
    ASSUME NEW rank \in [Pages -> Nat], IInv, Ordered(rank), UNCHANGED headVars,
           NEW p \in Producers, InitPage(p), m_initial_page = NoPage
    PROVE  Ordered(rank)'
<1>1. prod[p] \in Producer /\ ProducerOK(p) /\ prod \in [Producers -> Producer] /\ CreationPlaced(p)
  BY Typed DEF IInv, TypeOK, TailTypeOK, Ordered, CreationOK
<1>2. PICK new : new = prod[p].new_page
  OBVIOUS
<1>3. /\ UNCHANGED <<m_head, cons, m_next, m_tail, content, status, pool, pinners>>
      /\ \A q \in Producers \ {p} : prod'[q] = prod[q]
      /\ prod[p].pc = "init_page" /\ prod'[p].pc = "init_tail" /\ prod'[p].new_page = new
      /\ prod'[p].control = prod[p].control /\ prod'[p].next = prod[p].next
      /\ prod'[p].flags = prod[p].flags /\ prod'[p].puts = prod[p].puts
      /\ prod'[p].pinned = prod[p].pinned /\ prod'[p].tail = prod[p].tail
      /\ m_initial_page' = new
  BY <1>2, PageStored
<1>4. Joins(p, new)
  BY <1>2, PageStored
<1>5. /\ new \in Pages /\ new \in NewPages /\ new \notin LinkedPages
      /\ \A y : y \in NewPages' <=> y # new /\ y \in NewPages
      /\ \A y : y \in LinkedPages' <=> y = new \/ y \in LinkedPages
      /\ m_next[End(new)] = InvalidNextPage
  BY <1>2, PageStored
<1>6. LinkedPages = {} /\ m_head = NoBlock /\ m_tail = InvalidBlock
  BY <1>2, PageStored
<1>7. First' = FirstBlock(new) /\ PageOf(First') = new /\ First'[2] = 0
  BY <1>2, PageStored
<1>8. \A y : Open(y)' <=> y = new
  BY <1>2, PageStored
<1>9. PagesOrdered(rank)'
  <2>1. PageOrdered(rank, new)' <=>
           /\ rank[new] <= rank[new]
           /\ \A y \in LinkedPages' : rank[new] = rank[y] => new = y
           /\ \/ \A y \in LinkedPages' : rank[y] <= rank[new]
              \/ \E y \in LinkedPages' : /\ m_next'[End(new)] = NextWord(FirstBlock(y), {"dead"})
                                         /\ rank[y] = rank[new] + 1
    BY <1>7, <1>8 DEF PageOrdered
  <2> QED
    BY <1>5, <1>6, <2>1 DEF PagesOrdered
<1>10. HeadPlace'
  BY <1>3, <1>5, <1>7, <1>8, BaseAssumption DEF HeadPlace
<1>11. TailPlace'
  <2>1. TailSlot(new)' = 0
    BY <1>3, <1>5, <1>6, BaseAssumption DEF TailSlot, PageOf, InvalidBlock
  <2>2. \A y : Open(y)' => y = new
    BY <1>8
  <2> QED
    BY <1>3, <1>6, <1>7, <1>8, <2>1, <2>2 DEF TailPlace
<1>12. CreationOK'
  <2>1. ASSUME NEW q \in Producers PROVE CreationPlaced(q)'
    <3>1. CASE q = p
      BY <1>1, <1>3, <3>1 DEF CreationPlaced
    <3>2. CASE q # p
      <4>1. CreationPlaced(q) /\ prod'[q] = prod[q] /\ ProducerOK(q) /\ prod[q] \in Producer
        BY <1>3, <3>2, Typed DEF Ordered, CreationOK
      <4>2. prod[q].pc \in {"create_page", "link_page", "discard_page", "advance_tail"} =>
                PageOf(prod[q].tail) # new /\ prod[q].tail # m_tail
        BY <1>5, <1>6, <4>1, Addresses DEF CreationPlaced
      <4>3. prod[q].pc # "discard_initial" /\ prod[q].pc # "init_tail"
        BY <4>1, Addresses, BaseAssumption DEF CreationPlaced, ProducerOK
      <4> QED
        BY <1>3, <1>5, <1>8, <4>1, <4>2, <4>3 DEF CreationPlaced
    <3> QED
      BY <3>1, <3>2
  <2> QED
    BY <2>1 DEF CreationOK
<1> QED
  BY <1>3, <1>4, <1>6, <1>7, <1>8, <1>9, <1>10, <1>11, <1>12, JoinsKeepOrder DEF Reserves

---------------------------------------------------------------------------
(* The tail moves *)

\* The blocks of the last page end before the tail: the next one is free.
LEMMA FreeAtTail ==
    ASSUME NEW rank, IInv, Ordered(rank), Open(PageOf(m_tail)), m_tail \in Block, m_tail[2] < EndSlot
    PROVE  /\ Inner(m_tail) /\ m_next[m_tail] = Zero /\ Reserving(m_tail) = {}
           /\ \A b, e \in Block : Inner(b) /\ PageOf(b) = PageOf(m_tail) /\ Spans(b, e) =>
                 b[2] < e[2] /\ e[2] <= m_tail[2]
<1>1. Inner(m_tail)
  BY DEF Ordered, TailPlace, TailSlot, Open, Inner, Live
<1>2. \A b, e \in Block : Inner(b) /\ PageOf(b) = PageOf(m_tail) /\ Spans(b, e) =>
         b[2] < e[2] /\ e[2] <= m_tail[2]
  BY DEF Ordered, BlocksApart, BlockApart, TailSlot
<1>3. \A e \in Block : ~Spans(m_tail, e)
  BY <1>1, <1>2, Spots
<1>4. Reserving(m_tail) = {}
  <2>1. \A q \in Reserving(m_tail) : ReservedEnd(q) \in Block
    BY ReservedBlock DEF Reserving, Stores
  <2> QED
    BY <1>3, <2>1 DEF Spans
<1>5. m_next[m_tail].to \in BlockOrNull
  BY Typed DEF NextPtr
<1>6. IsEnd(m_next[m_tail])
  BY <1>3, <1>5, Addresses DEF Spans, IsEnd
<1>7. m_next[m_tail] = Zero
  BY <1>1, <1>6 DEF Ordered, BlocksApart
<1> QED
  BY <1>1, <1>2, <1>4, <1>7

\* p moves the tail into x, the last page, or along it: then it reserves the
\* block from where the tail was.
MovesTail(p, x) ==
    /\ UNCHANGED headVars /\ UNCHANGED baseVars
    /\ \A q \in Producers \ {p} : prod'[q] = prod[q]
    /\ Open(x) /\ m_tail' \in Block /\ PageOf(m_tail') = x
    /\ PageOf(m_tail) = x => m_tail[2] < EndSlot /\ m_tail[2] <= m_tail'[2]
    /\ ~Created(prod[p].pc) /\ ~Created(prod'[p].pc) /\ ~Reserves(prod[p].pc)
    /\ prod[p].pc \notin {"idle", "pending", "fill"} /\ prod'[p].pc \notin {"idle", "pending", "fill"}
    /\ prod'[p].pc \notin {"recheck", "create_page", "link_page", "discard_page", "advance_tail",
                           "discard_initial", "init_tail"}
    /\ prod'[p].control = prod[p].control /\ prod'[p].next = prod[p].next
    /\ prod'[p].flags = prod[p].flags /\ prod'[p].puts = prod[p].puts /\ prod'[p].pinned = prod[p].pinned
    /\ Reserves(prod'[p].pc) => /\ prod'[p].tail = m_tail /\ PageOf(m_tail) = x
                                /\ m_tail[2] < m_tail'[2] /\ ReservedEnd(p)' = m_tail'

\* What comes after it is only that block.
LEMMA TailMoved ==
    ASSUME NEW rank \in [Pages -> Nat], IInv, Ordered(rank), NEW p \in Producers, NEW x, MovesTail(p, x)
    PROVE  /\ \A q \in Producers \ {p} : prod'[q] = prod[q]
           /\ cons' = cons /\ m_head' = m_head /\ m_initial_page' = m_initial_page /\ m_next' = m_next
           /\ content' = content /\ pool' = pool /\ pinners' = pinners /\ status' = status
           /\ First' = First
           /\ NewPages' = NewPages /\ LinkedPages' = LinkedPages
           /\ \A b : Live(b)' <=> Live(b)
           /\ \A b : Inner(b)' <=> Inner(b)
           /\ \A y : Open(y)' <=> Open(y)
           /\ \A b : Inner(b) => b \in Block /\ PageOf(b) \in LinkedPages /\ b[2] < EndSlot
           /\ \A y : Open(y) => y = x
           /\ Open(x) /\ x \in LinkedPages /\ PageOf(m_tail') = x /\ m_tail' \in Block
           /\ TailSlot(x)' = m_tail'[2] /\ TailSlot(x) \in Nat /\ TailSlot(x) <= m_tail'[2]
           /\ \A b : \A q \in Producers \ {p} : q \in Reserving(b)' <=> q \in Reserving(b)
           /\ \A q \in Producers \ {p} : ReservedEnd(q)' = ReservedEnd(q)
           /\ \A b : p \notin Reserving(b)
           /\ \A b : p \in Reserving(b)' <=> Reserves(prod'[p].pc) /\ b = m_tail
           /\ \A b : Reserving(b) \subseteq Producers /\ Reserving(b)' \subseteq Producers
           /\ \A b, e \in Block : Spans(b, e)' <=> \/ Spans(b, e)
                                                   \/ Reserves(prod'[p].pc) /\ b = m_tail /\ e = m_tail'
           /\ Reserves(prod'[p].pc) =>
                 /\ m_tail \in Block /\ Inner(m_tail) /\ m_next[m_tail] = Zero /\ Reserving(m_tail) = {}
                 /\ \A b, e \in Block : Inner(b) /\ PageOf(b) = PageOf(m_tail) /\ Spans(b, e) =>
                       b[2] < e[2] /\ e[2] <= m_tail[2]
<1> USE DEF MovesTail
<1>1. /\ \A q \in Producers \ {p} : prod'[q] = prod[q]
      /\ cons' = cons /\ m_head' = m_head /\ m_initial_page' = m_initial_page /\ m_next' = m_next
      /\ content' = content /\ pool' = pool /\ pinners' = pinners /\ status' = status
      /\ First' = First
  BY DEF headVars, baseVars, First
<1>2. NewPages' = NewPages /\ LinkedPages' = LinkedPages
  <2>1. NewPages' = NewPages
    BY NewPagesKept
  <2>2. LeftPages' = LeftPages
    BY <1>1 DEF LeftPages
  <2> QED
    BY <1>1, <2>1, <2>2 DEF LinkedPages
<1>3. /\ \A b : Live(b)' <=> Live(b)
      /\ \A b : Inner(b)' <=> Inner(b)
      /\ \A y : Open(y)' <=> Open(y)
      /\ \A b : Inner(b) => b \in Block /\ PageOf(b) \in LinkedPages /\ b[2] < EndSlot
  BY <1>1, <1>2, PlaceKept DEF Open, Inner, Live
<1>4. \A y : Open(y) => y = x
  BY OneOpen DEF Ordered
<1>5. Open(x) /\ x \in LinkedPages /\ PageOf(m_tail') = x /\ m_tail' \in Block
  BY DEF Open
<1>6. TailSlot(x)' = m_tail'[2] /\ TailSlot(x) \in Nat /\ TailSlot(x) <= m_tail'[2]
  <2>1. TailSlot(x)' = m_tail'[2] /\ m_tail'[2] \in Nat
    BY <1>5, Spots DEF TailSlot
  <2>2. PageOf(m_tail) = x => m_tail[2] \in Nat
    BY Typed, Spots DEF InvalidBlock
  <2> QED
    BY <2>1, <2>2 DEF TailSlot
<1>7. /\ \A b : \A q \in Producers \ {p} : q \in Reserving(b)' <=> q \in Reserving(b)
      /\ \A q \in Producers \ {p} : ReservedEnd(q)' = ReservedEnd(q)
      /\ \A b : p \notin Reserving(b)
      /\ \A b : p \in Reserving(b)' <=> Reserves(prod'[p].pc) /\ b = m_tail
      /\ \A b : Reserving(b) \subseteq Producers /\ Reserving(b)' \subseteq Producers
  BY <1>1 DEF Reserving, Reserves, ReservedEnd, PAt
<1>8. \A b, e \in Block : Spans(b, e)' <=> \/ Spans(b, e)
                                           \/ Reserves(prod'[p].pc) /\ b = m_tail /\ e = m_tail'
  BY <1>1, <1>7 DEF Spans
<1>9. Reserves(prod'[p].pc) =>
         /\ m_tail \in Block /\ Inner(m_tail) /\ m_next[m_tail] = Zero /\ Reserving(m_tail) = {}
         /\ \A b, e \in Block : Inner(b) /\ PageOf(b) = PageOf(m_tail) /\ Spans(b, e) =>
               b[2] < e[2] /\ e[2] <= m_tail[2]
  <2>1. x # NoPage
    BY <1>5, BaseAssumption DEF LinkedPages
  <2>2. Reserves(prod'[p].pc) => m_tail \in Block
    BY <2>1, Typed DEF InvalidBlock, PageOf
  <2> QED
    BY <1>5, <2>2, FreeAtTail
<1> QED
  BY <1>1, <1>2, <1>3, <1>4, <1>5, <1>6, <1>7, <1>8, <1>9

\* It is free, and it comes after all the others.
LEMMA TailMovesKeepOrder ==
    ASSUME NEW rank \in [Pages -> Nat], IInv, Ordered(rank), NEW p \in Producers, NEW x, MovesTail(p, x)
    PROVE  Ordered(rank)'
<1> USE DEF MovesTail
<1>1. /\ \A q \in Producers \ {p} : prod'[q] = prod[q]
      /\ cons' = cons /\ m_head' = m_head /\ m_initial_page' = m_initial_page /\ m_next' = m_next
      /\ content' = content /\ pool' = pool /\ pinners' = pinners /\ status' = status
      /\ First' = First
  BY TailMoved
<1>2. NewPages' = NewPages /\ LinkedPages' = LinkedPages
  BY TailMoved
<1>3. /\ \A b : Live(b)' <=> Live(b)
      /\ \A b : Inner(b)' <=> Inner(b)
      /\ \A y : Open(y)' <=> Open(y)
      /\ \A b : Inner(b) => b \in Block /\ PageOf(b) \in LinkedPages /\ b[2] < EndSlot
  BY TailMoved
<1>4. OthersKept(rank, p)' /\ (\A y : InBlock(y) => InBlock(y)') /\ (\A y : BeingWiped(y)' <=> BeingWiped(y))
  <2>1. ProducerWrites(p, {}) /\ OwnPages(p, {})
    BY <1>1, <1>2 DEF ProducerWrites, OwnPages
  <2> QED
    BY <1>1, <1>2, <2>1, ProducerKeepsOthers
<1>5. \A y : Open(y) => y = x
  BY TailMoved
<1>6. Open(x) /\ x \in LinkedPages /\ PageOf(m_tail') = x /\ m_tail' \in Block
  BY TailMoved
<1>7. PagesOrdered(rank)'
  BY <1>1, <1>2, <1>3 DEF Ordered, PagesOrdered, PageOrdered
<1>8. HeadPlace'
  <2>1. m_initial_page # NoPage
    BY <1>6 DEF Ordered, HeadPlace
  <2> QED
    BY <1>1, <1>2, <1>3, <2>1 DEF Ordered, HeadPlace
<1>9. TailSlot(x)' = m_tail'[2] /\ TailSlot(x) \in Nat /\ TailSlot(x) <= m_tail'[2]
  BY TailMoved
<1>10. TailPlace'
  <2>1. \A y \in LinkedPages' : Open(y)' /\ PageOf(First') = y => First'[2] <= TailSlot(y)'
    <3>1. PageOf(First) = x => First[2] <= TailSlot(x) /\ First[2] \in Nat
      BY <1>6, Typed, Spots DEF Ordered, TailPlace
    <3>2. PageOf(First) = x => First[2] <= TailSlot(x)'
      BY <1>6, <1>9, <3>1, Spots
    <3> QED
      BY <1>1, <1>3, <1>5, <3>2
  <2> QED
    BY <1>3, <1>6, <2>1, Addresses DEF TailPlace
<1>11. NewPagesBlank'
  <2>1. \A q \in Producers : /\ Creates(q)' <=> Creates(q)
                             /\ Creates(q) => prod'[q] = prod[q]
    BY <1>1 DEF Creates, Created
  <2> QED
    BY <1>1, <2>1 DEF Ordered, NewPagesBlank, NewPageBlank
<1>12. /\ \A b : \A q \in Producers \ {p} : q \in Reserving(b)' <=> q \in Reserving(b)
       /\ \A q \in Producers \ {p} : ReservedEnd(q)' = ReservedEnd(q)
       /\ \A b : p \notin Reserving(b)
       /\ \A b : p \in Reserving(b)' <=> Reserves(prod'[p].pc) /\ b = m_tail
       /\ \A b : Reserving(b) \subseteq Producers /\ Reserving(b)' \subseteq Producers
  BY TailMoved
<1>13. \A b, e \in Block : Spans(b, e)' <=> \/ Spans(b, e)
                                            \/ Reserves(prod'[p].pc) /\ b = m_tail /\ e = m_tail'
  BY TailMoved
<1>14. Reserves(prod'[p].pc) =>
          /\ m_tail \in Block /\ Inner(m_tail) /\ m_next[m_tail] = Zero /\ Reserving(m_tail) = {}
          /\ \A b, e \in Block : Inner(b) /\ PageOf(b) = PageOf(m_tail) /\ Spans(b, e) =>
                b[2] < e[2] /\ e[2] <= m_tail[2]
  BY TailMoved
<1>15. BlocksApart'
  <2>1. ASSUME NEW a \in Block, NEW e \in Block, Inner(a)', Spans(a, e) PROVE BlockApart(a, e)'
    <3>1. BlockApart(a, e) /\ Inner(a)
      BY <1>3, <2>1 DEF Ordered, BlocksApart
    <3>2. Open(PageOf(a))' => e[2] <= TailSlot(PageOf(a))'
      <4>1. PICK y : y = PageOf(a)
        OBVIOUS
      <4>2. Open(y)' => y = x
        BY <1>3, <1>5
      <4>3. Open(y) => e[2] <= TailSlot(y)
        BY <3>1, <4>1 DEF BlockApart
      <4>4. Open(y)' => e[2] <= TailSlot(y)'
        BY <1>3, <1>6, <1>9, <4>2, <4>3, Spots
      <4> QED
        BY <4>1, <4>4
    <3>3. ASSUME Reserves(prod'[p].pc), SamePage(a, m_tail), a[2] <= m_tail[2]
          PROVE  a # m_tail /\ e[2] <= m_tail[2]
      BY <1>14, <2>1, <3>1, <3>3, Spots DEF SamePage
    <3> QED
      BY <1>3, <1>13, <3>1, <3>2, <3>3 DEF BlockApart
  <2>2. ASSUME Reserves(prod'[p].pc), NEW a, a = m_tail, NEW e, e = m_tail' PROVE BlockApart(a, e)'
    <3>1. /\ SamePage(a, e) /\ a[2] < e[2] /\ PageOf(a) = x /\ a \in Block /\ e \in Block
      BY <1>6, <1>14, <2>2 DEF SamePage
    <3>2. e[2] <= TailSlot(x)'
      BY <1>9, <2>2, <3>1, Spots
    <3>3. ASSUME NEW b \in Block, SamePage(a, b), a[2] <= b[2], Inner(b), NEW g \in Block, Spans(b, g)'
          PROVE  IF a = b THEN e = g ELSE e[2] <= b[2]
      <4>1. ~Spans(b, g)
        BY <1>14, <2>2, <3>1, <3>3, Spots DEF SamePage
      <4>2. b = m_tail /\ g = m_tail'
        BY <1>13, <3>3, <4>1
      <4> QED
        BY <2>2, <4>2
    <3> QED
      BY <1>3, <3>1, <3>2, <3>3 DEF BlockApart
  <2>3. ASSUME NEW a \in Block, NEW e \in Block, Inner(a)', Spans(a, e)' PROVE BlockApart(a, e)'
    <3>1. CASE Spans(a, e)
      BY <2>1, <2>3, <3>1
    <3>2. CASE Reserves(prod'[p].pc) /\ a = m_tail /\ e = m_tail'
      BY <2>2, <3>2
    <3> QED
      BY <1>13, <2>3, <3>1, <3>2
  <2>4. \A a \in Block : Inner(a)' /\ IsEnd(m_next'[a]) => m_next'[a] = Zero
    BY <1>1, <1>3 DEF Ordered, BlocksApart
  <2> QED
    BY <2>3, <2>4 DEF BlocksApart
<1>16. ReservationsOK'
  <2>1. \A q \in Producers \ {p} : /\ ReservationOK(q)'
                                   /\ Stores(q)' <=> Stores(q)
                                   /\ Stores(q) => q \in Reserving(prod[q].tail)
    BY <1>1, <1>4 DEF OthersKept, Stores, Reserving
  <2>2. Stores(p)' <=> Reserves(prod'[p].pc)
    BY DEF Stores, Reserves
  <2>3. ReservationOK(p)'
    BY <1>1, <1>3, <1>14, <2>2 DEF ReservationOK
  <2>4. \A q \in Producers \ {p} : Stores(q) /\ Stores(p)' => prod[q].tail # prod'[p].tail
    BY <1>14, <2>1, <2>2
  <2>5. \A q \in Producers : ReservationOK(q)'
    BY <2>1, <2>3
  <2>6. \A q, r \in Producers : Stores(q)' /\ Stores(r)' /\ q # r => prod'[q].tail # prod'[r].tail
    <3>1. \A q, r \in Producers : Stores(q) /\ Stores(r) /\ q # r => prod[q].tail # prod[r].tail
      BY DEF Ordered, ReservationsOK
    <3> QED
      BY <1>1, <2>1, <2>4, <3>1
  <2> QED
    BY <2>5, <2>6 DEF ReservationsOK
<1>17. LeftBehind' /\ ConsumersPlaced'
  BY <1>4 DEF OthersKept
<1>18. \A q \in Producers : /\ Putting(q)' <=> Putting(q)
                            /\ prod'[q].control = prod[q].control /\ prod'[q].next = prod[q].next
  BY <1>1 DEF Putting
<1>19. OwnersOK'
  <2>1. \A q \in Producers : PutterOwns(q)'
    BY <1>1, <1>3, <1>18 DEF Ordered, OwnersOK, PutterOwns
  <2>2. \A c \in Consumers : (Takes(c)' <=> Takes(c)) /\ TakerOwns(c)'
    BY <1>1, <1>4 DEF Takes, At, OthersKept
  <2> QED
    BY <1>1, <1>18, <2>1, <2>2 DEF Ordered, OwnersOK
<1>20. PutsOK(rank)'
  <2>1. PutOK(rank, p)'
    <3>1. Putting(p) /\ Reserves(prod'[p].pc) => Before(rank, prod[p].control, m_tail)
      <4> SUFFICES ASSUME Putting(p), Reserves(prod'[p].pc), rank[PageOf(prod[p].control)] >= rank[x],
                          NEW b, b = prod[p].control
                   PROVE  PageOf(b) = x /\ b[2] < m_tail[2]
        <5>1. rank[PageOf(prod[p].control)] \in Nat \/ ~Putting(p)
          BY <1>3 DEF Ordered, OwnersOK, PutterOwns, LinkedPages
        <5>2. rank[x] \in Nat
          BY <1>6 DEF LinkedPages
        <5> QED
          BY <5>1, <5>2 DEF Before
      <4>1. Inner(b) /\ m_next[b].to \in Block
        BY Typed DEF Ordered, OwnersOK, PutterOwns, Putting, ProducerOK
      <4>2. PageOf(b) \in LinkedPages /\ rank[PageOf(b)] \in Nat /\ rank[x] \in Nat
        BY <1>3, <1>6, <4>1 DEF LinkedPages
      <4>3. PageOrdered(rank, x) /\ PageOrdered(rank, PageOf(b))
        BY <1>6, <4>2 DEF Ordered, PagesOrdered
      <4>4. \A y : m_next[End(x)] # NextWord(FirstBlock(y), {"dead"})
        BY DEF Open, InvalidNextPage, NextWord
      <4>5. rank[PageOf(b)] <= rank[x]
        BY <4>2, <4>3, <4>4 DEF PageOrdered
      <4>6. PageOf(b) = x
        BY <1>6, <4>2, <4>3, <4>5 DEF PageOrdered
      <4>7. Spans(b, m_next[b].to)
        BY DEF Spans
      <4> QED
        BY <1>3, <1>14, <4>1, <4>6, <4>7, Spots
    <3> QED
      BY <1>18, <3>1 DEF Ordered, PutsOK, PutOK, Reserves, Before
  <2>2. \A q \in Producers \ {p} : PutOK(rank, q)'
    BY <1>4 DEF OthersKept
  <2> QED
    BY <2>1, <2>2 DEF PutsOK
<1>21. CreationOK'
  <2>1. CreationPlaced(p)'
    BY <1>1 DEF Ordered, CreationOK, CreationPlaced
  <2>2. ASSUME NEW q \in Producers \ {p} PROVE CreationPlaced(q)'
    <3>1. CreationPlaced(q) /\ prod'[q] = prod[q]
      BY <1>1 DEF Ordered, CreationOK
    <3>2. prod[q].pc \in {"create_page", "link_page", "discard_page", "advance_tail"} =>
             ~Open(PageOf(prod[q].tail)) /\ prod[q].tail # m_tail'
      <4> SUFFICES ASSUME prod[q].pc \in {"create_page", "link_page", "discard_page", "advance_tail"},
                          Open(PageOf(prod[q].tail))
                   PROVE  FALSE
        BY <1>6
      <4>1. m_tail = prod[q].tail /\ PageOf(m_tail) = x /\ m_tail[2] = EndSlot
        BY <1>5, <3>1 DEF CreationPlaced
      <4> QED
        BY <4>1, Spots
    <3>3. Open(PageOf(prod[q].tail))' => Open(PageOf(prod[q].tail))
      <4>1. PICK y : y = PageOf(prod[q].tail)
        OBVIOUS
      <4> QED
        BY <1>3, <3>1, <4>1
    <3> QED
      BY <1>1, <1>2, <3>1, <3>2, <3>3 DEF CreationPlaced
  <2> QED
    BY <2>1, <2>2 DEF CreationOK
<1>22. ElementsOK' /\ ContentsWiped'
  <2>1. PutElementOK(p)'
    <3>1. PutElementOK(p)
      BY DEF Ordered, ElementsOK
    <3> QED
      BY <1>1, <3>1 DEF PutElementOK, Putting, Current, PAt
  <2>2. \A b \in Block : ReadyBlock(b)' => ReadyBlock(b)
    BY <1>1, <1>3 DEF ReadyBlock
  <2> QED
    BY <1>1, <1>4, <2>1, <2>2, ElementsKept
<1> QED
  BY <1>7, <1>8, <1>10, <1>11, <1>15, <1>16, <1>17, <1>19, <1>20, <1>21, <1>22 DEF Ordered

\* The tail goes to the page after its own, or to the first one.
LEMMA NextPageMoves ==
    ASSUME NEW rank \in [Pages -> Nat], IInv, Ordered(rank), UNCHANGED headVars, m_rest = 0,
           NEW p \in Producers,
           \/ AdvanceTail(p) /\ m_tail = prod[p].tail
           \/ InitTail(p) /\ m_tail = InvalidBlock
    PROVE  \E x : MovesTail(p, x) /\ PageOf(m_tail) # x /\ m_tail'[2] = 0
<1>1. prod[p] \in Producer /\ ProducerOK(p) /\ prod \in [Producers -> Producer] /\ CreationPlaced(p)
  BY Typed DEF IInv, TypeOK, TailTypeOK, Ordered, CreationOK
<1>2. PICK x : x = prod[p].new_page
  OBVIOUS
<1>3. /\ UNCHANGED baseVars /\ m_tail' = FirstBlock(x)
      /\ \A q \in Producers \ {p} : prod'[q] = prod[q]
      /\ prod[p].pc \in {"advance_tail", "init_tail"} /\ prod'[p].pc \in {"unpin_end", "try"}
      /\ prod'[p].control = prod[p].control /\ prod'[p].next = prod[p].next
      /\ prod'[p].flags = prod[p].flags /\ prod'[p].puts = prod[p].puts
      /\ prod'[p].pinned = prod[p].pinned
  BY <1>1, <1>2 DEF AdvanceTail, InitTail, TailIs, PAt, Producer
<1>4. x \in Pages /\ Open(x) /\ PageOf(m_tail) # x
  <2>1. x \in Pages
    BY <1>1, <1>2, <1>3 DEF ProducerOK
  <2>2. CASE AdvanceTail(p) /\ m_tail = prod[p].tail
    BY <1>1, <1>2, <2>1, <2>2 DEF AdvanceTail, PAt, CreationPlaced
  <2>3. CASE InitTail(p) /\ m_tail = InvalidBlock
    <3>1. m_initial_page = x /\ x # NoPage
      BY <1>1, <1>2, <2>1, <2>3, BaseAssumption DEF InitTail, PAt, CreationPlaced
    <3> QED
      BY <2>1, <2>3, <3>1 DEF Ordered, TailPlace, InvalidBlock, PageOf
  <2> QED
    BY <2>2, <2>3
<1>5. m_tail' \in Block /\ PageOf(m_tail') = x /\ m_tail'[2] = 0
  BY <1>3, <1>4, Addresses DEF FirstBlock, PageOf
<1>6. MovesTail(p, x)
  BY <1>3, <1>4, <1>5 DEF Reserves, Created, MovesTail
<1> QED
  BY <1>4, <1>5, <1>6

LEMMA NextPageKeepsOrder ==
    ASSUME NEW rank \in [Pages -> Nat], IInv, Ordered(rank), UNCHANGED headVars, m_rest = 0,
           NEW p \in Producers,
           \/ AdvanceTail(p) /\ m_tail = prod[p].tail
           \/ InitTail(p) /\ m_tail = InvalidBlock
    PROVE  Ordered(rank)'
BY NextPageMoves, TailMovesKeepOrder

\* The tail moves along its page.
LEMMA AlongPageMoves ==
    ASSUME NEW rank \in [Pages -> Nat], IInv, Ordered(rank), UNCHANGED headVars, UNCHANGED baseVars,
           NEW p \in Producers, prod[p].pc = "try", Reserves(prod'[p].pc),
           m_tail \in Block, NEW n \in Nat, n > 0, m_tail' = NewTail(m_tail, n), m_tail[2] + n <= EndSlot,
           \A q \in Producers \ {p} : prod'[q] = prod[q],
           prod'[p].control = prod[p].control, prod'[p].next = prod[p].next,
           prod'[p].flags = prod[p].flags, prod'[p].puts = prod[p].puts, prod'[p].pinned = prod[p].pinned,
           prod'[p].tail = m_tail, ReservedEnd(p)' = m_tail'
    PROVE  \E x : MovesTail(p, x)
<1>1. PICK x : x = PageOf(m_tail)
  OBVIOUS
<1>2. /\ m_tail[2] \in Nat /\ m_tail[2] < EndSlot /\ m_tail' \in Block /\ PageOf(m_tail') = x
      /\ m_tail[2] < m_tail'[2] /\ m_tail[2] <= m_tail'[2]
  BY <1>1, Spots, BlockAfter DEF NewTail, PageOf
<1>3. Open(x)
  BY <1>1, <1>2, Addresses DEF Ordered, TailPlace
<1>4. MovesTail(p, x)
  BY <1>1, <1>2, <1>3 DEF Reserves, Created, MovesTail
<1> QED
  BY <1>4
==========================================================================
