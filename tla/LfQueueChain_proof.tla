------------------------ MODULE LfQueueChain_proof -----------------------
(***************************************************************************)
(* The types of the consume layer and of what the two put layers share,    *)
(* what ConsumerOK and ProducerOK say of each thread, the bounds of the    *)
(* tail and the pins of the consumers.                                     *)
(***************************************************************************)
EXTENDS LfQueueChain, TLAPS

---------------------------------------------------------------------------
(* Addresses *)

\* Addresses: what is in a block's page, and which addresses are blocks.
LEMMA Addresses ==
    /\ \A b \in Block : PageOf(b) \in Pages /\ b # NoBlock /\ b # InvalidBlock
    /\ \A b \in BlockOrNull : b # NoBlock => b \in Block
    /\ \A p \in Pages : FirstBlock(p) \in Block
    /\ FirstBlock(NoPage) = NoBlock
    /\ \A b \in Block : EndBlock(b) \in Block
BY BaseAssumption DEF Block, BlockOrNull, NoBlock, InvalidBlock, PageOf, FirstBlock, EndBlock, Slots

\* A block that ends within the page of another is a block of that page.
LEMMA BlockAfter ==
    ASSUME NEW b \in Block, NEW n \in Nat, b[2] + n <= EndSlot
    PROVE  <<b[1], b[2] + n>> \in Block
BY BaseAssumption DEF Block, Slots

---------------------------------------------------------------------------
(* The consume layer *)

\* What every step of the consume layer keeps.
HeadInv == BaseTypeOK /\ HeadTypeOK /\ WordsOK /\ ConsumersOK /\ ControlPinned

\* The conjuncts about the Consumes only.
ConsInv == cons \in [Consumers -> Consume] /\ ConsumersOK /\ ControlPinned

\* The states that AfterLoad leads to, and what is known of the word loaded.
LEMMA Loaded ==
    ASSUME NEW mode \in Mode, NEW n \in NextPtr
    PROVE  /\ AfterLoad(mode, n) \in {"nothing", "found", "try_busy", "advance", "move", "idle"}
           /\ AfterLoad(mode, n) \in {"try_busy", "move"} => n.to \in Block
           /\ AfterLoad(mode, n) = "advance" => IsDead(n)
<1>1. IsEnd(n) \/ n.to \in Block
  BY Addresses DEF NextPtr, IsEnd
<1> QED
  BY <1>1 DEF AfterLoad, Mode

\* A word has been read in a block of a pinned page, or there is no block.
LEMMA Entered ==
    ASSUME ConsInv, NEW c \in Consumers, NEW b \in BlockOrNull, NEW n \in NextPtr,
           n.flags \cap {"busy", "dead"} # {} => n.to \in Block,
           b = NoBlock => n = Zero,
           b # NoBlock => c \in pinners[PageOf(b)],
           Enter(c, b, n), UNCHANGED pinners
    PROVE  ConsInv'
<1> DEFINE to == AfterLoad(cons[c].mode, n)
<1>1. cons[c] \in Consume
  BY DEF ConsInv
<1>2. cons[c].mode \in Mode
  BY <1>1 DEF Consume
<1>3. /\ to \in {"nothing", "found", "try_busy", "advance", "move", "idle"}
      /\ to \in {"try_busy", "move", "advance"} => n.to \in Block
  BY <1>2, Loaded DEF IsDead
<1>4. b = NoBlock => to \in {"nothing", "idle"}
  BY <1>2 DEF AfterLoad, Zero, IsEnd, IsDead, Mode
<1>5. cons' = [cons EXCEPT ![c].pc = to, ![c].control = b, ![c].target = NoBlock,
                           ![c].next = IF to = "idle" THEN Zero ELSE n]
  BY DEF Enter
<1> HIDE DEF to
<1>6. Zero \in NextPtr /\ NoBlock \in BlockOrNull /\ (b # NoBlock => b \in Block)
  BY Addresses DEF Zero, NextPtr, BlockOrNull
<1>7. cons' \in [Consumers -> Consume]
  BY <1>1, <1>3, <1>5, <1>6 DEF Consume, ConsumerPC, ConsInv
<1>8. ConsumersOK'
  BY <1>1, <1>3, <1>4, <1>5, <1>6 DEF ConsInv, Consume, ConsumersOK, ConsumerOK
<1>9. ControlPinned'
  BY <1>1, <1>3, <1>5, <1>6 DEF ConsInv, Consume, ControlPinned
<1> QED
  BY <1>7, <1>8, <1>9 DEF ConsInv

\* A consumer has gone on to the head it has just read.
LEMMA Followed ==
    ASSUME ConsInv, NEW c \in Consumers, NEW head \in Block,
           FollowHead(c, head), UNCHANGED pinners
    PROVE  ConsInv'
<1>1. cons[c] \in Consume /\ head \in BlockOrNull
  BY DEF ConsInv, BlockOrNull
<1>2. SamePage(cons[c].control, head) => cons[c].control \in Block
  BY <1>1, Addresses, BaseAssumption DEF SamePage, Consume, NoBlock, PageOf
<1>3. cons' \in [Consumers -> Consume]
  BY <1>1 DEF FollowHead, Consume, ConsumerPC, ConsInv
<1>4. ConsumersOK'
  BY <1>1, <1>2 DEF FollowHead, ConsInv, Consume, ConsumersOK, ConsumerOK, SamePage
<1>5. ControlPinned'
  BY <1>1 DEF FollowHead, ConsInv, Consume, ControlPinned
<1> QED
  BY <1>3, <1>4, <1>5 DEF ConsInv

\* Reading the head and pinning its page.
LEMMA BeginIteration ==
    ASSUME HeadInv, NEW c \in Consumers,
           \/ LoadHead(c) \/ ReloadHead(c) \/ LoadInitialPage(c) \/ InitHead(c)
           \/ PinHead(c) \/ UnpinOld(c) \/ LoadHeadNext(c)
    PROVE  HeadInv'
<1> USE DEF HeadInv
<1>1. cons[c] \in Consume /\ m_head \in BlockOrNull /\ c \in Holder
  BY DEF HeadTypeOK, Holder
<1>2. ConsInv /\ (m_head # NoBlock => m_head \in Block)
  BY <1>1, Addresses DEF HeadTypeOK, ConsInv
<1>3. ASSUME NEW pc \in {"reload_head", "initial_page"}, Goto(c, pc), UNCHANGED pinners
      PROVE  ConsInv'
  BY <1>1, <1>2, <1>3 DEF ConsInv, Goto, Consume, ConsumerPC, ConsumersOK, ConsumerOK, ControlPinned
<1>4. CASE LoadHead(c) \/ ReloadHead(c)
  <2>1. UNCHANGED <<baseVars, m_head, history>>
    BY <1>4 DEF LoadHead, ReloadHead
  <2>2. ConsInv'
    BY <1>2, <1>3, <1>4, <2>1, Followed DEF LoadHead, ReloadHead, baseVars
  <2> QED
    BY <2>1, <2>2 DEF baseVars, history, BaseTypeOK, HeadTypeOK, WordsOK, ConsInv
<1>5. CASE LoadInitialPage(c)
  <2>1. FirstBlock(m_initial_page) \in BlockOrNull
    BY Addresses DEF BaseTypeOK, BlockOrNull
  <2>2. ConsInv'
    BY <1>1, <1>2, <1>5, <2>1 DEF LoadInitialPage, baseVars, ConsInv, Consume, ConsumerPC,
       ConsumersOK, ConsumerOK, ControlPinned
  <2> QED
    BY <1>5, <2>2 DEF LoadInitialPage, baseVars, history, BaseTypeOK, HeadTypeOK, WordsOK, ConsInv
<1>6. CASE InitHead(c)
  <2>1. m_head' \in BlockOrNull /\ (m_head' # NoBlock => m_head' \in Block)
    BY <1>1, <1>2, <1>6, Addresses DEF InitHead, Consume
  <2>2. cons[c].control \in BlockOrNull /\ Zero \in NextPtr
    BY <1>1 DEF Consume, Zero, NextPtr, BlockOrNull
  <2>3. cons[c].control # NoBlock => c \in pinners[PageOf(cons[c].control)]
    BY DEF ControlPinned
  <2>4. CASE m_head' = NoBlock
    <3>1. AfterLoad(cons[c].mode, Zero) \in {"nothing", "idle"}
      BY <1>1 DEF AfterLoad, Zero, IsEnd, IsDead, Mode, Consume
    <3>2. ConsInv'
      BY <1>1, <1>2, <1>6, <2>2, <2>4, <3>1 DEF InitHead, Enter, ConsInv, Consume, ConsumerPC,
         ConsumersOK, ConsumerOK, ControlPinned, baseVars, BlockOrNull
    <3> QED
      BY <1>6, <2>1, <3>2 DEF InitHead, baseVars, history, BaseTypeOK, HeadTypeOK, WordsOK, ConsInv
  <2>5. CASE m_head' # NoBlock
    <3>1. ConsInv'
      BY <1>2, <1>6, <2>1, <2>5, Followed DEF InitHead, baseVars
    <3> QED
      BY <1>6, <2>1, <3>1 DEF InitHead, baseVars, history, BaseTypeOK, HeadTypeOK, WordsOK, ConsInv
  <2> QED
    BY <2>4, <2>5
<1>7. CASE PinHead(c)
  <2>1. cons[c].target \in Block /\ PageOf(cons[c].target) \in Pages
    BY <1>1, <1>7, Addresses DEF PinHead, At, ConsumersOK, ConsumerOK
  <2>2. pinners' \in [Pages -> SUBSET Holder]
    BY <1>1, <1>7, <2>1 DEF PinHead, Pin, BaseTypeOK
  <2>3. cons' \in [Consumers -> Consume]
    BY <1>1, <1>7 DEF PinHead, Goto, HeadTypeOK, Consume, ConsumerPC, BlockOrNull
  <2>4. ConsumersOK'
    BY <1>1, <1>7, Addresses DEF PinHead, At, Goto, HeadTypeOK, Consume, ConsumersOK, ConsumerOK
  <2>5. ControlPinned'
    BY <1>1, <1>7, <2>1, Addresses DEF PinHead, At, Pin, Goto, HeadTypeOK, Consume, ControlPinned, BaseTypeOK, ConsumersOK, ConsumerOK
  <2> QED
    BY <1>7, <2>2, <2>3, <2>4, <2>5 DEF PinHead, history, BaseTypeOK, HeadTypeOK, WordsOK
<1>8. CASE UnpinOld(c)
  <2>1. cons[c].target \in Block /\ cons[c].control \in Block
        /\ ~SamePage(cons[c].control, cons[c].target)
    BY <1>1, <1>8 DEF UnpinOld, At, ConsumersOK, ConsumerOK
  <2>2. pinners' \in [Pages -> SUBSET Holder]
    BY <1>1, <1>8 DEF UnpinOld, Unpin, BaseTypeOK
  <2>3. cons' \in [Consumers -> Consume]
    BY <1>1, <1>8 DEF UnpinOld, HeadTypeOK, Consume, ConsumerPC, BlockOrNull
  <2>4. ConsumersOK'
    BY <1>1, <1>8 DEF UnpinOld, At, HeadTypeOK, Consume, ConsumersOK, ConsumerOK
  <2>5. ControlPinned'
    BY <1>1, <1>8, <2>1, Addresses DEF UnpinOld, At, Unpin, HeadTypeOK, Consume, ControlPinned, BaseTypeOK, ConsumersOK, ConsumerOK, SamePage
  <2> QED
    BY <1>8, <2>2, <2>3, <2>4, <2>5 DEF UnpinOld, history, BaseTypeOK, HeadTypeOK, WordsOK
<1>9. CASE LoadHeadNext(c)
  <2>1. /\ cons[c].target \in Block /\ cons[c].control \in Block
        /\ SamePage(cons[c].control, cons[c].target)
    BY <1>1, <1>9 DEF LoadHeadNext, At, ConsumersOK, ConsumerOK
  <2>2. m_next[cons[c].target] \in NextPtr
    BY <2>1 DEF BaseTypeOK
  <2>3. c \in pinners[PageOf(cons[c].target)] /\ cons[c].target # NoBlock
    BY <2>1, Addresses DEF ControlPinned, SamePage
  <2>4. ConsInv'
    BY <1>2, <1>9, <2>1, <2>2, <2>3, Entered DEF LoadHeadNext, baseVars, WordsOK, BlockOrNull
  <2> QED
    BY <1>9, <2>4 DEF LoadHeadNext, baseVars, history, BaseTypeOK, HeadTypeOK, WordsOK, ConsInv
<1> QED
  BY <1>4, <1>5, <1>6, <1>7, <1>8, <1>9

\* Calling and leaving start_consume_impl and is_queue_empty.
LEMMA StartAndReturn ==
    ASSUME HeadInv, NEW c \in Consumers,
           \/ Start(c, "consume") \/ Start(c, "empty")
           \/ TryBusy(c) \/ Return(c)
    PROVE  HeadInv'
<1> USE DEF HeadInv
<1>1. cons[c] \in Consume /\ Ready \subseteq Element
  BY DEF HeadTypeOK, Ready
<1>2. Zero \in NextPtr
  BY DEF Zero, NextPtr, BlockOrNull
<1>3. CASE Start(c, "consume") \/ Start(c, "empty")
  <2> PICK mode \in {"consume", "empty"} : Start(c, mode)
    BY <1>3
  <2>1. /\ cons[c].pc = "idle"
        /\ cons' = [cons EXCEPT ![c].pc = "begin", ![c].mode = mode]
        /\ sawEmpty' \in {sawEmpty \cup {c}, sawEmpty \ {c}}
        /\ waiting' = [waiting EXCEPT ![c] = Ready]
        /\ UNCHANGED <<baseVars, m_head>>
    BY DEF Start, At
  <2>2. cons' \in [Consumers -> Consume]
    BY <1>1, <2>1 DEF HeadTypeOK, Consume, ConsumerPC, Mode
  <2>3. ConsumersOK'
    BY <1>1, <2>1 DEF HeadTypeOK, Consume, ConsumersOK, ConsumerOK
  <2>4. ControlPinned'
    BY <1>1, <2>1 DEF HeadTypeOK, Consume, ControlPinned, baseVars
  <2>5. sawEmpty' \subseteq Consumers /\ waiting' \in [Consumers -> SUBSET Element]
    BY <1>1, <2>1 DEF HeadTypeOK
  <2> QED
    BY <2>1, <2>2, <2>3, <2>4, <2>5 DEF baseVars, BaseTypeOK, HeadTypeOK, WordsOK
<1>4. CASE Return(c)
  <2>1. cons' \in [Consumers -> Consume]
    BY <1>1, <1>2, <1>4 DEF Return, HeadTypeOK, Consume, ConsumerPC
  <2>2. ConsumersOK'
    BY <1>1, <1>4 DEF Return, HeadTypeOK, Consume, ConsumersOK, ConsumerOK
  <2>3. ControlPinned'
    BY <1>1, <1>4 DEF Return, HeadTypeOK, Consume, ControlPinned, baseVars
  <2>4. sawEmpty' \subseteq Consumers /\ waiting' \in [Consumers -> SUBSET Element]
    BY <1>4 DEF Return, HeadTypeOK
  <2> QED
    BY <1>4, <2>1, <2>2, <2>3, <2>4 DEF Return, baseVars, BaseTypeOK, HeadTypeOK, WordsOK
<1>5. CASE TryBusy(c)
  <2> DEFINE b == cons[c].control
             n == cons[c].next
  <2>1. b \in Block /\ n.to \in Block /\ n \in NextPtr /\ m_next[b] \in NextPtr
    BY <1>1, <1>5 DEF TryBusy, At, ConsumersOK, ConsumerOK, Consume, BaseTypeOK
  <2>2. CASE m_next[b] = n
    <3>1. /\ m_next' = [m_next EXCEPT ![b].flags = @ \cup {"busy"}]
          /\ cons' = [cons EXCEPT ![c].pc = "consuming", ![c].next.flags = @ \cup {"dead"}]
          /\ status' = [status EXCEPT ![ElementOf(content[b])] = "consuming"]
      BY <1>5, <2>2 DEF TryBusy
    <3>2. m_next' \in [Block -> NextPtr] /\ WordsOK'
      BY <2>1, <2>2, <3>1 DEF BaseTypeOK, WordsOK, NextPtr, Flag
    <3>3. status' \in [Element -> Status]
      BY <3>1 DEF BaseTypeOK, Status
    <3>4. cons' \in [Consumers -> Consume]
      BY <1>1, <3>1 DEF HeadTypeOK, Consume, ConsumerPC, NextPtr, Flag
    <3>5. ConsumersOK'
      BY <1>1, <2>1, <3>1 DEF HeadTypeOK, Consume, NextPtr, ConsumersOK, ConsumerOK
    <3>6. ControlPinned'
      BY <1>1, <1>5, <3>1 DEF TryBusy, HeadTypeOK, Consume, ControlPinned
    <3>7. sawEmpty' \subseteq Consumers /\ waiting' \in [Consumers -> SUBSET Element]
      <4>1. Searching \subseteq Consumers
        BY DEF Searching
      <4>2. sawEmpty' = (IF Ready' = {} THEN Searching ELSE sawEmpty) \ {c}
            /\ waiting' = [d \in Consumers |-> IF d = c THEN {} ELSE waiting[d] \cap Ready']
        BY <1>5, <2>2 DEF TryBusy
      <4> QED
        BY <4>1, <4>2 DEF HeadTypeOK
    <3> QED
      BY <1>5, <3>2, <3>3, <3>4, <3>5, <3>6, <3>7 DEF TryBusy, BaseTypeOK, HeadTypeOK
  <2>3. CASE m_next[b] # n
    <3>1. /\ cons' = [cons EXCEPT ![c].next = m_next[b],
                                  ![c].pc = IF IsEnd(m_next[b]) THEN "begin" ELSE "move"]
          /\ UNCHANGED <<m_next, status, history>>
      BY <1>5, <2>3 DEF TryBusy
    <3>2. cons' \in [Consumers -> Consume]
      BY <1>1, <2>1, <3>1 DEF HeadTypeOK, Consume, ConsumerPC
    <3>3. IsEnd(m_next[b]) \/ m_next[b].to \in Block
      BY <2>1, Addresses DEF NextPtr, IsEnd
    <3>4. ConsumersOK'
      BY <1>1, <2>1, <3>1, <3>3 DEF HeadTypeOK, Consume, ConsumersOK, ConsumerOK
    <3>5. ControlPinned'
      BY <1>1, <1>5, <3>1 DEF TryBusy, HeadTypeOK, Consume, ControlPinned
    <3> QED
      BY <1>5, <3>1, <3>2, <3>4, <3>5 DEF TryBusy, history, BaseTypeOK, HeadTypeOK, WordsOK
  <2> QED
    BY <2>2, <2>3
<1> QED
  BY <1>3, <1>4, <1>5

\* A Consume goes on in the same block.
LEMMA Stays ==
    ASSUME ConsInv, NEW c \in Consumers,
           NEW pc \in {"free_external", "zero", "memset", "free_page", "move"},
           cons[c].control \in Block, cons[c].next.to \in Block,
           Goto(c, pc), UNCHANGED pinners
    PROVE  ConsInv'
<1>1. cons[c] \in Consume
  BY DEF ConsInv
<1>2. cons' \in [Consumers -> Consume]
  BY <1>1 DEF Goto, Consume, ConsumerPC, ConsInv
<1>3. ConsumersOK'
  BY <1>1 DEF Goto, ConsInv, Consume, ConsumersOK, ConsumerOK
<1>4. ControlPinned'
  BY <1>1 DEF Goto, ConsInv, Consume, ControlPinned
<1> QED
  BY <1>2, <1>3, <1>4 DEF ConsInv

\* advance_head: from the compare-exchange of m_head to the page given back.
LEMMA AdvanceHeadSteps ==
    ASSUME HeadInv, NEW c \in Consumers,
           \/ AdvanceHead(c) \/ FreeExternal(c) \/ ZeroControl(c) \/ Memset(c)
           \/ DeallocatePage(c)
    PROVE  HeadInv'
<1> USE DEF HeadInv
<1>1. ConsInv /\ cons[c] \in Consume
  BY DEF HeadTypeOK, ConsInv
<1>2. cons[c].control \in Block /\ cons[c].next.to \in Block
  BY DEF AdvanceHead, FreeExternal, ZeroControl, Memset, DeallocatePage, At, ConsumersOK, ConsumerOK
<1>3. AfterAdvance(cons[c].control, cons[c].next) \in {"move", "zero"}
  BY DEF AfterAdvance
<1>4. CASE AdvanceHead(c)
  <2>1. m_head' \in BlockOrNull
    BY <1>2, <1>4 DEF AdvanceHead, HeadTypeOK, BlockOrNull
  <2>2. ConsInv'
    BY <1>1, <1>2, <1>3, <1>4, Stays DEF AdvanceHead, baseVars
  <2> QED
    BY <1>4, <2>1, <2>2 DEF AdvanceHead, baseVars, history, BaseTypeOK, HeadTypeOK, WordsOK, ConsInv
<1>5. CASE FreeExternal(c)
  <2>1. ConsInv'
    BY <1>1, <1>2, <1>3, <1>5, Stays DEF FreeExternal
  <2> QED
    BY <1>5, <2>1 DEF FreeExternal, history, BaseTypeOK, HeadTypeOK, WordsOK, ConsInv
<1>6. CASE ZeroControl(c)
  <2>1. ConsInv'
    BY <1>1, <1>2, <1>6, Stays DEF ZeroControl
  <2>2. m_next' \in [Block -> NextPtr] /\ WordsOK'
    BY <1>2, <1>6 DEF ZeroControl, BaseTypeOK, WordsOK, Zero, NextPtr, BlockOrNull
  <2> QED
    BY <1>6, <2>1, <2>2 DEF ZeroControl, history, BaseTypeOK, HeadTypeOK, ConsInv
<1>7. CASE Memset(c)
  <2>1. ConsInv'
    BY <1>1, <1>2, <1>7, Stays DEF Memset
  <2>2. content' \in [Block -> Item \cup {NoItem}]
    BY <1>7 DEF Memset, BaseTypeOK
  <2> QED
    BY <1>7, <2>1, <2>2 DEF Memset, history, BaseTypeOK, HeadTypeOK, WordsOK, ConsInv
<1>8. CASE DeallocatePage(c)
  <2>1. ConsInv'
    BY <1>1, <1>2, <1>8, Stays DEF DeallocatePage
  <2>2. pool' \in [Pages -> {"zeroed", "uninitialized", "queue"}]
    BY <1>8 DEF DeallocatePage, BaseTypeOK
  <2> QED
    BY <1>8, <2>1, <2>2 DEF DeallocatePage, history, BaseTypeOK, HeadTypeOK, WordsOK, ConsInv
<1> QED
  BY <1>4, <1>5, <1>6, <1>7, <1>8


\* The page that an unpinned page gives way to stays pinned.
LEMMA Left ==
    ASSUME ConsInv, pinners \in [Pages -> SUBSET Holder], NEW c \in Consumers,
           cons[c].pc \in {"unpin_old", "unpin_left", "unpin_left_restart"},
           Unpin(c, PageOf(cons[c].control)),
           NEW pc \in {"begin", "load_next"},
           cons' = [cons EXCEPT ![c].pc = pc, ![c].control = cons[c].target,
                                ![c].target = NoBlock]
    PROVE  ConsInv' /\ pinners' \in [Pages -> SUBSET Holder]
<1>1. cons[c] \in Consume /\ NoBlock \in BlockOrNull
  BY DEF ConsInv, BlockOrNull
<1>2. /\ cons[c].target \in Block /\ cons[c].control \in Block
      /\ ~SamePage(cons[c].control, cons[c].target)
      /\ c \in pinners[PageOf(cons[c].target)]
  BY DEF ConsInv, ConsumersOK, ConsumerOK, ControlPinned
<1>3. pinners' \in [Pages -> SUBSET Holder]
  BY DEF Unpin
<1>4. cons' \in [Consumers -> Consume]
  BY <1>1 DEF ConsInv, Consume, ConsumerPC
<1>5. ConsumersOK'
  BY <1>1, <1>2 DEF ConsInv, Consume, ConsumersOK, ConsumerOK
<1>6. ControlPinned'
  BY <1>1, <1>2, Addresses DEF ConsInv, Unpin, Consume, ControlPinned, SamePage
<1> QED
  BY <1>3, <1>4, <1>5, <1>6 DEF ConsInv

\* move_next: from one block to the next, from one page to the next.
LEMMA MoveNextSteps ==
    ASSUME HeadInv, NEW c \in Consumers,
           MoveNext(c) \/ Reread(c) \/ UnpinLeft(c) \/ LoadNext(c)
    PROVE  HeadInv'
<1> USE DEF HeadInv
<1>1. ConsInv /\ cons[c] \in Consume /\ c \in Holder
  BY DEF HeadTypeOK, ConsInv, Holder
<1>2. cons[c].control \in Block
  BY DEF MoveNext, Reread, UnpinLeft, LoadNext, At, ConsumersOK, ConsumerOK
<1>3. c \in pinners[PageOf(cons[c].control)]
  BY <1>2, Addresses DEF ControlPinned
<1>4. CASE MoveNext(c)
  <2> DEFINE to == cons[c].next.to
  <2>1. to \in Block
    BY <1>4 DEF MoveNext, At, ConsumersOK, ConsumerOK
  <2>2. CASE SamePage(cons[c].control, to)
    <3>1. m_next[to] \in NextPtr /\ to # NoBlock /\ to \in BlockOrNull
      BY <2>1, Addresses DEF BaseTypeOK, BlockOrNull
    <3>2. ConsInv'
      BY <1>1, <1>3, <1>4, <2>1, <2>2, <3>1, Entered DEF MoveNext, SamePage, WordsOK
    <3> QED
      BY <1>4, <2>2, <3>2 DEF MoveNext, history, BaseTypeOK, HeadTypeOK, WordsOK, ConsInv
  <2>3. CASE ~SamePage(cons[c].control, to)
    <3>1. /\ pinners' = [pinners EXCEPT ![PageOf(to)] = @ \cup {c}]
          /\ cons' = [cons EXCEPT ![c].pc = "reread", ![c].target = to]
      BY <1>4, <2>3 DEF MoveNext, Pin
    <3>2. pinners' \in [Pages -> SUBSET Holder]
      BY <1>1, <3>1 DEF BaseTypeOK
    <3>3. cons' \in [Consumers -> Consume]
      BY <1>1, <2>1, <3>1 DEF HeadTypeOK, Consume, ConsumerPC, BlockOrNull
    <3>4. ConsumersOK'
      BY <1>1, <1>2, <2>1, <2>3, <3>1 DEF HeadTypeOK, Consume, ConsumersOK, ConsumerOK
    <3>5. ControlPinned'
      BY <1>1, <2>1, <3>1, Addresses DEF HeadTypeOK, BaseTypeOK, Consume, ControlPinned
    <3> QED
      BY <1>4, <3>2, <3>3, <3>4, <3>5 DEF MoveNext, history, BaseTypeOK, HeadTypeOK, WordsOK
  <2> QED
    BY <2>2, <2>3
<1>5. CASE Reread(c)
  <2>1. cons[c].pc = "reread" /\ UNCHANGED <<baseVars, m_head, history>>
    BY <1>5 DEF Reread, At
  <2>2. PICK pc \in {"unpin_left", "unpin_left_restart"} : cons' = [cons EXCEPT ![c].pc = pc]
    BY <1>5 DEF Reread, Goto
  <2>3. cons' \in [Consumers -> Consume]
    BY <1>1, <2>2 DEF HeadTypeOK, Consume, ConsumerPC
  <2>4. ConsumersOK'
    BY <1>1, <2>1, <2>2 DEF HeadTypeOK, Consume, ConsumersOK, ConsumerOK
  <2>5. ControlPinned'
    BY <1>1, <2>1, <2>2 DEF HeadTypeOK, Consume, ControlPinned, baseVars
  <2> QED
    BY <2>1, <2>3, <2>4, <2>5 DEF baseVars, history, BaseTypeOK, HeadTypeOK, WordsOK
<1>6. CASE UnpinLeft(c)
  <2>1. ConsInv' /\ pinners' \in [Pages -> SUBSET Holder]
    BY <1>1, <1>6, Left DEF UnpinLeft, BaseTypeOK
  <2> QED
    BY <1>6, <2>1 DEF UnpinLeft, history, BaseTypeOK, HeadTypeOK, WordsOK, ConsInv
<1>7. CASE LoadNext(c)
  <2>1. m_next[cons[c].control] \in NextPtr /\ cons[c].control # NoBlock
        /\ cons[c].control \in BlockOrNull
    BY <1>2, Addresses DEF BaseTypeOK, BlockOrNull
  <2>2. ConsInv'
    BY <1>1, <1>2, <1>3, <1>7, <2>1, Entered DEF LoadNext, baseVars, WordsOK
  <2> QED
    BY <1>7, <2>2 DEF LoadNext, baseVars, history, BaseTypeOK, HeadTypeOK, WordsOK, ConsInv
<1> QED
  BY <1>4, <1>5, <1>6, <1>7

\* The end of a consume operation, and of a Consume.
LEMMA EndConsume ==
    ASSUME HeadInv, NEW c \in Consumers,
           CommitConsume(c) \/ CancelConsume(c) \/ DestroyConsume(c)
    PROVE  HeadInv'
<1> USE DEF HeadInv
<1>1. ConsInv /\ cons[c] \in Consume
  BY DEF HeadTypeOK, ConsInv
<1>2. Zero \in NextPtr /\ NoBlock \in BlockOrNull
  BY DEF Zero, NextPtr, BlockOrNull
<1>3. CASE CommitConsume(c) \/ CancelConsume(c)
  <2>1. cons[c].control \in Block /\ cons[c].next.to \in Block /\ cons[c].next \in NextPtr
    BY <1>1, <1>3 DEF CommitConsume, CancelConsume, At, ConsumersOK, ConsumerOK, Consume
  <2>2. PICK f \in SUBSET Flag :
          m_next' = [m_next EXCEPT ![cons[c].control] = NextWord(cons[c].next.to, f)]
    <3>1. cons[c].next = NextWord(cons[c].next.to, cons[c].next.flags)
      BY <2>1 DEF NextPtr, NextWord
    <3> QED
      BY <1>3, <2>1, <3>1 DEF CommitConsume, CancelConsume, NextPtr
  <2>3. m_next' \in [Block -> NextPtr] /\ WordsOK'
    BY <2>1, <2>2 DEF BaseTypeOK, WordsOK, NextWord, NextPtr, BlockOrNull
  <2>4. status' \in [Element -> Status]
    BY <1>3 DEF CommitConsume, CancelConsume, BaseTypeOK, Status
  <2>5. \/ cons' = [cons EXCEPT ![c].pc = "advance", ![c].mode = "clean"]
        \/ cons' = [cons EXCEPT ![c].pc = "idle", ![c].next = Zero]
    BY <1>3 DEF CommitConsume, CancelConsume
  <2>6. cons' \in [Consumers -> Consume]
    BY <1>1, <1>2, <2>5 DEF HeadTypeOK, Consume, ConsumerPC, Mode
  <2>7. ConsumersOK'
    BY <1>1, <2>1, <2>5 DEF HeadTypeOK, Consume, ConsumersOK, ConsumerOK
  <2>8. ControlPinned'
    BY <1>1, <1>3, <2>5 DEF CommitConsume, CancelConsume, HeadTypeOK, Consume, ControlPinned
  <2> QED
    BY <1>3, <2>3, <2>4, <2>6, <2>7, <2>8 DEF CommitConsume, CancelConsume, history,
       BaseTypeOK, HeadTypeOK
<1>4. CASE DestroyConsume(c)
  <2>1. pinners' \in [Pages -> SUBSET Holder]
    BY <1>4 DEF DestroyConsume, Unpin, BaseTypeOK
  <2>2. cons' \in [Consumers -> Consume]
    BY <1>1, <1>2, <1>4 DEF DestroyConsume, HeadTypeOK, Consume
  <2>3. ConsumersOK'
    BY <1>1, <1>4 DEF DestroyConsume, At, HeadTypeOK, Consume, ConsumersOK, ConsumerOK
  <2>4. ControlPinned'
    BY <1>1, <1>4, Addresses DEF DestroyConsume, At, Unpin, HeadTypeOK, BaseTypeOK, Consume, ControlPinned
  <2> QED
    BY <1>4, <2>1, <2>2, <2>3, <2>4 DEF DestroyConsume, history, BaseTypeOK, HeadTypeOK, WordsOK
<1> QED
  BY <1>3, <1>4

\* Every step of a consumer.
LEMMA ConsumerKeepsHeadInv ==
    ASSUME HeadInv, NEW c \in Consumers, ConsumerNext(c)
    PROVE  HeadInv'
BY BeginIteration, StartAndReturn, AdvanceHeadSteps, MoveNextSteps, EndConsume
   DEF ConsumerNext, ConsumerStep

---------------------------------------------------------------------------
(* What the put layers share *)

\* What every step of the put layers keeps of their own.
TailInv == TailTypeOK /\ ProducersOK /\ TailOK

\* What every step of a producer preserves, the pins of consumers included.
MemoryOK == BaseTypeOK /\ WordsOK
PinsKept == \A q \in Pages : pinners[q] \cap Consumers \subseteq pinners'[q]

\* The blocks the tail can be at.
LEMMA TailBlocks ==
    /\ InvalidBlock[1] = NoPage /\ InvalidBlock[2] = EndSlot /\ InvalidBlock \notin Block
    /\ \A b \in Block : b[1] \in Pages /\ b[2] \in 0 .. EndSlot
    /\ \A b \in Block \cup {InvalidBlock} : b[2] < EndSlot => b \in Block
    /\ \A p \in Pages : FirstBlock(p)[2] = 0
    /\ NoBlock[2] = 0
BY BaseAssumption DEF InvalidBlock, NoBlock, Block, Slots, FirstBlock

\* One producer's record changes.
LEMMA Updated ==
    ASSUME prod \in [Producers -> Producer], ProducersOK, NEW p \in Producers,
           NEW r \in Producer, prod' = [prod EXCEPT ![p] = r], ProducerOK(p)'
    PROVE  prod' \in [Producers -> Producer] /\ ProducersOK'
<1>1. \A q \in Producers \ {p} : prod'[q] = prod[q]
  OBVIOUS
<1>2. \A q \in Producers \ {p} : ProducerOK(q)'
  BY <1>1 DEF ProducersOK, ProducerOK
<1> QED
  BY <1>2 DEF ProducersOK

\* The allocation loop goes round with a block that the tail can be at.
LEMMA Retried ==
    ASSUME prod \in [Producers -> Producer], ProducersOK, NEW p \in Producers,
           prod[p].pc \notin {"idle", "pending"},
           NEW b \in Block \cup {InvalidBlock}, NEW r \in Nat, b[2] + r <= EndSlot,
           Retry(p, b, r)
    PROVE  prod' \in [Producers -> Producer] /\ ProducersOK'
<1> DEFINE q == [prod[p] EXCEPT !.pc = "try", !.tail = b, !.rest = r]
<1>1. prod[p] \in Producer /\ ProducerOK(p)
  BY DEF ProducersOK
<1>2. prod' = [prod EXCEPT ![p] = q]
  BY DEF Retry
<1>3. q \in Producer
  BY <1>1 DEF Producer, ProducerPC, BlockOrNull
<1>4. /\ prod'[p].pc = "try" /\ prod'[p].tail = b /\ prod'[p].rest = r
      /\ prod'[p].puts = prod[p].puts /\ prod'[p].size = prod[p].size
      /\ prod'[p].control = prod[p].control /\ prod'[p].next = prod[p].next
  BY <1>1, <1>2 DEF Producer
<1>5. ProducerOK(p)'
  BY <1>1, <1>4 DEF ProducerOK
<1> QED
  BY <1>2, <1>3, <1>5, Updated

\* The allocation ends, with a block or without one.
LEMMA Ended ==
    ASSUME prod \in [Producers -> Producer], ProducersOK, NEW p \in Producers,
           prod[p].pc \notin {"idle", "pending"},
           \/ prod' = [prod EXCEPT ![p] = [NewProducer EXCEPT !.puts = prod[p].puts]]
           \/ prod' = [prod EXCEPT ![p] = Done(p, "pending")]
    PROVE  prod' \in [Producers -> Producer] /\ ProducersOK'
<1>1. prod[p] \in Producer /\ ProducerOK(p)
  BY DEF ProducersOK
<1>2. NoBlock \in BlockOrNull /\ Zero \in NextPtr
  BY DEF BlockOrNull, Zero, NextPtr
<1>3. CASE prod' = [prod EXCEPT ![p] = [NewProducer EXCEPT !.puts = prod[p].puts]]
  <2>1. [NewProducer EXCEPT !.puts = prod[p].puts] \in Producer
    BY <1>1, <1>2, TailAssumption, BaseAssumption DEF NewProducer, Producer, ProducerPC
  <2>2. ProducerOK(p)'
    BY <1>1, <1>3 DEF ProducerOK, NewProducer, Producer
  <2> QED
    BY <1>3, <2>1, <2>2, Updated
<1>4. CASE prod' = [prod EXCEPT ![p] = Done(p, "pending")]
  <2>1. Done(p, "pending") \in Producer
    BY <1>1, <1>2 DEF Done, Producer, ProducerPC
  <2>2. ProducerOK(p)'
    BY <1>1, <1>4 DEF ProducerOK, Done, Producer
  <2> QED
    BY <1>4, <2>1, <2>2, Updated
<1> QED
  BY <1>3, <1>4

\* LoadTail, and GiveUp, which also gives back an external block.
LEMMA LoadAndGiveUp ==
    ASSUME MemoryOK, TailInv, NEW p \in Producers, LoadTail(p) \/ GiveUp(p)
    PROVE  MemoryOK' /\ TailInv' /\ PinsKept
<1> USE DEF MemoryOK, TailInv
<1>1. CASE LoadTail(p)
  <2>1. prod' \in [Producers -> Producer] /\ ProducersOK'
    BY <1>1, TailBlocks, BaseAssumption, Retried DEF LoadTail, PAt, TailTypeOK, TailOK
  <2> QED
    BY <1>1, <2>1 DEF LoadTail, baseVars, BaseTypeOK, WordsOK, TailTypeOK, TailOK, PinsKept
<1>2. CASE GiveUp(p)
  <2>1. prod' \in [Producers -> Producer] /\ ProducersOK'
    BY <1>2, Ended DEF GiveUp, PAt, Fail, TailTypeOK
  <2>2. heap' \subseteq Item
    BY <1>2 DEF GiveUp, Fail, BaseTypeOK
  <2> QED
    BY <1>2, <2>1, <2>2 DEF GiveUp, BaseTypeOK, WordsOK, TailTypeOK, TailOK, PinsKept
<1> QED
  BY <1>1, <1>2
\* The user's part of the block is written.
LEMMA FillStep ==
    ASSUME MemoryOK, TailInv, NEW p \in Producers, Fill(p)
    PROVE  MemoryOK' /\ TailInv' /\ PinsKept
<1> USE DEF MemoryOK, TailInv
<1>1. prod[p] \in Producer /\ ProducerOK(p) /\ prod[p].pc = "fill"
  BY DEF TailTypeOK, ProducersOK, Fill, PAt
<1>2. Allocating(p) \in Item
  BY <1>1, BaseAssumption DEF ProducerOK, Allocating, Item, Producer
<1>3. content' \in [Block -> Item \cup {NoItem}]
  BY <1>2 DEF Fill, BaseTypeOK
<1>4. prod' \in [Producers -> Producer] /\ ProducersOK'
  BY <1>1, Ended DEF Fill, TailTypeOK
<1> QED
  BY <1>3, <1>4 DEF Fill, BaseTypeOK, WordsOK, TailTypeOK, TailOK, PinsKept

\* What the user decides: to put, to allocate, to commit or cancel.
LEMMA TransactionSteps ==
    ASSUME MemoryOK, TailInv, NEW p \in Producers, TransactionStep(p)
    PROVE  MemoryOK' /\ TailInv' /\ PinsKept
<1> USE DEF MemoryOK, TailInv
<1>1. prod[p] \in Producer /\ ProducerOK(p) /\ prod \in [Producers -> Producer]
  BY DEF TailTypeOK, ProducersOK
<1>2. ASSUME NEW q \in Producer, NEW i \in Item, NEW size \in Sizes, NEW f \in SUBSET Flag,
             q.puts \in 1 .. MaxPuts, q.control # NoBlock => q.next.to \in Block,
             Allocate(p, q, i, size, f)
      PROVE  heap' \subseteq Item /\ prod' \in [Producers -> Producer] /\ ProducersOK'
  <2> DEFINE sz == IF External(size) THEN 1 ELSE size
             fl == IF External(size) THEN f \cup {"external"} ELSE f
             r == [q EXCEPT !.pc = "load_tail", !.size = sz, !.flags = fl]
  <2>1. heap' \subseteq Item
    BY <1>2 DEF Allocate, BaseTypeOK
  <2>2. r \in Producer
    <3>1. sz \in Nat /\ fl \in SUBSET Flag
      BY TailAssumption DEF Flag
    <3> HIDE DEF sz, fl
    <3> QED
      BY <3>1 DEF Producer, ProducerPC
  <2>3. prod' = [prod EXCEPT ![p] = r]
    BY <1>2 DEF Allocate
  <2>4. /\ prod'[p].pc = "load_tail" /\ prod'[p].puts = q.puts /\ prod'[p].size > 0
        /\ prod'[p].control = q.control /\ prod'[p].next = q.next
    BY <1>1, <2>3, TailAssumption DEF Producer
  <2>5. ProducerOK(p)'
    BY <1>2, <2>4 DEF ProducerOK
  <2> QED
    BY <1>1, <2>1, <2>2, <2>3, <2>5, Updated
<1>3. ASSUME NEW size \in Sizes, NEW g \in Guarantees, StartPut(p, size, g)
      PROVE  MemoryOK' /\ TailInv' /\ PinsKept
  <2> DEFINE k == prod[p].puts + 1
             q == [NewProducer EXCEPT !.puts = k, !.guarantee = g]
  <2>1. k \in 1 .. MaxPuts /\ <<p, k, 0>> \in Item
    BY <1>1, <1>3, BaseAssumption DEF StartPut, Producer, Item
  <2>2. NoBlock \in BlockOrNull /\ Zero \in NextPtr /\ {"busy"} \in SUBSET Flag
    BY DEF BlockOrNull, Zero, NextPtr, Flag
  <2>3. q \in Producer /\ q.puts = k /\ q.control = NoBlock
    <3>1. k \in 0 .. MaxPuts /\ 0 \in 0 .. MaxRaw /\ 0 \in Nat
      BY <2>1, BaseAssumption
    <3> HIDE DEF k
    <3> QED
      BY <2>2, <3>1 DEF NewProducer, Producer, ProducerPC
  <2>4. Allocate(p, q, <<p, k, 0>>, size, {"busy"})
    BY <1>3 DEF StartPut
  <2> HIDE DEF k, q
  <2>5. heap' \subseteq Item /\ prod' \in [Producers -> Producer] /\ ProducersOK'
    BY <1>2, <1>3, <2>1, <2>2, <2>3, <2>4
  <2> QED
    BY <1>3, <2>5 DEF StartPut, BaseTypeOK, WordsOK, TailTypeOK, TailOK, PinsKept
<1>4. ASSUME NEW size \in Sizes, RawAllocate(p, size)
      PROVE  MemoryOK' /\ TailInv' /\ PinsKept
  <2> DEFINE k == prod[p].raws + 1
             q == [prod[p] EXCEPT !.raws = k]
  <2>1. prod[p].pc = "pending" /\ prod[p].puts \in 1 .. MaxPuts /\ k \in 1 .. MaxRaw
    BY <1>1, <1>4, BaseAssumption DEF RawAllocate, PAt, ProducerOK, Producer
  <2>2. q \in Producer /\ q.puts = prod[p].puts /\ q.control = prod[p].control
        /\ q.next = prod[p].next
    BY <1>1, <2>1 DEF Producer
  <2>3. <<p, prod[p].puts, k>> \in Item /\ {"dead"} \in SUBSET Flag
    BY <2>1, BaseAssumption DEF Item, Flag
  <2>4. Allocate(p, q, <<p, prod[p].puts, k>>, size, {"dead"})
    BY <1>4 DEF RawAllocate
  <2>5. q.control # NoBlock => q.next.to \in Block
    BY <1>1, <2>2 DEF ProducerOK
  <2> HIDE DEF k, q
  <2>6. heap' \subseteq Item /\ prod' \in [Producers -> Producer] /\ ProducersOK'
    BY <1>2, <1>4, <2>1, <2>2, <2>3, <2>4, <2>5
  <2> QED
    BY <1>4, <2>6 DEF RawAllocate, BaseTypeOK, WordsOK, TailTypeOK, TailOK, PinsKept
<1>5. ASSUME NEW f \in SUBSET Flag, NEW outcome \in Status, EndPut(p, f, outcome)
      PROVE  MemoryOK' /\ TailInv' /\ PinsKept
  <2>1. prod[p].control # NoBlock => prod[p].next.to \in Block
    BY <1>1 DEF ProducerOK
  <2>2. NoBlock \notin Block
    BY Addresses
  <2>3. m_next' = [m_next EXCEPT ![prod[p].control] = NextWord(prod[p].next.to, f)]
    BY <1>5 DEF EndPut
  <2>4. m_next' \in [Block -> NextPtr] /\ WordsOK'
    BY <2>1, <2>2, <2>3 DEF BaseTypeOK, WordsOK, NextPtr, NextWord, BlockOrNull
  <2>5. status' \in [Element -> Status]
    BY <1>5 DEF EndPut, BaseTypeOK
  <2>6. /\ prod' = [prod EXCEPT ![p] = [NewProducer EXCEPT !.puts = prod[p].puts]]
        /\ prod[p].pc = "pending"
    BY <1>5 DEF EndPut, PAt
  <2>7. NoBlock \in BlockOrNull /\ Zero \in NextPtr
    BY DEF BlockOrNull, Zero, NextPtr
  <2>8. [NewProducer EXCEPT !.puts = prod[p].puts] \in Producer
    BY <1>1, <2>7, BaseAssumption DEF NewProducer, Producer, ProducerPC
  <2>9. ProducerOK(p)'
    BY <1>1, <2>6 DEF ProducerOK, NewProducer, Producer
  <2>10. prod' \in [Producers -> Producer] /\ ProducersOK'
    BY <1>1, <2>6, <2>8, <2>9, Updated
  <2> QED
    BY <1>5, <2>4, <2>5, <2>10 DEF EndPut, BaseTypeOK, TailTypeOK, TailOK, PinsKept
<1>6. CASE CommitPut(p) \/ CancelPut(p)
  <2>1. prod[p].next.flags \subseteq Flag
    BY <1>1 DEF Producer, NextPtr
  <2>2. PICK f \in SUBSET Flag, outcome \in Status : EndPut(p, f, outcome)
    BY <1>6, <2>1 DEF CommitPut, CancelPut, Flag, Status
  <2> QED
    BY <1>5, <2>2
<1> QED
  BY <1>3, <1>4, <1>6 DEF TransactionStep

\* The PinGuard of the end block pins and unpins for the producer alone.
LEMMA ProducerPins ==
    ASSUME BaseTypeOK, NEW p \in Producers, NEW g \in {"end_block", "scoped_pin"}, NEW q,
           Pin(<<p, g>>, q) \/ Unpin(<<p, g>>, q)
    PROVE  pinners' \in [Pages -> SUBSET Holder] /\ PinsKept
<1>1. <<p, g>> \in Holder /\ <<p, g>> \notin Consumers
  BY BaseAssumption DEF Holder
<1>2. pinners' \in [Pages -> SUBSET Holder]
  BY <1>1 DEF BaseTypeOK, Pin, Unpin
<1>3. PinsKept
  BY <1>1 DEF BaseTypeOK, Pin, Unpin, PinsKept
<1> QED
  BY <1>2, <1>3

\* get_or_allocate_next_page, up to the creation of the page.
LEMMA CreateSteps ==
    ASSUME MemoryOK, TailInv, NEW p \in Producers,
           CreatePage(p) \/ CreatePageFails(p) \/ PinEnd(p) \/ RecheckTail(p)
    PROVE  MemoryOK' /\ TailInv' /\ PinsKept
<1> USE DEF MemoryOK, TailInv
<1>1. prod[p] \in Producer /\ ProducerOK(p) /\ prod \in [Producers -> Producer]
  BY DEF TailTypeOK, ProducersOK
<1>2. CASE CreatePage(p)
  <2>1. PICK q \in Pages :
          /\ pool' = [pool EXCEPT ![q] = "queue"]
          /\ m_next' = [m_next EXCEPT ![EndBlock(FirstBlock(q))] = InvalidNextPage]
          /\ prod' = [prod EXCEPT ![p].new_page = q, ![p].pc =
                        IF prod[p].tail = InvalidBlock THEN "init_page" ELSE "link_page"]
    BY <1>2 DEF CreatePage
  <2>2. pool' \in [Pages -> {"zeroed", "uninitialized", "queue"}]
    BY <2>1 DEF BaseTypeOK
  <2>3. m_next' \in [Block -> NextPtr] /\ WordsOK'
    BY <2>1 DEF BaseTypeOK, WordsOK, InvalidNextPage, NextPtr, BlockOrNull, Flag
  <2> DEFINE r == [prod[p] EXCEPT !.new_page = q, !.pc =
                     IF prod[p].tail = InvalidBlock THEN "init_page" ELSE "link_page"]
  <2>4. prod' = [prod EXCEPT ![p] = r] /\ r \in Producer
    BY <1>1, <2>1 DEF Producer, ProducerPC
  <2>5. prod[p].pc \in {"create_page", "try"}
    BY <1>2 DEF CreatePage, Creating, PAt
  <2>6. /\ prod'[p].pc = (IF prod[p].tail = InvalidBlock THEN "init_page" ELSE "link_page")
        /\ prod'[p].new_page = q /\ prod'[p].tail = prod[p].tail
        /\ prod'[p].rest = prod[p].rest /\ prod'[p].puts = prod[p].puts
        /\ prod'[p].size = prod[p].size /\ prod'[p].control = prod[p].control
        /\ prod'[p].next = prod[p].next
    BY <1>1, <2>1 DEF Producer
  <2>7. ProducerOK(p)'
    BY <1>1, <2>5, <2>6 DEF ProducerOK
  <2>8. prod' \in [Producers -> Producer] /\ ProducersOK'
    BY <1>1, <2>4, <2>7, Updated
  <2> QED
    BY <1>2, <2>2, <2>3, <2>8 DEF CreatePage, BaseTypeOK, TailTypeOK, TailOK, PinsKept
<1>3. CASE CreatePageFails(p)
  <2>1. PICK pc \in {"give_up", "unpin_failed"} : prod' = [prod EXCEPT ![p].pc = pc]
    BY <1>3 DEF CreatePageFails, PGoto
  <2>2. prod[p].pc \in {"create_page", "try"}
    BY <1>3 DEF CreatePageFails, Creating, PAt
  <2> DEFINE r == [prod[p] EXCEPT !.pc = pc]
  <2>3. prod' = [prod EXCEPT ![p] = r] /\ r \in Producer
    BY <1>1, <2>1 DEF Producer, ProducerPC
  <2>4. ProducerOK(p)'
    BY <1>1, <2>1, <2>2 DEF ProducerOK, Producer
  <2>5. prod' \in [Producers -> Producer] /\ ProducersOK'
    BY <1>1, <2>3, <2>4, Updated
  <2> QED
    BY <1>3, <2>5 DEF CreatePageFails, baseVars, BaseTypeOK, WordsOK, TailTypeOK, TailOK, PinsKept
<1>4. CASE PinEnd(p)
  <2>1. prod[p].pc = "try" /\ prod[p].tail \in Block
    BY <1>1, <1>4 DEF PinEnd, PAt, ProducerOK
  <2>2. PageOf(prod[p].tail) \in Pages
    BY <2>1, Addresses
  <2>3. pinners' \in [Pages -> SUBSET Holder] /\ PinsKept
    BY <1>4, ProducerPins DEF PinEnd
  <2> DEFINE r == [prod[p] EXCEPT !.pc = "recheck", !.pinned = PageOf(prod[p].tail)]
  <2>4. prod' = [prod EXCEPT ![p] = r] /\ r \in Producer
    BY <1>1, <1>4, <2>2 DEF PinEnd, Producer, ProducerPC
  <2>5. ProducerOK(p)'
    BY <1>1, <2>1, <2>4 DEF ProducerOK, Producer
  <2>6. prod' \in [Producers -> Producer] /\ ProducersOK'
    BY <1>1, <2>4, <2>5, Updated
  <2> QED
    BY <1>4, <2>3, <2>6 DEF PinEnd, BaseTypeOK, WordsOK, TailTypeOK, TailOK
<1>5. CASE RecheckTail(p)
  <2> DEFINE r == IF TailIs(prod[p].tail, 0) THEN [prod[p] EXCEPT !.pc = "create_page"]
                  ELSE [prod[p] EXCEPT !.pc = "unpin_end", !.tail = m_tail, !.rest = m_rest]
  <2>1. m_tail \in Block \cup {InvalidBlock} /\ m_rest \in Nat /\ m_tail[2] + m_rest <= EndSlot
    BY BaseAssumption DEF TailTypeOK, TailOK
  <2>2. prod[p].pc = "recheck" /\ prod' = [prod EXCEPT ![p] = r]
    BY <1>1, <1>5 DEF RecheckTail, PAt, PGoto
  <2>3. r \in Producer
    BY <1>1, <2>1 DEF Producer, ProducerPC, BlockOrNull
  <2>4. ProducerOK(p)'
    BY <1>1, <2>1, <2>2 DEF ProducerOK, Producer
  <2>5. prod' \in [Producers -> Producer] /\ ProducersOK'
    BY <1>1, <2>2, <2>3, <2>4, Updated
  <2> QED
    BY <1>5, <2>5 DEF RecheckTail, baseVars, BaseTypeOK, WordsOK, TailTypeOK, TailOK, PinsKept
<1> QED
  BY <1>2, <1>3, <1>4, <1>5

\* A page created for nothing is given back.
LEMMA Discarded ==
    ASSUME MemoryOK, NEW q, DiscardCreatedPage(q)
    PROVE  /\ m_next' \in [Block -> NextPtr] /\ WordsOK'
           /\ pool' \in [Pages -> {"zeroed", "uninitialized", "queue"}]
BY DEF MemoryOK, BaseTypeOK, WordsOK, DiscardCreatedPage, Zero, NextPtr, BlockOrNull

\* get_or_allocate_next_page, from the link of the page to the end.
LEMMA LinkSteps ==
    ASSUME MemoryOK, TailInv, NEW p \in Producers,
           \/ LinkPage(p) \/ DiscardPage(p) \/ AdvanceTail(p)
           \/ UnpinEnd(p) \/ UnpinFailed(p)
    PROVE  MemoryOK' /\ TailInv' /\ PinsKept
<1> USE DEF MemoryOK, TailInv
<1>1. prod[p] \in Producer /\ ProducerOK(p) /\ prod \in [Producers -> Producer]
  BY DEF TailTypeOK, ProducersOK
<1>2. NoBlock \in BlockOrNull /\ (\A b \in BlockOrNull : b # NoBlock => b \in Block)
      /\ PageOf(NoBlock) = NoPage
  BY Addresses DEF BlockOrNull, NoBlock, PageOf
<1>3. CASE LinkPage(p)
  <2>1. /\ prod[p].pc = "link_page" /\ prod[p].tail \in Block /\ prod[p].new_page \in Pages
        /\ m_next[prod[p].tail] \in NextPtr
    BY <1>1, <1>3 DEF LinkPage, PAt, ProducerOK, BaseTypeOK
  <2>2. FirstBlock(prod[p].new_page) \in Block
    BY <2>1, Addresses
  <2>3. m_next' \in [Block -> NextPtr] /\ WordsOK'
    BY <1>3, <2>1, <2>2 DEF LinkPage, BaseTypeOK, WordsOK, NextWord, NextPtr, BlockOrNull, Flag
  <2> DEFINE r == IF m_next[prod[p].tail] = InvalidNextPage
                  THEN [prod[p] EXCEPT !.pc = "advance_tail"]
                  ELSE [prod[p] EXCEPT !.pc = "discard_page", !.found = m_next[prod[p].tail].to]
  <2>4. prod' = [prod EXCEPT ![p] = r]
    BY <1>1, <1>3 DEF LinkPage, PGoto
  <2>5. r \in Producer
    BY <1>1, <2>1 DEF Producer, ProducerPC, NextPtr
  <2>6. ProducerOK(p)'
    BY <1>1, <2>1, <2>4 DEF ProducerOK, Producer
  <2>7. prod' \in [Producers -> Producer] /\ ProducersOK'
    BY <1>1, <2>4, <2>5, <2>6, Updated
  <2> QED
    BY <1>3, <2>3, <2>7 DEF LinkPage, BaseTypeOK, TailTypeOK, TailOK, PinsKept
<1>4. CASE DiscardPage(p)
  <2>1. /\ m_next' \in [Block -> NextPtr] /\ WordsOK'
        /\ pool' \in [Pages -> {"zeroed", "uninitialized", "queue"}]
    BY <1>4, Discarded DEF DiscardPage
  <2>2. prod[p].pc = "discard_page"
        /\ (prod[p].found # NoBlock => PageOf(prod[p].found) \in Pages)
        /\ PageOf(prod[p].found) \in Pages \cup {NoPage}
    BY <1>1, <1>2, <1>4, Addresses DEF DiscardPage, PAt, Producer
  <2> DEFINE pc == IF prod[p].found = NoBlock THEN "unpin_end" ELSE "advance_tail"
             page == PageOf(prod[p].found)
             r == [prod[p] EXCEPT !.pc = pc, !.new_page = page, !.found = NoBlock]
  <2>3. prod' = [prod EXCEPT ![p] = r]
    BY <1>1, <1>4 DEF DiscardPage
  <2>4. r \in Producer
    <3>1. pc \in ProducerPC /\ page \in Pages \cup {NoPage}
      BY <2>2 DEF ProducerPC
    <3> HIDE DEF pc, page
    <3> QED
      BY <1>1, <1>2, <3>1 DEF Producer
  <2>5. ProducerOK(p)'
    BY <1>1, <2>2, <2>3 DEF ProducerOK, Producer
  <2>6. prod' \in [Producers -> Producer] /\ ProducersOK'
    BY <1>1, <2>3, <2>4, <2>5, Updated
  <2> QED
    BY <1>4, <2>1, <2>6 DEF DiscardPage, BaseTypeOK, TailTypeOK, TailOK, PinsKept
<1>5. CASE AdvanceTail(p)
  <2>1. prod[p].pc = "advance_tail" /\ prod[p].new_page \in Pages
    BY <1>1, <1>5 DEF AdvanceTail, PAt, ProducerOK
  <2>2. FirstBlock(prod[p].new_page) \in Block /\ FirstBlock(prod[p].new_page)[2] = 0
    BY <2>1, Addresses, TailBlocks
  <2>3. m_tail' \in Block \cup {InvalidBlock} /\ m_rest' \in 0 .. EndSlot /\ TailOK'
    BY <1>5, <2>2, BaseAssumption DEF AdvanceTail, TailIs, TailTypeOK, TailOK
  <2> DEFINE r == [prod[p] EXCEPT !.pc = "unpin_end", !.tail = m_tail', !.rest = m_rest,
                                  !.new_page = NoPage]
  <2>4. prod' = [prod EXCEPT ![p] = r] /\ m_rest' = m_rest
    BY <1>1, <1>5 DEF AdvanceTail
  <2>5. r \in Producer
    <3>1. m_rest \in Nat /\ m_tail' \in BlockOrNull \cup {InvalidBlock}
      BY <2>3, BaseAssumption DEF TailTypeOK, BlockOrNull
    <3> HIDE DEF TailInv
    <3> QED
      BY <1>1, <3>1 DEF Producer, ProducerPC
  <2>6. ProducerOK(p)'
    BY <1>1, <2>1, <2>3, <2>4 DEF ProducerOK, Producer, TailOK
  <2>7. prod' \in [Producers -> Producer] /\ ProducersOK'
    BY <1>1, <2>4, <2>5, <2>6, Updated
  <2> QED
    BY <1>5, <2>3, <2>7 DEF AdvanceTail, baseVars, BaseTypeOK, WordsOK, TailTypeOK, PinsKept
<1>6. CASE UnpinEnd(p) \/ UnpinFailed(p)
  <2>1. pinners' \in [Pages -> SUBSET Holder] /\ PinsKept
    BY <1>6, ProducerPins DEF UnpinEnd, UnpinFailed
  <2>2. prod[p].pc \in {"unpin_end", "unpin_failed"}
    BY <1>6 DEF UnpinEnd, UnpinFailed, PAt
  <2>3. PICK pc \in {"try", "give_up"} :
          prod' = [prod EXCEPT ![p] = [prod[p] EXCEPT !.pinned = NoPage, !.pc = pc]]
    BY <1>1, <1>6 DEF UnpinEnd, UnpinFailed
  <2>4. [prod[p] EXCEPT !.pinned = NoPage, !.pc = pc] \in Producer
    BY <1>1 DEF Producer, ProducerPC
  <2>5. ProducerOK(p)'
    BY <1>1, <2>2, <2>3 DEF ProducerOK, Producer
  <2>6. prod' \in [Producers -> Producer] /\ ProducersOK'
    BY <1>1, <2>3, <2>4, <2>5, Updated
  <2> QED
    BY <1>6, <2>1, <2>6 DEF UnpinEnd, UnpinFailed, BaseTypeOK, WordsOK, TailTypeOK, TailOK
<1> QED
  BY <1>3, <1>4, <1>5, <1>6

\* create_initial_page, once the page is created.
LEMMA InitialSteps ==
    ASSUME MemoryOK, TailInv, NEW p \in Producers, InitialPage(p)
    PROVE  MemoryOK' /\ TailInv' /\ PinsKept
<1> USE DEF MemoryOK, TailInv
<1>1. prod[p] \in Producer /\ ProducerOK(p) /\ prod \in [Producers -> Producer]
  BY DEF TailTypeOK, ProducersOK
<1>2. NoBlock \in BlockOrNull
  BY DEF BlockOrNull
<1>3. CASE InitPage(p)
  <2>1. prod[p].pc = "init_page" /\ prod[p].new_page \in Pages
    BY <1>1, <1>3 DEF InitPage, PAt, ProducerOK
  <2>2. m_initial_page' \in Pages \cup {NoPage}
    BY <1>3, <2>1 DEF InitPage, BaseTypeOK
  <2>3. m_initial_page # NoPage => FirstBlock(m_initial_page) \in Block
    BY Addresses DEF BaseTypeOK
  <2> DEFINE r == IF m_initial_page = NoPage THEN [prod[p] EXCEPT !.pc = "init_tail"]
                  ELSE [prod[p] EXCEPT !.pc = "discard_initial",
                                       !.found = FirstBlock(m_initial_page)]
  <2>4. prod' = [prod EXCEPT ![p] = r]
    BY <1>1, <1>3 DEF InitPage, PGoto
  <2>5. r \in Producer
    BY <1>1, <2>3 DEF Producer, ProducerPC, BlockOrNull
  <2>6. ProducerOK(p)'
    BY <1>1, <2>1, <2>3, <2>4 DEF ProducerOK, Producer
  <2>7. prod' \in [Producers -> Producer] /\ ProducersOK'
    BY <1>1, <2>4, <2>5, <2>6, Updated
  <2> QED
    BY <1>3, <2>2, <2>7 DEF InitPage, BaseTypeOK, WordsOK, TailTypeOK, TailOK, PinsKept
<1>4. CASE DiscardInitial(p)
  <2>1. /\ m_next' \in [Block -> NextPtr] /\ WordsOK'
        /\ pool' \in [Pages -> {"zeroed", "uninitialized", "queue"}]
    BY <1>4, Discarded DEF DiscardInitial
  <2>2. prod[p].pc = "discard_initial" /\ PageOf(prod[p].found) \in Pages
    BY <1>1, <1>4, Addresses DEF DiscardInitial, PAt, ProducerOK
  <2> DEFINE r == [prod[p] EXCEPT !.pc = "init_tail", !.found = NoBlock,
                                  !.new_page = PageOf(prod[p].found)]
  <2>3. prod' = [prod EXCEPT ![p] = r]
    BY <1>1, <1>4 DEF DiscardInitial
  <2>4. r \in Producer
    BY <1>1, <1>2, <2>2 DEF Producer, ProducerPC
  <2>5. ProducerOK(p)'
    BY <1>1, <2>2, <2>3 DEF ProducerOK, Producer
  <2>6. prod' \in [Producers -> Producer] /\ ProducersOK'
    BY <1>1, <2>3, <2>4, <2>5, Updated
  <2> QED
    BY <1>4, <2>1, <2>6 DEF DiscardInitial, BaseTypeOK, TailTypeOK, TailOK, PinsKept
<1>5. CASE InitTail(p)
  <2>1. prod[p].pc = "init_tail" /\ prod[p].new_page \in Pages
    BY <1>1, <1>5 DEF InitTail, PAt, ProducerOK
  <2>2. FirstBlock(prod[p].new_page) \in Block /\ FirstBlock(prod[p].new_page)[2] = 0
    BY <2>1, Addresses, TailBlocks
  <2>3. m_tail' \in Block \cup {InvalidBlock} /\ m_rest' \in 0 .. EndSlot /\ TailOK'
    BY <1>5, <2>2, BaseAssumption DEF InitTail, TailIs, TailTypeOK, TailOK
  <2> DEFINE r == [prod[p] EXCEPT !.pc = "try", !.tail = m_tail', !.rest = m_rest,
                                  !.new_page = NoPage]
  <2>4. prod' = [prod EXCEPT ![p] = r] /\ m_rest' = m_rest
    BY <1>1, <1>5 DEF InitTail
  <2>5. r \in Producer
    <3>1. m_rest \in Nat /\ m_tail' \in BlockOrNull \cup {InvalidBlock}
      BY <2>3, BaseAssumption DEF TailTypeOK, BlockOrNull
    <3> HIDE DEF TailInv
    <3> QED
      BY <1>1, <3>1 DEF Producer, ProducerPC
  <2>6. ProducerOK(p)'
    BY <1>1, <2>1, <2>3, <2>4 DEF ProducerOK, Producer, TailOK
  <2>7. prod' \in [Producers -> Producer] /\ ProducersOK'
    BY <1>1, <2>4, <2>5, <2>6, Updated
  <2> QED
    BY <1>5, <2>3, <2>7 DEF InitTail, baseVars, BaseTypeOK, WordsOK, TailTypeOK, PinsKept
<1> QED
  BY <1>3, <1>4, <1>5 DEF InitialPage

\* Every step of get_or_allocate_next_page.
LEMMA NextPageSteps ==
    ASSUME MemoryOK, TailInv, NEW p \in Producers, NextPage(p)
    PROVE  MemoryOK' /\ TailInv' /\ PinsKept
BY CreateSteps, LinkSteps DEF NextPage

---------------------------------------------------------------------------
(* Together: the steps of the consume layer leave the put layer alone, and *)
(* those of a put layer keep the control words and the pins of the consume *)
(* layer.                                                                  *)

\* IInv is what the two layers know of themselves.
LEMMA Layers == IInv <=> HeadInv /\ TailInv /\ MemoryOK
BY DEF IInv, TypeOK, HeadInv, TailInv, MemoryOK

\* It holds of an empty queue.
LEMMA InitIInv == Init => IInv
<1> SUFFICES ASSUME Init PROVE IInv
  OBVIOUS
<1> USE DEF Init, BaseInit, HeadInit, TailInit
<1>1. NoBlock \in BlockOrNull /\ Zero \in NextPtr
  BY DEF BlockOrNull, Zero, NextPtr
<1>2. BaseTypeOK
  BY <1>1 DEF BaseTypeOK, Status
<1>3. HeadTypeOK
  BY <1>1 DEF HeadTypeOK, NewConsume, Consume, ConsumerPC, Mode
<1>4. m_tail \in Block \cup {InvalidBlock} /\ m_rest \in 0 .. EndSlot
  BY BaseAssumption
<1>5. prod \in [Producers -> Producer]
  BY <1>1, BaseAssumption DEF NewProducer, Producer, ProducerPC
<1>6. WordsOK
  BY DEF WordsOK, Zero
<1>7. ConsumersOK /\ ControlPinned
  BY DEF ConsumersOK, ConsumerOK, ControlPinned, NewConsume
<1>8. ProducersOK
  BY DEF ProducersOK, ProducerOK, NewProducer
<1>9. TailOK
  BY TailBlocks, BaseAssumption DEF TailOK
<1> QED
  BY <1>2, <1>3, <1>4, <1>5, <1>6, <1>7, <1>8, <1>9 DEF IInv, TypeOK, TailTypeOK

\* A step of a consumer.
LEMMA ConsumerKeepsIInv ==
    ASSUME IInv, NEW c \in Consumers, ConsumerNext(c), UNCHANGED tailVars
    PROVE  IInv'
<1>1. HeadInv'
  BY Layers, ConsumerKeepsHeadInv
<1>2. TailInv'
  BY Layers DEF TailInv, TailTypeOK, ProducersOK, ProducerOK, TailOK, tailVars
<1> QED
  BY <1>1, <1>2 DEF IInv, TypeOK, HeadInv, TailInv

\* A step of a producer, once its put layer is known to keep its own part.
LEMMA ProducerKeepsIInv ==
    ASSUME IInv, MemoryOK', TailInv', PinsKept, UNCHANGED headVars
    PROVE  IInv'
<1>1. HeadTypeOK' /\ ConsumersOK'
  BY DEF IInv, TypeOK, HeadTypeOK, ConsumersOK, ConsumerOK, headVars, history
<1>2. ControlPinned'
  <2> SUFFICES ASSUME NEW c \in Consumers
               PROVE  /\ cons[c].control # NoBlock => c \in pinners'[PageOf(cons[c].control)]
                      /\ cons[c].pc \in {"unpin_old", "reread", "unpin_left", "unpin_left_restart"}
                            => c \in pinners'[PageOf(cons[c].target)]
    BY DEF ControlPinned, headVars
  <2>1. cons[c].control # NoBlock => PageOf(cons[c].control) \in Pages
    BY Addresses DEF IInv, TypeOK, HeadTypeOK, Consume
  <2>2. cons[c].pc \in {"unpin_old", "reread", "unpin_left", "unpin_left_restart"}
          => PageOf(cons[c].target) \in Pages
    BY Addresses DEF IInv, ConsumersOK, ConsumerOK
  <2> QED
    BY <2>1, <2>2 DEF IInv, ControlPinned, PinsKept
<1> QED
  BY <1>1, <1>2 DEF IInv, TypeOK, MemoryOK, TailInv

\* Nothing happens.
LEMMA StutterKeepsIInv == IInv /\ UNCHANGED vars => IInv'
BY DEF IInv, TypeOK, BaseTypeOK, HeadTypeOK, TailTypeOK, WordsOK, ConsumersOK, ConsumerOK,
   ControlPinned, ProducersOK, ProducerOK, TailOK, vars, baseVars, headVars, history, tailVars
==========================================================================
