------------------------ MODULE LfQueueSingle_proof ------------------------
(***************************************************************************)
(* What is proved of the queues with a single-threaded or a spin-locking   *)
(* side: the spin lock of sp_heter_queue is held where the code relies on  *)
(* it, by one producer, and released on every way out; the words of the    *)
(* chain end at the tail; and an element that is being consumed keeps its  *)
(* block, its word and its page; and every element that has been committed *)
(* and not consumed has a block of the queue.  These follow from the trail *)
(* (LfQueueTrail), which every step of a producer and of a consumer keeps. *)
(***************************************************************************)
EXTENDS LfQueueTrail, LfQueueChain_proof, FiniteSetTheorems, WellFoundedInduction

\* prod is a function, and what it gives has a pc.
ProducersHavePC ==
    /\ prod = [p \in Producers |-> prod[p]]
    /\ \A p \in Producers : "pc" \in DOMAIN prod[p]

\* LockHeldInside with what its steps need.
LockInv == ProducersHavePC /\ LockHeldInside

\* A step of producer p leaves the others as they are.
OnlyMoves(p) ==
    /\ prod' = [q \in Producers |-> prod'[q]]
    /\ "pc" \in DOMAIN prod'[p]
    /\ \A q \in Producers \ {p} : prod'[q] = prod[q]

---------------------------------------------------------------------------

\* Where the producer goes is a record.
LEMMA RecordUpdated ==
    ASSUME ProducersHavePC, NEW p \in Producers, NEW r,
           prod' = [prod EXCEPT ![p] = r], "pc" \in DOMAIN r
    PROVE  OnlyMoves(p) /\ prod'[p] = r
  BY DEF ProducersHavePC, OnlyMoves

\* A page is created for the producer to go to.
LEMMA NewPageMoves ==
    ASSUME ProducersHavePC, NEW p \in Producers, NEW q, NEW words, NewPage(p, q, words)
    PROVE  OnlyMoves(p) /\ prod'[p].pc \in {"init_page", "link_page"}
  <1> DEFINE to == IF prod[p].tail = InvalidBlock THEN "init_page" ELSE "link_page"
             r == [prod[p] EXCEPT !.new_page = q, !.pc = to]
  <1>1. prod' = [prod EXCEPT ![p] = r]
    BY DEF NewPage
  <1>2. "pc" \in DOMAIN r /\ r.pc = to
    BY DEF ProducersHavePC
  <1> HIDE DEF r
  <1> QED
    BY <1>1, <1>2, RecordUpdated

\* An allocation starts, for a transaction q.
LEMMA AllocateMoves ==
    ASSUME ProducersHavePC, NEW p \in Producers, NEW q, "pc" \in DOMAIN q,
           NEW item, NEW size, NEW flags, Allocate(p, q, item, size, flags)
    PROVE  OnlyMoves(p)
  <1> DEFINE r == [q EXCEPT !.pc = "load_tail",
                            !.size = IF External(size) THEN 1 ELSE size,
                            !.flags = IF External(size) THEN flags \cup {"external"} ELSE flags]
  <1>1. prod' = [prod EXCEPT ![p] = r]
    BY DEF Allocate
  <1>2. "pc" \in DOMAIN r
    OBVIOUS
  <1> HIDE DEF r
  <1> QED
    BY <1>1, <1>2, RecordUpdated

\* If the lock does not change hands, it is enough that the producer stays
\* on its side of it.
LEMMA SameHolder ==
    ASSUME LockInv, NEW p \in Producers, OnlyMoves(p),
           UNCHANGED <<m_mutex, put>>,
           put = "spin" => (Inside(p)' => Inside(p)) /\ (Outside(p)' => m_mutex # p)
    PROVE  LockInv'
  BY DEF LockInv, LockHeldInside, ProducersHavePC, OnlyMoves, Inside, Outside

\* A put is started, or a raw block asked for, without the lock.
LEMMA StartSteps ==
    ASSUME LockInv, put = "spin", UNCHANGED put, NEW p \in Producers,
           \/ \E size \in Sizes, g \in Guarantees : SpinStartPut(p, size, g)
           \/ \E size \in Sizes : SpinRawAllocate(p, size)
    PROVE  LockInv'
  <1>1. CASE \E size \in Sizes, g \in Guarantees : SpinStartPut(p, size, g)
    <2>1. OnlyMoves(p) /\ prod'[p].pc = "load_tail"
      <3>1. PICK size \in Sizes, g \in Guarantees : SpinStartPut(p, size, g)
        BY <1>1
      <3> DEFINE r == [NewProducer EXCEPT !.pc = "load_tail", !.puts = prod[p].puts + 1,
                                          !.guarantee = g, !.size = size, !.flags = {"busy"}]
      <3>2. prod' = [prod EXCEPT ![p] = r]
        BY <3>1 DEF SpinStartPut
      <3>3. "pc" \in DOMAIN r /\ r.pc = "load_tail"
        BY DEF NewProducer
      <3> HIDE DEF r
      <3> QED
        BY <3>2, <3>3, RecordUpdated DEF LockInv
    <2>2. Outside(p) /\ UNCHANGED m_mutex
      BY <1>1 DEF SpinStartPut, PAt, Outside
    <2> QED
      BY <2>1, <2>2, SameHolder DEF LockInv, LockHeldInside, Inside, Outside
  <1>2. CASE \E size \in Sizes : SpinRawAllocate(p, size)
    <2>1. OnlyMoves(p) /\ prod'[p].pc = "load_tail"
      <3>1. PICK size \in Sizes : SpinRawAllocate(p, size)
        BY <1>2
      <3> DEFINE r == [prod[p] EXCEPT !.pc = "load_tail", !.raws = prod[p].raws + 1,
                                      !.size = size, !.flags = {"dead"}]
      <3>2. prod' = [prod EXCEPT ![p] = r]
        BY <3>1 DEF SpinRawAllocate
      <3>3. "pc" \in DOMAIN r /\ r.pc = "load_tail"
        BY DEF LockInv, ProducersHavePC
      <3> HIDE DEF r
      <3> QED
        BY <3>2, <3>3, RecordUpdated DEF LockInv
    <2>2. Outside(p) /\ UNCHANGED m_mutex
      BY <1>2 DEF SpinRawAllocate, PAt, Outside
    <2> QED
      BY <2>1, <2>2, SameHolder DEF LockInv, LockHeldInside, Inside, Outside
  <1> QED
    BY <1>1, <1>2

\* The lock is taken when it is free, and released by the one that has it:
\* nobody else is inside then.
LEMMA LockSteps ==
    ASSUME LockInv, put = "spin", UNCHANGED put, NEW p \in Producers,
           Lock(p) \/ Unlock(p) \/ UnlockForExternal(p) \/ GiveUpAndUnlock(p)
    PROVE  LockInv'
  <1>1. OnlyMoves(p)
    <2>1. CASE Lock(p)
      BY <2>1 DEF Lock, Retry, LockInv, ProducersHavePC, OnlyMoves
    <2>2. CASE Unlock(p)
      BY <2>2 DEF Unlock, PGoto, LockInv, ProducersHavePC, OnlyMoves
    <2>3. CASE UnlockForExternal(p)
      BY <2>3 DEF UnlockForExternal, LockInv, ProducersHavePC, OnlyMoves
    <2>4. CASE GiveUpAndUnlock(p)
      BY <2>4 DEF GiveUpAndUnlock, GiveUp, Fail, Done, NewProducer, LockInv, ProducersHavePC, OnlyMoves
    <2> QED
      BY <2>1, <2>2, <2>3, <2>4
  <1>2. ProducersHavePC'
    BY <1>1 DEF LockInv, ProducersHavePC, OnlyMoves
  <1>3. CASE Lock(p)
    <2>1. m_mutex = NoThread /\ m_mutex' = p /\ prod'[p].pc = "try"
      BY <1>3 DEF Lock, Retry, LockInv, ProducersHavePC
    <2>2. \A q \in Producers : ~Inside(q)
      BY <2>1, SpinAssumption DEF LockInv, LockHeldInside
    <2> QED
      BY <1>1, <1>2, <2>1, <2>2 DEF LockInv, LockHeldInside, OnlyMoves, Inside, Outside
  <1>4. CASE Unlock(p) \/ UnlockForExternal(p)
    <2>1. Inside(p) /\ m_mutex' = NoThread
      BY <1>4 DEF Unlock, UnlockForExternal, PAt, Inside
    <2>2. m_mutex = p
      BY <2>1 DEF LockInv, LockHeldInside
    <2>3. prod'[p].pc \in {"fill", "load_tail"}
      BY <1>4 DEF Unlock, UnlockForExternal, PGoto, LockInv, ProducersHavePC
    <2> QED
      BY <1>1, <1>2, <2>1, <2>2, <2>3, SpinAssumption DEF LockInv, LockHeldInside, OnlyMoves, Inside, Outside
  <1>5. CASE GiveUpAndUnlock(p)
    <2>1. m_mutex' = IF m_mutex = p THEN NoThread ELSE m_mutex
      BY <1>5 DEF GiveUpAndUnlock
    <2>2. prod'[p].pc \in {"idle", "pending"}
      BY <1>5 DEF GiveUpAndUnlock, GiveUp, Fail, Done, NewProducer, LockInv, ProducersHavePC
    <2> QED
      BY <1>1, <1>2, <2>1, <2>2, SpinAssumption DEF LockInv, LockHeldInside, OnlyMoves, Inside, Outside
  <1> QED
    BY <1>3, <1>4, <1>5

\* What is done with the lock held, and the ways to give_up.
LEMMA InsideSteps ==
    ASSUME LockInv, put = "spin", UNCHANGED <<put, m_mutex>>, NEW p \in Producers,
           \/ TryLockFails(p) \/ RefuseExternal(p) \/ SpinPad(p) \/ SpinCreatePage(p)
           \/ NullTerminate(p) \/ StoreControl(p, "settle")
           \/ LinkNextPage(p) \/ SetInitialPage(p)
    PROVE  LockInv'
  <1>1. CASE TryLockFails(p) \/ RefuseExternal(p)
    <2>1. OnlyMoves(p) /\ prod'[p].pc = "give_up"
      BY <1>1 DEF TryLockFails, RefuseExternal, PGoto, LockInv, ProducersHavePC, OnlyMoves
    <2> QED
      BY <2>1, SameHolder DEF Inside, Outside
  <1>2. CASE SpinPad(p)
    <2>1. OnlyMoves(p) /\ prod'[p].pc = "try" /\ Inside(p)
      BY <1>2 DEF SpinPad, PAt, Retry, LockInv, ProducersHavePC, OnlyMoves, Inside
    <2> QED
      BY <2>1, SameHolder DEF Inside, Outside
  <1>3. CASE SpinCreatePage(p)
    <2>1. Inside(p)
      BY <1>3 DEF SpinCreatePage, PAt, Inside
    <2>2. OnlyMoves(p) /\ prod'[p].pc \in {"init_page", "link_page", "give_up"}
      <3>1. CASE NoNewPage(p)
        BY <3>1 DEF NoNewPage, PGoto, LockInv, ProducersHavePC, OnlyMoves
      <3>2. CASE \E q \in Pages : \E words : NewPage(p, q, words)
        BY <3>2, NewPageMoves DEF LockInv
      <3> QED
        BY <1>3, <3>1, <3>2 DEF SpinCreatePage
    <2> QED
      BY <2>1, <2>2, SameHolder DEF Inside, Outside
  <1>4. CASE NullTerminate(p)
    <2>1. OnlyMoves(p) /\ prod'[p].pc = "store" /\ Inside(p)
      BY <1>4 DEF NullTerminate, PAt, PGoto, LockInv, ProducersHavePC, OnlyMoves, Inside
    <2> QED
      BY <2>1, SameHolder DEF Inside, Outside
  <1>5. CASE StoreControl(p, "settle")
    <2>1. OnlyMoves(p) /\ prod'[p].pc = "settle" /\ Inside(p)
      BY <1>5 DEF StoreControl, PAt, PGoto, LockInv, ProducersHavePC, OnlyMoves, Inside
    <2> QED
      BY <2>1, SameHolder DEF Inside, Outside
  <1>6. CASE LinkNextPage(p) \/ SetInitialPage(p)
    <2>1. OnlyMoves(p) /\ prod'[p].pc = "try" /\ Inside(p)
      BY <1>6 DEF LinkNextPage, SetInitialPage, EnterPage, PAt, LockInv, ProducersHavePC, OnlyMoves, Inside
    <2> QED
      BY <2>1, SameHolder DEF Inside, Outside
  <1> QED
    BY <1>1, <1>2, <1>3, <1>4, <1>5, <1>6

\* The element is constructed and the transaction ended without the lock.
LEMMA OutsideSteps ==
    ASSUME LockInv, put = "spin", UNCHANGED put, NEW p \in Producers,
           SpinConstruct(p) \/ SpinCommitPut(p) \/ SpinCancelPut(p)
    PROVE  LockInv'
  <1>1. OnlyMoves(p) /\ prod'[p].pc \in {"pending", "idle"}
    <2>1. CASE SpinConstruct(p)
      BY <2>1 DEF SpinConstruct, Fill, Done, LockInv, ProducersHavePC, OnlyMoves
    <2>2. CASE SpinCommitPut(p) \/ SpinCancelPut(p)
      BY <2>2 DEF SpinCommitPut, SpinCancelPut, CommitPut, CancelPut, EndPut, NewProducer,
                  LockInv, ProducersHavePC, OnlyMoves
    <2> QED
      BY <2>1, <2>2
  <1>2. Outside(p) /\ UNCHANGED m_mutex
    BY DEF SpinConstruct, SpinCommitPut, SpinCancelPut, Fill, CommitPut, CancelPut, EndPut, PAt, Outside
  <1> QED
    BY <1>1, <1>2, SameHolder DEF LockInv, LockHeldInside, Inside, Outside

\* The single layer does not touch the lock; nothing is claimed of it.
LEMMA SinglePutSteps ==
    ASSUME LockInv, put = "single", UNCHANGED put, NEW p \in Producers, SinglePutNext(p)
    PROVE  LockInv'
  <1>1. OnlyMoves(p)
    <2>1. CASE StartSinglePut(p)
      <3>1. \A k, g : "pc" \in DOMAIN [NewProducer EXCEPT !.puts = k, !.guarantee = g]
        BY DEF NewProducer
      <3>2. \A k : "pc" \in DOMAIN [prod[p] EXCEPT !.raws = k]
        BY DEF LockInv, ProducersHavePC
      <3>3. CASE \E size \in Sizes, g \in Guarantees : StartPut(p, size, g)
        BY <3>1, <3>3, AllocateMoves DEF StartPut, LockInv
      <3>4. CASE \E size \in Sizes : RawAllocate(p, size)
        BY <3>2, <3>4, AllocateMoves DEF RawAllocate, LockInv
      <3> QED
        BY <2>1, <3>3, <3>4 DEF StartSinglePut
    <2>2. CASE LoadTail(p) \/ NullTerminate(p) \/ StoreControl(p, "fill") \/ Fill(p) \/ GiveUp(p)
      BY <2>2 DEF LoadTail, Retry, NullTerminate, PGoto, StoreControl, Fill, GiveUp, Fail, Done,
                  NewProducer, LockInv, ProducersHavePC, OnlyMoves
    <2>3. CASE SingleOverflow(p)
      <3>1. CASE NoNewPage(p)
        BY <3>1 DEF NoNewPage, PGoto, LockInv, ProducersHavePC, OnlyMoves
      <3>2. CASE \E q \in Pages : \E words : NewPage(p, q, words)
        BY <3>2, NewPageMoves DEF LockInv
      <3> QED
        BY <2>3, <3>1, <3>2 DEF SingleOverflow
    <2>4. CASE LinkNextPage(p) \/ SetInitialPage(p)
      BY <2>4 DEF LinkNextPage, SetInitialPage, EnterPage, LockInv, ProducersHavePC, OnlyMoves
    <2>5. CASE CommitPut(p) \/ CancelPut(p)
      BY <2>5 DEF CommitPut, CancelPut, EndPut, NewProducer, LockInv, ProducersHavePC, OnlyMoves
    <2> QED
      BY <2>1, <2>2, <2>3, <2>4, <2>5 DEF SinglePutNext, SinglePutStep
  <1> QED
    BY <1>1 DEF LockInv, LockHeldInside, ProducersHavePC, OnlyMoves

\* Every step of the queue, and those that leave the producers alone.
LEMMA NextKeepsLock == LockInv /\ [Next]_queueVars => LockInv'
  <1> SUFFICES ASSUME LockInv, [Next]_queueVars
               PROVE  LockInv'
    OBVIOUS
  <1>1. CASE PutNext /\ UNCHANGED <<headVars, layers, alive>>
    <2> UNCHANGED put
      BY <1>1 DEF layers
    <2>1. PICK p \in Producers : \/ put = "single" /\ SinglePutNext(p) /\ UNCHANGED m_mutex
                                 \/ put = "spin" /\ SpinPutNext(p)
      BY <1>1 DEF PutNext
    <2>2. CASE put = "single"
      BY <2>1, <2>2, SinglePutSteps
    <2>3. CASE put = "spin"
      BY <2>1, <2>3, StartSteps, LockSteps, InsideSteps, OutsideSteps DEF SpinPutNext, SpinPutStep, TryLockFails, RefuseExternal, SpinPad, SpinCreatePage
    <2> QED
      BY <2>1, <2>2, <2>3
  <1>2. CASE UNCHANGED <<tailVars, m_mutex, layers>>
    BY <1>2 DEF tailVars, layers, LockInv, LockHeldInside, ProducersHavePC, Inside, Outside
  <1> QED
    BY <1>1, <1>2 DEF Next, Destroy, queueVars, vars, tailVars, layers

\* The spin lock of sp_heter_queue excludes: a producer inside the function
\* that allocates a block has it, a producer that asks for it does not, on
\* every way out, for any number of producers and on any page size.
THEOREM SpinLockHeld == Spec => []LockHeldInside
  <1>1. QueueInit => LockInv
    BY SpinAssumption DEF QueueInit, Init, TailInit, SpinInit, NewProducer, LockInv, ProducersHavePC,
       LockHeldInside, Inside, Outside
  <1>2. LockInv => LockHeldInside
    BY DEF LockInv
  <1> QED
    BY <1>1, <1>2, NextKeepsLock, PTL DEF Spec

---------------------------------------------------------------------------
(* The trail *)

\* What the trail is, apart from the threads.
Shape(w) == TypesTrail /\ w \in Trail /\ EndsOK(w) /\ StepsOK(w) /\ LivesOK(w)

\* The members of a trail.
LEMMA TrailMembers ==
    ASSUME NEW w \in Trail
    PROVE  /\ w.at \in [Nat -> Block] /\ w.base \in [Pages -> Nat] /\ w.head \in Nat /\ w.last \in Nat
           /\ \A i \in Nat : w.at[i] \in Block
           /\ \A x \in Pages : w.base[x] \in Nat
BY DEF Trail

\* What a block is made of; a page has a first block and an end block.
LEMMA BlockParts ==
    /\ \A b \in Block : PageOf(b) \in Pages /\ b[1] \in Pages /\ b[2] \in 0 .. EndSlot /\ b = <<b[1], b[2]>>
    /\ \A b \in Block : b # NoBlock /\ b # InvalidBlock
    /\ \A x \in Pages : FirstBlock(x) \in Block /\ PageOf(FirstBlock(x)) = x /\ FirstBlock(x)[2] = 0
    /\ \A x \in Pages : EndBlock(FirstBlock(x)) = <<x, EndSlot>> /\ <<x, EndSlot>> \in Block
    /\ FirstBlock(NoPage) = NoBlock
    /\ EndSlot \in Nat /\ EndSlot > 0
BY BaseAssumption DEF Block, PageOf, FirstBlock, EndBlock, Slots, NoBlock, InvalidBlock

\* The blocks of the trail and their pages.
LEMMA TrailFacts ==
    ASSUME NEW w, Shape(w)
    PROVE  /\ w.head \in Nat /\ w.last \in Nat /\ w.head > 0
           /\ \A i \in Nat : w.at[i] \in Block
           /\ \A x \in Pages : w.base[x] \in Nat
           /\ w.last > 0 => /\ m_tail = w.at[w.last] /\ m_tail \in Block /\ w.head <= w.last
                            /\ Valid(w, w.last) /\ Valid(w, w.head)
           /\ w.last = 0 => m_tail = InvalidBlock /\ w.head = 1
           /\ \A i \in Live(w) : Valid(w, i)
           /\ m_tail # InvalidBlock => w.last > 0
<1>1. w \in Trail /\ EndsOK(w) /\ LivesOK(w)
  BY DEF Shape
<1>2. /\ w.head \in Nat /\ w.last \in Nat
      /\ \A i \in Nat : w.at[i] \in Block
      /\ \A x \in Pages : w.base[x] \in Nat
  BY <1>1, TrailMembers
<1>3. w.head > 0 /\ (w.last > 0 => m_tail = w.at[w.last] /\ w.head <= w.last)
      /\ (w.last = 0 => m_tail = InvalidBlock /\ w.head = 1)
  BY <1>1, <1>2 DEF EndsOK, Index
<1>4. \A i \in Live(w) : Valid(w, i)
  BY <1>1 DEF LivesOK
<1>5. w.last > 0 => Valid(w, w.last) /\ Valid(w, w.head)
  BY <1>2, <1>3, <1>4 DEF Live
<1> QED
  BY <1>2, <1>3, <1>4, <1>5

\* Blocks of one life of a page.
LEMMA SameLife ==
    ASSUME NEW w, Shape(w), NEW i, Valid(w, i)
    PROVE  /\ i \in Nat /\ i > 0 /\ i <= w.last /\ w.at[i] \in Block /\ w.last > 0
           /\ \A j \in Index(w) : i < j /\ SamePage(w.at[i], w.at[j]) =>
                 /\ w.at[i][2] < w.at[j][2] /\ Valid(w, j)
                 /\ \A k \in i .. j : SamePage(w.at[i], w.at[k]) /\ Valid(w, k)
           /\ i < w.last /\ ~Continues(w, i) => \A j \in i + 1 .. w.last : ~SamePage(w.at[i], w.at[j])
           /\ i < w.last /\ Continues(w, i) => Valid(w, i + 1) /\ w.at[i][2] < w.at[i + 1][2]
           /\ SamePage(w.at[i], m_tail) => w.at[i][2] <= m_tail[2]
<1>1. /\ w.head \in Nat /\ w.last \in Nat /\ w.head > 0 /\ (\A k \in Nat : w.at[k] \in Block)
      /\ \A x \in Pages : w.base[x] \in Nat
      /\ w.last > 0 => m_tail = w.at[w.last]
  BY TrailFacts
<1>2. i \in Index(w) /\ w.base[PageOf(w.at[i])] <= i /\ ~New(PageOf(w.at[i]))
  BY DEF Valid
<1>3. i \in Nat /\ i > 0 /\ i <= w.last /\ w.at[i] \in Block /\ w.last > 0
  BY <1>1, <1>2 DEF Index
<1>4. ASSUME NEW j \in Index(w), i < j, SamePage(w.at[i], w.at[j])
      PROVE  w.at[i][2] < w.at[j][2] /\ \A k \in i .. j : SamePage(w.at[i], w.at[k])
  BY <1>2, <1>4 DEF Shape, LivesOK
<1>5. ASSUME NEW j \in Index(w), i < j, SamePage(w.at[i], w.at[j]) PROVE Valid(w, j)
  <2>1. j \in Nat /\ w.base[PageOf(w.at[i])] \in Nat
    BY <1>1, <1>3, <1>5, BlockParts DEF Index
  <2> QED
    BY <1>2, <1>3, <1>5, <2>1 DEF Valid, SamePage
<1>6. ASSUME NEW j \in Index(w), i < j, SamePage(w.at[i], w.at[j]), NEW k \in i .. j
      PROVE SamePage(w.at[i], w.at[k]) /\ Valid(w, k)
  <2>1. SamePage(w.at[i], w.at[k]) /\ k \in Index(w) /\ (k = i \/ i < k)
    BY <1>4, <1>6, <1>3, <1>1 DEF Index
  <2> QED
    BY <2>1, <1>5
<1>7. ASSUME i < w.last, ~Continues(w, i), NEW j \in i + 1 .. w.last, SamePage(w.at[i], w.at[j]) PROVE FALSE
  <2>1. j \in Index(w) /\ i < j /\ i + 1 \in i .. j
    BY <1>7, <1>3, <1>1 DEF Index
  <2> QED
    BY <1>4, <1>7, <2>1 DEF Continues
<1>8. ASSUME i < w.last, Continues(w, i) PROVE Valid(w, i + 1) /\ w.at[i][2] < w.at[i + 1][2]
  <2>1. i + 1 \in Index(w) /\ i < i + 1
    BY <1>8, <1>3, <1>1 DEF Index
  <2> QED
    BY <1>8, <2>1, <1>4, <1>5 DEF Continues
<1>9. SamePage(w.at[i], m_tail) => w.at[i][2] <= m_tail[2]
  <2>1. CASE i = w.last
    BY <2>1, <1>3, <1>1, BlockParts
  <2>2. CASE i < w.last
    <3>1. w.last \in Index(w) /\ m_tail = w.at[w.last]
      BY <1>1, <1>3 DEF Index
    <3> QED
      BY <3>1, <2>2, <1>4, <1>1, <1>3, BlockParts
  <2> QED
    BY <1>1, <1>3, <2>1, <2>2
<1> QED
  BY <1>3, <1>4, <1>5, <1>6, <1>7, <1>8, <1>9

\* A block has one place in the trail in the last life of its page.
LEMMA OnePlace ==
    ASSUME NEW w, Shape(w), NEW i, NEW j, Valid(w, i), Valid(w, j), w.at[i] = w.at[j]
    PROVE  i = j
<1>1. /\ i \in Nat /\ j \in Nat /\ i \in Index(w) /\ j \in Index(w)
      /\ w.at[i] \in Block /\ w.at[i][2] \in Nat
  BY SameLife, BlockParts DEF Valid
<1>2. SamePage(w.at[i], w.at[j]) /\ SamePage(w.at[j], w.at[i])
  BY DEF SamePage
<1>3. ~(i < j)
  BY <1>1, <1>2, SameLife
<1>4. ~(j < i)
  BY <1>1, <1>2, SameLife
<1> QED
  BY <1>1, <1>3, <1>4

---------------------------------------------------------------------------
(* How the trail changes *)

\* A block is appended: in the page of the tail, or the first of a page.
Extended(w, b) ==
    [w EXCEPT !.last = w.last + 1, !.at[w.last + 1] = b,
              !.base[PageOf(b)] = IF w.last > 0 /\ SamePage(w.at[w.last], b) THEN @ ELSE w.last + 1]

\* The head goes to the next block.
Advanced(w) == [w EXCEPT !.head = w.head + 1]

\* The blocks of the trail are still there; those of the pages Z may be of a
\* life that has ended.
Keeps(w, v, Z) ==
    \A i \in Index(w) :
        /\ v.at[i] = w.at[i]
        /\ Valid(w, i) /\ PageOf(w.at[i]) \notin Z => Valid(v, i)'
        /\ Valid(v, i)' => Valid(w, i)

\* The trail with a block more: the others keep their places.
LEMMA ExtendedFacts ==
    ASSUME NEW w \in Trail, NEW b \in Block, NEW v, v = Extended(w, b)
    PROVE  /\ v \in Trail /\ v.last = w.last + 1 /\ v.head = w.head
           /\ v.at[v.last] = b
           /\ \A i \in Index(w) : v.at[i] = w.at[i]
           /\ \A x \in Pages : v.base[x] = IF x # PageOf(b) \/ (w.last > 0 /\ SamePage(w.at[w.last], b))
                                           THEN w.base[x] ELSE w.last + 1
<1>1. w.at \in [Nat -> Block] /\ w.base \in [Pages -> Nat] /\ w.head \in Nat /\ w.last \in Nat
  BY TrailMembers
<1>2. PageOf(b) \in Pages
  BY BlockParts
<1> DEFINE base == [w.base EXCEPT ![PageOf(b)] = IF w.last > 0 /\ SamePage(w.at[w.last], b) THEN @ ELSE w.last + 1]
           at == [w.at EXCEPT ![w.last + 1] = b]
<1>3. w = [at |-> w.at, base |-> w.base, head |-> w.head, last |-> w.last]
  BY DEF Trail
<1>4. v = [at |-> at, base |-> base, head |-> w.head, last |-> w.last + 1]
  BY <1>3 DEF Extended
<1>5. v.at = at /\ v.base = base /\ v.head = w.head /\ v.last = w.last + 1
  BY <1>4
<1>6. at \in [Nat -> Block] /\ at[w.last + 1] = b /\ \A i \in Index(w) : at[i] = w.at[i]
  BY <1>1 DEF Index
<1>7. base \in [Pages -> Nat]
      /\ \A x \in Pages : base[x] = IF x # PageOf(b) \/ (w.last > 0 /\ SamePage(w.at[w.last], b))
                                    THEN w.base[x] ELSE w.last + 1
  BY <1>1, <1>2
<1> HIDE DEF at, base
<1>8. v \in Trail
  BY <1>1, <1>4, <1>6, <1>7 DEF Trail
<1> QED
  BY <1>5, <1>6, <1>7, <1>8

\* The trail with the head one block further.
LEMMA AdvancedFacts ==
    ASSUME NEW w \in Trail, NEW v, v = Advanced(w)
    PROVE  v \in Trail /\ v.last = w.last /\ v.head = w.head + 1 /\ v.at = w.at /\ v.base = w.base
BY DEF Trail, Advanced

\* Nothing is appended and the head stays.
LEMMA TrailKept ==
    ASSUME NEW w, Shape(w), TypesTrail', UNCHANGED <<m_tail, m_head, m_initial_page>>,
           NEW Z, \A x \in Pages : (New(x)' => New(x) \/ x \in Z) /\ (New(x) => New(x)'),
           \A i \in Live(w) : PageOf(w.at[i]) \notin Z
    PROVE  Shape(w)' /\ Keeps(w, w, Z)
<1>0. w \in Trail /\ EndsOK(w) /\ StepsOK(w) /\ LivesOK(w)
  BY DEF Shape
<1>1. EndsOK(w)'
  BY <1>0 DEF EndsOK, Index
<1>2. \A i \in Index(w) : w.at[i] \in Block /\ PageOf(w.at[i]) \in Pages
  BY TrailFacts, BlockParts DEF Index
<1>3. Keeps(w, w, Z)
  BY <1>2 DEF Keeps, Valid, Index
<1>4. LivesOK(w)'
  <2>1. \A i \in Live(w) : Valid(w, i)'
    BY <1>0, <1>3 DEF LivesOK, Keeps, Valid
  <2> QED
    BY <1>0, <2>1 DEF LivesOK, Index, Live
<1>5. StepsOK(w)'
  BY <1>0 DEF StepsOK, Continues
<1> QED
  BY <1>0, <1>1, <1>3, <1>4, <1>5 DEF Shape

\* A block is appended in the page of the tail.
LEMMA TrailExtended ==
    ASSUME NEW w, Shape(w), TypesTrail', w.last > 0, NEW b \in Block,
           SamePage(m_tail, b), m_tail[2] < b[2],
           m_tail' = b, UNCHANGED <<m_head, m_initial_page>>,
           \A x \in Pages : New(x)' <=> New(x)
    PROVE  Shape(Extended(w, b))' /\ Keeps(w, Extended(w, b), {})
<1>0. w \in Trail /\ EndsOK(w) /\ StepsOK(w) /\ LivesOK(w)
  BY DEF Shape
<1>1. PICK v : v = Extended(w, b)
  OBVIOUS
<1>2. /\ v \in Trail /\ v.last = w.last + 1 /\ v.head = w.head /\ v.at[v.last] = b
      /\ \A i \in Index(w) : v.at[i] = w.at[i]
      /\ \A x \in Pages : v.base[x] = w.base[x]
  <2>1. SamePage(w.at[w.last], b)
    BY TrailFacts
  <2> QED
    BY <1>0, <1>1, <2>1, ExtendedFacts
<1>3. /\ w.head \in Nat /\ w.last \in Nat /\ w.head > 0 /\ w.head <= w.last
      /\ \A i \in Nat : w.at[i] \in Block
      /\ \A x \in Pages : w.base[x] \in Nat
      /\ m_tail = w.at[w.last] /\ Valid(w, w.last)
      /\ \A i \in Live(w) : Valid(w, i)
  BY TrailFacts
<1>4. EndsOK(v)'
  BY <1>0, <1>2, <1>3 DEF EndsOK, Index
<1>5. StepsOK(v)'
  <2> SUFFICES ASSUME NEW i \in 1 .. (v.last - 1)
               PROVE  IF Continues(v, i) THEN v.at[i][2] < v.at[i + 1][2] ELSE v.at[i + 1][2] = 0
    BY DEF StepsOK, Continues
  <2>1. CASE i = w.last
    BY <2>1, <1>2, <1>3 DEF Continues, Index
  <2>2. CASE i < w.last
    <3>1. i \in 1 .. (w.last - 1) /\ i \in Index(w) /\ i + 1 \in Index(w)
      BY <2>2, <1>2, <1>3 DEF Index
    <3> QED
      BY <3>1, <1>0, <1>2 DEF StepsOK, Continues
  <2> QED
    BY <2>1, <2>2, <1>2, <1>3
<1>6. Keeps(w, v, {}) 
  BY <1>2, <1>3, BlockParts DEF Keeps, Valid, Index
<1>7. LivesOK(v)'
  <2>1. v.last \in Index(v) /\ \A i \in Index(v) : i = v.last \/ i \in Index(w)
    BY <1>2, <1>3 DEF Index
  <2>2. PageOf(b) = PageOf(w.at[w.last]) /\ PageOf(b) \in Pages
    BY <1>3, BlockParts DEF SamePage
  <2>3. ASSUME NEW i \in Index(v)
        PROVE  LET x == PageOf(v.at[i]) IN v.base[x] \in Index(v) /\ v.at[v.base[x]] = FirstBlock(x)
    <3>1. \E j \in Index(w) : PageOf(v.at[i]) = PageOf(w.at[j]) /\ w.at[j] \in Block
      <4>1. w.last \in Index(w)
        BY <1>3 DEF Index
      <4> QED
        BY <4>1, <2>1, <2>2, <1>2, <1>3 DEF Index
    <3>2. PICK j \in Index(w) : PageOf(v.at[i]) = PageOf(w.at[j]) /\ w.at[j] \in Block
      BY <3>1
    <3> DEFINE x == PageOf(w.at[j])
    <3>3. x \in Pages /\ w.base[x] \in Index(w) /\ w.at[w.base[x]] = FirstBlock(x)
      BY <3>2, <1>0, BlockParts DEF LivesOK
    <3>4. v.base[x] = w.base[x] /\ v.at[w.base[x]] = w.at[w.base[x]]
      BY <3>3, <1>2
    <3>5. \A k \in Index(w) : k \in Index(v)
      BY <1>2, <1>3 DEF Index
    <3> QED
      BY <3>2, <3>3, <3>4, <3>5
  <2>4. ASSUME NEW i \in Index(v), NEW j \in Index(v), i < j, v.base[PageOf(v.at[i])] <= i,
               SamePage(v.at[i], v.at[j])
        PROVE  /\ v.at[i][2] < v.at[j][2]
               /\ \A k \in i .. j : SamePage(v.at[i], v.at[k])
    <3>1. i \in Index(w) /\ v.at[i] = w.at[i] /\ w.at[i] \in Block
      BY <2>1, <2>4, <1>2, <1>3 DEF Index
    <3>2. w.base[PageOf(w.at[i])] <= i
      BY <3>1, <2>4, <1>2, BlockParts
    <3>3. CASE j \in Index(w)
      <4>1. /\ w.at[i][2] < w.at[j][2]
            /\ \A k \in i .. j : SamePage(w.at[i], w.at[k])
        BY <3>1, <3>2, <3>3, <2>4, <1>0, <1>2 DEF LivesOK
      <4>2. \A k \in i .. j : v.at[k] = w.at[k]
        BY <1>2, <1>3, <3>1, <3>3 DEF Index
      <4> QED
        BY <4>1, <4>2, <3>1, <3>3, <1>2
    <3>4. CASE j = v.last
      <4>1. SamePage(w.at[i], w.at[w.last])
        BY <3>1, <3>4, <2>2, <2>4, <1>2 DEF SamePage
      <4>2. CASE i = w.last
        <5>1. \A k \in i .. j : k = i \/ k = j
          BY <4>2, <3>4, <1>2, <1>3
        <5> QED
          BY <5>1, <4>2, <3>1, <3>4, <2>4, <1>2, <1>3 DEF SamePage
      <4>3. CASE i < w.last
        <5>1. /\ w.at[i][2] < w.at[w.last][2]
              /\ \A k \in i .. w.last : SamePage(w.at[i], w.at[k])
          <6>1. w.last \in Index(w)
            BY <1>3 DEF Index
          <6> QED
            BY <6>1, <4>1, <4>3, <3>1, <3>2, <1>0 DEF LivesOK
        <5>2. \A k \in i .. j : k \in i .. w.last \/ k = j
          BY <3>4, <1>2, <1>3
        <5>3. \A k \in i .. w.last : v.at[k] = w.at[k]
          BY <3>1, <1>2, <1>3 DEF Index
        <5>4. w.at[i][2] < b[2]
          BY <5>1, <1>3, <3>1, BlockParts
        <5> QED
          BY <5>1, <5>2, <5>3, <5>4, <3>1, <3>4, <2>4, <1>2
      <4> QED
        BY <4>2, <4>3, <3>1, <1>3 DEF Index
    <3> QED
      BY <3>3, <3>4, <2>1
  <2>5. \A i \in Live(v) : Valid(v, i)'
    <3> SUFFICES ASSUME NEW i \in Live(v) PROVE Valid(v, i)'
      OBVIOUS
    <3>1. CASE i \in Live(w)
      <4>1. Valid(w, i) /\ i \in Index(w)
        BY <3>1, <1>3 DEF Valid
      <4> QED
        BY <4>1, <1>6 DEF Keeps
    <3>2. CASE i = v.last
      <4>1. w.base[PageOf(b)] <= w.last /\ ~New(PageOf(b))
        BY <1>3, <2>2 DEF Valid
      <4>2. ~New(PageOf(b))' /\ v.base[PageOf(b)] <= v.last /\ v.last \in Index(v)
        BY <4>1, <2>2, <1>2, <1>3, <2>1
      <4> QED
        BY <4>2, <3>2, <1>2 DEF Valid
    <3> QED
      BY <3>1, <3>2, <1>2, <1>3 DEF Live
  <2> QED
    BY <2>3, <2>4, <2>5 DEF LivesOK, Live, Index
<1> QED
  BY <1>1, <1>2, <1>4, <1>5, <1>6, <1>7 DEF Shape

\* A page is linked, or is the first one: its life begins.
LEMMA TrailEnters ==
    ASSUME NEW w, Shape(w), TypesTrail', NEW q \in Pages, New(q),
           m_tail' = FirstBlock(q), UNCHANGED m_head,
           m_initial_page' = IF w.last = 0 THEN q ELSE m_initial_page,
           ~New(q)', \A x \in Pages \ {q} : New(x)' <=> New(x)
    PROVE  Shape(Extended(w, FirstBlock(q)))' /\ Keeps(w, Extended(w, FirstBlock(q)), {})
<1>0. w \in Trail /\ EndsOK(w) /\ StepsOK(w) /\ LivesOK(w)
  BY DEF Shape
<1>1. PICK v : v = Extended(w, FirstBlock(q))
  OBVIOUS
<1>b. FirstBlock(q) \in Block /\ PageOf(FirstBlock(q)) = q /\ FirstBlock(q)[2] = 0 /\ FirstBlock(q) # NoBlock
  BY BlockParts
<1>3. /\ w.head \in Nat /\ w.last \in Nat /\ w.head > 0
      /\ \A i \in Nat : w.at[i] \in Block
      /\ \A x \in Pages : w.base[x] \in Nat
      /\ w.last > 0 => m_tail = w.at[w.last] /\ Valid(w, w.last) /\ w.head <= w.last
      /\ w.last = 0 => w.head = 1
      /\ \A i \in Live(w) : Valid(w, i)
  BY TrailFacts
<1>n. w.last > 0 => ~SamePage(w.at[w.last], FirstBlock(q))
  BY <1>3, <1>b DEF Valid, SamePage
<1>2. /\ v \in Trail /\ v.last = w.last + 1 /\ v.head = w.head /\ v.at[v.last] = FirstBlock(q)
      /\ \A i \in Index(w) : v.at[i] = w.at[i]
      /\ \A x \in Pages : v.base[x] = IF x = q THEN w.last + 1 ELSE w.base[x]
  BY <1>0, <1>1, <1>b, <1>n, ExtendedFacts
<1>4. EndsOK(v)'
  <2>1. CASE w.last = 0
    BY <2>1, <1>0, <1>2, <1>3, <1>b, BaseAssumption DEF EndsOK, Index
  <2>2. CASE w.last > 0
    BY <2>2, <1>0, <1>2, <1>3, <1>b DEF EndsOK, Index
  <2> QED
    BY <2>1, <2>2, <1>3
<1>5. StepsOK(v)'
  <2> SUFFICES ASSUME NEW i \in 1 .. (v.last - 1)
               PROVE  IF Continues(v, i) THEN v.at[i][2] < v.at[i + 1][2] ELSE v.at[i + 1][2] = 0
    BY DEF StepsOK, Continues
  <2>1. CASE i = w.last
    BY <2>1, <1>2, <1>3, <1>n, <1>b DEF Continues, Index
  <2>2. CASE i < w.last
    <3>1. i \in 1 .. (w.last - 1) /\ i \in Index(w) /\ i + 1 \in Index(w)
      BY <2>2, <1>2, <1>3 DEF Index
    <3> QED
      BY <3>1, <1>0, <1>2 DEF StepsOK, Continues
  <2> QED
    BY <2>1, <2>2, <1>2, <1>3
<1>k. \A i \in Index(w) : i \in Nat /\ i <= w.last /\ w.at[i] \in Block /\ PageOf(w.at[i]) \in Pages
  BY <1>3, BlockParts DEF Index
<1>6. Keeps(w, v, {})
  <2> SUFFICES ASSUME NEW i \in Index(w)
               PROVE  /\ v.at[i] = w.at[i]
                      /\ Valid(w, i) => Valid(v, i)'
                      /\ Valid(v, i)' => Valid(w, i)
    BY DEF Keeps
  <2>1. v.at[i] = w.at[i] /\ i \in Index(v)
    BY <1>2, <1>3 DEF Index
  <2>2. CASE PageOf(w.at[i]) = q
    <3>1. ~Valid(w, i)
      BY <2>2 DEF Valid
    <3>2. ~(v.base[PageOf(w.at[i])] <= i)
      BY <2>2, <1>2, <1>3, <1>k
    <3> QED
      BY <3>1, <3>2, <2>1 DEF Valid
  <2>3. CASE PageOf(w.at[i]) # q
    BY <2>3, <2>1, <1>2, <1>k DEF Valid
  <2> QED
    BY <2>2, <2>3
<1>7. LivesOK(v)'
  <2>1. v.last \in Index(v) /\ \A i \in Index(v) : i = v.last \/ i \in Index(w)
    BY <1>2, <1>3 DEF Index
  <2>3. ASSUME NEW i \in Index(v)
        PROVE  LET x == PageOf(v.at[i]) IN v.base[x] \in Index(v) /\ v.at[v.base[x]] = FirstBlock(x)
    <3>1. CASE PageOf(v.at[i]) = q
      BY <3>1, <1>2, <2>1
    <3>2. CASE PageOf(v.at[i]) # q
      <4>1. i \in Index(w) /\ v.at[i] = w.at[i]
        BY <3>2, <2>1, <1>2, <1>b
      <4> DEFINE x == PageOf(w.at[i])
      <4>2. x \in Pages /\ w.base[x] \in Index(w) /\ w.at[w.base[x]] = FirstBlock(x)
        BY <4>1, <1>0, <1>k DEF LivesOK
      <4>3. v.base[x] = w.base[x] /\ v.at[w.base[x]] = w.at[w.base[x]]
        BY <4>1, <4>2, <3>2, <1>2
      <4>4. \A k \in Index(w) : k \in Index(v)
        BY <1>2, <1>3 DEF Index
      <4> QED
        BY <4>1, <4>2, <4>3, <4>4
    <3> QED
      BY <3>1, <3>2
  <2>4. ASSUME NEW i \in Index(v), NEW j \in Index(v), i < j, v.base[PageOf(v.at[i])] <= i,
               SamePage(v.at[i], v.at[j])
        PROVE  /\ v.at[i][2] < v.at[j][2]
               /\ \A k \in i .. j : SamePage(v.at[i], v.at[k])
    <3>1. i \in Index(w) /\ v.at[i] = w.at[i] /\ w.at[i] \in Block
      BY <2>1, <2>4, <1>2, <1>3 DEF Index
    <3>2. PageOf(w.at[i]) # q /\ w.base[PageOf(w.at[i])] <= i
      BY <3>1, <2>4, <1>2, <1>3, <1>k
    <3>3. j \in Index(w)
      BY <3>1, <3>2, <2>1, <2>4, <1>2, <1>b DEF SamePage
    <3>4. /\ w.at[i][2] < w.at[j][2]
          /\ \A k \in i .. j : SamePage(w.at[i], w.at[k])
      BY <3>1, <3>2, <3>3, <2>4, <1>0, <1>2 DEF LivesOK
    <3>5. \A k \in i .. j : v.at[k] = w.at[k]
      BY <1>2, <1>3, <3>1, <3>3 DEF Index
    <3> QED
      BY <3>4, <3>5, <3>1, <3>3, <1>2
  <2>5. \A i \in Live(v) : Valid(v, i)'
    <3> SUFFICES ASSUME NEW i \in Live(v) PROVE Valid(v, i)'
      OBVIOUS
    <3>1. CASE i \in Live(w)
      <4>1. Valid(w, i) /\ i \in Index(w)
        BY <3>1, <1>3 DEF Valid
      <4> QED
        BY <4>1, <1>6 DEF Keeps
    <3>2. CASE i = v.last
      BY <3>2, <1>2, <1>3, <1>b, <2>1 DEF Valid
    <3> QED
      BY <3>1, <3>2, <1>2, <1>3 DEF Live
  <2> QED
    BY <2>3, <2>4, <2>5 DEF LivesOK, Live, Index
<1> QED
  BY <1>1, <1>2, <1>4, <1>5, <1>6, <1>7 DEF Shape

\* The head goes to the next block.
LEMMA TrailAdvances ==
    ASSUME NEW w, Shape(w), TypesTrail', w.head < w.last, m_head # NoBlock,
           m_head' = w.at[w.head + 1], UNCHANGED <<m_tail, m_initial_page>>,
           \A x \in Pages : New(x)' <=> New(x)
    PROVE  Shape(Advanced(w))' /\ Keeps(w, Advanced(w), {})
<1>0. w \in Trail /\ EndsOK(w) /\ StepsOK(w) /\ LivesOK(w)
  BY DEF Shape
<1>1. PICK v : v = Advanced(w)
  OBVIOUS
<1>2. v \in Trail /\ v.last = w.last /\ v.head = w.head + 1 /\ v.at = w.at /\ v.base = w.base
  BY <1>0, <1>1, AdvancedFacts
<1>3. /\ w.head \in Nat /\ w.last \in Nat /\ w.head > 0
      /\ \A i \in Nat : w.at[i] \in Block
  BY TrailFacts
<1>4. w.at[w.head + 1] # NoBlock
  BY <1>3, BlockParts
<1>5. EndsOK(v)'
  BY <1>0, <1>2, <1>3, <1>4 DEF EndsOK, Index
<1>6. Keeps(w, v, {})
  BY <1>2, <1>3, BlockParts DEF Keeps, Valid, Index
<1>7. LivesOK(v)'
  <2>1. \A i \in Live(v) : i \in Live(w) /\ i \in Index(w)
    BY <1>2, <1>3 DEF Live, Index
  <2>2. \A i \in Live(v) : Valid(v, i)'
    BY <2>1, <1>0, <1>6 DEF Keeps, LivesOK
  <2> QED
    BY <1>0, <1>2, <2>2 DEF LivesOK, Index, Live
<1>8. StepsOK(v)'
  BY <1>0, <1>2 DEF StepsOK, Continues
<1> QED
  BY <1>1, <1>2, <1>5, <1>6, <1>7, <1>8 DEF Shape

---------------------------------------------------------------------------
(* Types *)

\* The order of the queue, but for what the elements are.
Core(w) ==
    /\ Shape(w) /\ WordsTrail(w) /\ PagesHeld(w) /\ PinsHeld
    /\ AloneInside /\ PuttersOK(w) /\ TakersOK(w)

\* What is known of a producer.
LEMMA ProducerKnown ==
    ASSUME NEW w, Core(w), NEW p \in Producers
    PROVE  /\ TypeOK /\ WordsOK /\ prod[p] \in Producer /\ AllocationOK(p) /\ PutterOK(w, p)
           /\ m_tail \in Block \cup {InvalidBlock}
           /\ PAt(p, "store") => ReservedEnd(p) \in Block /\ ReservedEnd(p) = NewTail(prod[p].tail, prod[p].size)
                                 /\ prod[p].tail = m_tail /\ SamePage(m_tail, ReservedEnd(p))
                                 /\ m_tail[2] < ReservedEnd(p)[2]
           /\ Putting(p) => prod[p].control \in Block /\ prod[p].next.to \in Block
                            /\ m_next[prod[p].control] = prod[p].next
           /\ ~PAt(p, "idle") => Current(p) \in Element
<1>1. TypeOK /\ WordsOK /\ AllocationOK(p) /\ PutterOK(w, p)
  BY DEF Core, Shape, TypesTrail, PuttersOK
<1>2. prod[p] \in Producer /\ m_tail \in Block \cup {InvalidBlock}
  BY <1>1 DEF TypeOK, TailTypeOK
<1>3. PAt(p, "store") => ReservedEnd(p) \in Block /\ ReservedEnd(p) = NewTail(prod[p].tail, prod[p].size)
                         /\ prod[p].tail = m_tail /\ SamePage(m_tail, ReservedEnd(p))
                         /\ m_tail[2] < ReservedEnd(p)[2]
  <2> SUFFICES ASSUME PAt(p, "store") PROVE /\ ReservedEnd(p) \in Block /\ ReservedEnd(p) = NewTail(prod[p].tail, prod[p].size)
                         /\ prod[p].tail = m_tail /\ SamePage(m_tail, ReservedEnd(p))
                         /\ m_tail[2] < ReservedEnd(p)[2]
    OBVIOUS
  <2>1. /\ prod[p].tail = m_tail /\ m_tail \in Block /\ m_tail[2] + prod[p].size <= EndSlot
        /\ prod[p].size \in Nat /\ prod[p].size > 0
    BY <1>1, <1>2 DEF AllocationOK, PAt, Producer
  <2>2. ReservedEnd(p) = <<m_tail[1], m_tail[2] + prod[p].size>>
    BY <2>1 DEF ReservedEnd, NewTail
  <2>3. ReservedEnd(p) \in Block
    BY <2>1, <2>2, BlockAfter
  <2>4. m_tail[2] \in Nat
    BY <2>1, BlockParts
  <2> QED
    BY <2>1, <2>2, <2>3, <2>4 DEF SamePage, PageOf, ReservedEnd
<1>4. Putting(p) => prod[p].control \in Block /\ prod[p].next.to \in Block /\ m_next[prod[p].control] = prod[p].next
  <2> SUFFICES ASSUME Putting(p) PROVE prod[p].control \in Block /\ prod[p].next.to \in Block /\ m_next[prod[p].control] = prod[p].next
    OBVIOUS
  <2>1. prod[p].control \in Block
    BY <1>2, Addresses DEF Putting, Producer
  <2>2. m_next[prod[p].control] = prod[p].next /\ "busy" \in prod[p].next.flags
    BY <1>1 DEF PutterOK
  <2> QED
    BY <2>1, <2>2, <1>1 DEF WordsOK
<1>5. ~PAt(p, "idle") => Current(p) \in Element
  BY <1>1, <1>2 DEF AllocationOK, Current, Element, PAt
<1> QED
  BY <1>1, <1>2, <1>3, <1>4, <1>5

\* A step of a producer leaves the consumers as they are.
LEMMA ProducerTypes ==
    ASSUME TypesTrail, UNCHANGED <<headVars, pinners, m_rest, layers, alive>>,
           BaseTypeOK', WordsOK', m_tail' \in Block \cup {InvalidBlock}, prod' \in [Producers -> Producer]
    PROVE  TypesTrail'
<1>1. TypeOK'
  <2>1. HeadTypeOK'
    BY DEF TypesTrail, TypeOK, HeadTypeOK, headVars, history
  <2>2. TailTypeOK'
    BY DEF TypesTrail, TypeOK, TailTypeOK
  <2> QED
    BY <2>1, <2>2 DEF TypeOK
<1>2. consume = "multiple" => ConsumersOK' /\ ControlPinned'
  BY DEF TypesTrail, ConsumersOK, ConsumerOK, ControlPinned, headVars
<1> QED
  BY <1>1, <1>2 DEF TypesTrail, layers

\* One producer's record changes.
LEMMA ProducerSet ==
    ASSUME TypeOK, NEW p \in Producers, NEW r \in Producer, prod' = [prod EXCEPT ![p] = r]
    PROVE  prod' \in [Producers -> Producer] /\ prod'[p] = r /\ \A q \in Producers \ {p} : prod'[q] = prod[q]
BY DEF TypeOK, TailTypeOK

\* The null values have their types.
LEMMA Nulls ==
    /\ NoBlock \in BlockOrNull /\ Zero \in NextPtr /\ 0 \in 0 .. MaxPuts /\ 0 \in 0 .. MaxRaw
    /\ NoPage \in Pages \cup {NoPage} /\ {} \in SUBSET Flag /\ {"busy"} \in SUBSET Flag /\ {"dead"} \in SUBSET Flag
    /\ \A b \in Block : b \in BlockOrNull
    /\ \A b \in Block \cup {InvalidBlock} : b \in BlockOrNull \cup {InvalidBlock}
BY BaseAssumption DEF BlockOrNull, NextPtr, Zero, Flag

\* The records of a producer that has ended an allocation, or a put.
LEMMA EndedRecords ==
    ASSUME NEW p \in Producers, prod[p] \in Producer, NEW pc \in ProducerPC
    PROVE  /\ NewProducer \in Producer
           /\ [NewProducer EXCEPT !.puts = prod[p].puts] \in Producer
           /\ [prod[p] EXCEPT !.pc = pc] \in Producer
           /\ Done(p, pc) \in Producer
           /\ Done(p, pc).pc = pc /\ Done(p, pc).puts = prod[p].puts /\ Done(p, pc).raws = prod[p].raws
           /\ Done(p, pc).flags = {} /\ Done(p, pc).control = prod[p].control /\ Done(p, pc).next = prod[p].next
<1>1. [NewProducer EXCEPT !.puts = prod[p].puts] \in Producer
  BY Nulls, TailAssumption, BaseAssumption DEF NewProducer, Producer, ProducerPC
<1>2. NewProducer \in Producer
  BY Nulls, TailAssumption, BaseAssumption DEF NewProducer, Producer, ProducerPC
<1>3. [prod[p] EXCEPT !.pc = pc] \in Producer
  BY DEF Producer
<1>4. Done(p, pc) \in Producer
  BY Nulls DEF Done, Producer, ProducerPC
<1>5. /\ Done(p, pc).pc = pc /\ Done(p, pc).puts = prod[p].puts /\ Done(p, pc).raws = prod[p].raws
      /\ Done(p, pc).flags = {} /\ Done(p, pc).control = prod[p].control /\ Done(p, pc).next = prod[p].next
  BY DEF Done, Producer
<1> QED
  BY <1>1, <1>2, <1>3, <1>4, <1>5

\* Only producer p moves, and to a record.
Moved(p) ==
    /\ prod' \in [Producers -> Producer] /\ prod'[p] \in Producer
    /\ \A q \in Producers \ {p} : prod'[q] = prod[q]

\* A producer moves, with a new record.
LEMMA MovedTo ==
    ASSUME TypeOK, NEW p \in Producers, NEW r \in Producer, prod' = [prod EXCEPT ![p] = r]
    PROVE  Moved(p) /\ prod'[p] = r
BY ProducerSet DEF Moved

\* An allocation starts.
LEMMA AllocateMoved ==
    ASSUME TypeOK, NEW p \in Producers, NEW q \in Producer, NEW item \in Item, NEW size \in Sizes,
           NEW flags \in SUBSET Flag, "external" \notin flags, Allocate(p, q, item, size, flags)
    PROVE  /\ Moved(p) /\ heap' \subseteq Item
           /\ prod'[p].pc = "load_tail" /\ prod'[p].size > 0
           /\ prod'[p].flags \in {flags, flags \cup {"external"}}
           /\ prod'[p].puts = q.puts /\ prod'[p].raws = q.raws
           /\ prod'[p].control = q.control /\ prod'[p].next = q.next
           /\ heap' = IF "external" \in prod'[p].flags THEN heap \cup {item} ELSE heap
<1>1. size \in Nat /\ size > 0
  BY TailAssumption
<1>n. PICK n \in Nat : n > 0 /\ n = IF External(size) THEN 1 ELSE size
  BY <1>1
<1>f. PICK f \in SUBSET Flag : f = IF External(size) THEN flags \cup {"external"} ELSE flags
  BY DEF Flag
<1> DEFINE r == [q EXCEPT !.pc = "load_tail", !.size = n, !.flags = f]
<1>2. r \in Producer
  BY DEF Producer, ProducerPC
<1>r. /\ r.pc = "load_tail" /\ r.size = n /\ r.flags = f /\ r.puts = q.puts /\ r.raws = q.raws
      /\ r.control = q.control /\ r.next = q.next
  BY DEF Producer
<1>3. prod' = [prod EXCEPT ![p] = r] /\ heap' = IF External(size) THEN heap \cup {item} ELSE heap
  BY <1>n, <1>f DEF Allocate
<1> HIDE DEF r
<1>4. heap \subseteq Item
  BY DEF TypeOK, BaseTypeOK
<1>5. Moved(p) /\ prod'[p] = r
  BY <1>2, <1>3, MovedTo
<1>6. heap' \subseteq Item
  BY <1>3, <1>4
<1>7. f \in {flags, flags \cup {"external"}} /\ ("external" \in f <=> External(size))
  BY <1>f
<1> QED
  BY <1>5, <1>6, <1>3, <1>r, <1>n, <1>7

---------------------------------------------------------------------------
(* The steps of a producer that write no words *)

\* The queue is asked for a block.
Asking(p) ==
    \/ \E size \in Sizes, g \in Guarantees : StartPut(p, size, g) \/ SpinStartPut(p, size, g)
    \/ \E size \in Sizes : RawAllocate(p, size) \/ SpinRawAllocate(p, size)

\* The allocation goes on or ends, with nothing written.
Going(p) ==
    \/ LoadTail(p) \/ Lock(p) \/ TryLockFails(p) \/ RefuseExternal(p) \/ UnlockForExternal(p)
    \/ PAt(p, "try") /\ NoNewPage(p)
    \/ GiveUp(p)
    \/ put = "spin" /\ Unlock(p)

\* The allocation of p goes on, or ends, and no word is written.
Quiet(p) ==
    /\ Moved(p) /\ heap' \subseteq Item
    /\ UNCHANGED <<m_next, content, pool, pinners, m_initial_page, status, m_tail, m_rest>>
    /\ prod'[p].control = prod[p].control /\ (Putting(p) => prod'[p].next = prod[p].next)
    /\ AllocationOK(p)'
    /\ prod[p].pc \notin {"link_page", "init_page", "store", "fill"}
    /\ prod'[p].pc \notin {"link_page", "init_page", "store", "settle"}
    /\ prod'[p].pc = "fill" =>
         /\ prod[p].pc = "settle" /\ prod'[p].tail = prod[p].tail /\ prod'[p].size = prod[p].size
         /\ prod'[p].flags = prod[p].flags
    /\ prod[p].pc = "settle" => prod'[p].pc = "fill"

\* Starting a put, or asking for a raw block.
LEMMA AskingQuiet ==
    ASSUME NEW w, Core(w), NEW p \in Producers, Asking(p)
    PROVE  /\ Quiet(p) /\ prod'[p].pc = "load_tail"
           /\ \/ PAt(p, "idle") /\ prod'[p].puts = prod[p].puts + 1 /\ prod'[p].raws = 0
                 /\ prod'[p].flags \in {{"busy"}, {"busy", "external"}}
              \/ PAt(p, "pending") /\ prod'[p].puts = prod[p].puts /\ prod'[p].raws = prod[p].raws + 1
                 /\ prod'[p].flags \in {{"dead"}, {"dead", "external"}}
           /\ heap' = IF "external" \in prod'[p].flags THEN heap \cup {Allocating(p)'} ELSE heap
<1>0. TypeOK /\ prod[p] \in Producer /\ AllocationOK(p)
  BY ProducerKnown
<1>1. prod[p].puts \in 0 .. MaxPuts /\ prod[p].raws \in 0 .. MaxRaw /\ heap \subseteq Item /\ MaxPuts \in Nat /\ MaxRaw \in Nat
  BY <1>0, BaseAssumption DEF Producer, TypeOK, BaseTypeOK
<1>2. UNCHANGED <<m_next, content, pool, pinners, m_initial_page, status, m_tail, m_rest>>
  BY DEF Asking, StartPut, SpinStartPut, RawAllocate, SpinRawAllocate, baseVars
<1>b. "dead" \notin {"busy"} /\ "external" \notin {"busy"} /\ "external" \notin {"dead"}
  OBVIOUS
<1>3. CASE \E size \in Sizes, g \in Guarantees : StartPut(p, size, g) \/ SpinStartPut(p, size, g)
  <2>1. PICK size \in Sizes, g \in Guarantees : StartPut(p, size, g) \/ SpinStartPut(p, size, g)
    BY <1>3
  <2>2. PAt(p, "idle") /\ prod[p].puts < MaxPuts
    BY <2>1 DEF StartPut, SpinStartPut
  <2>k. PICK k \in 1 .. MaxPuts : k = prod[p].puts + 1
    BY <2>2, <1>1
  <2>g. k \in 0 .. MaxPuts /\ g \in Guarantees \cup {"none"} /\ size \in Nat /\ size > 0
    BY <2>k, <1>1, TailAssumption
  <2>c. prod[p].control = NoBlock
    BY <2>2, <1>0 DEF AllocationOK, Putting, PAt
  <2>3. /\ Moved(p) /\ heap' \subseteq Item
        /\ prod'[p].pc = "load_tail" /\ prod'[p].size > 0
        /\ prod'[p].flags \in {{"busy"}, {"busy"} \cup {"external"}}
        /\ prod'[p].puts = k /\ prod'[p].raws = 0
        /\ prod'[p].control = NoBlock
        /\ heap' = IF "external" \in prod'[p].flags THEN heap \cup {<<p, k, 0>>} ELSE heap
    <3>1. CASE StartPut(p, size, g)
      <4> DEFINE q == [NewProducer EXCEPT !.puts = k, !.guarantee = g]
      <4>1. q \in Producer
        BY <2>g, Nulls DEF NewProducer, Producer, ProducerPC
      <4>2. q.puts = k /\ q.raws = 0 /\ q.control = NoBlock
        BY DEF NewProducer
      <4>3. Allocate(p, q, <<p, k, 0>>, size, {"busy"}) /\ <<p, k, 0>> \in Item /\ {"busy"} \in SUBSET Flag
        BY <3>1, <2>k, Nulls DEF StartPut, Item
      <4> HIDE DEF q
      <4> QED
        BY <1>0, <4>1, <4>2, <4>3, AllocateMoved, <1>b
    <3>2. CASE SpinStartPut(p, size, g)
      <4> DEFINE r == [NewProducer EXCEPT !.pc = "load_tail", !.puts = k,
                                      !.guarantee = g, !.size = size, !.flags = {"busy"}]
      <4>1. r \in Producer
        BY <2>g, Nulls DEF NewProducer, Producer, ProducerPC
      <4>2. r.puts = k /\ r.raws = 0 /\ r.control = NoBlock /\ r.pc = "load_tail" /\ r.size = size
            /\ r.flags = {"busy"}
        BY DEF NewProducer
      <4>3. prod' = [prod EXCEPT ![p] = r] /\ heap' = heap
        BY <3>2, <2>k DEF SpinStartPut, baseVars
      <4> HIDE DEF r
      <4>4. Moved(p) /\ prod'[p] = r
        BY <1>0, <4>1, <4>3, MovedTo
      <4> QED
        BY <4>4, <4>2, <4>3, <1>1, TailAssumption
    <3> QED
      BY <2>1, <3>1, <3>2
  <2>4. AllocationOK(p)'
    BY <2>3 DEF AllocationOK, Putting
  <2>5. Allocating(p)' = <<p, k, 0>>
    BY <2>3 DEF Allocating
  <2> QED
    BY <1>2, <2>2, <2>c, <2>3, <2>4, <2>5, <2>k DEF Quiet, PAt, Putting
<1>4. CASE \E size \in Sizes : RawAllocate(p, size) \/ SpinRawAllocate(p, size)
  <2>1. PICK size \in Sizes : RawAllocate(p, size) \/ SpinRawAllocate(p, size)
    BY <1>4
  <2>2. PAt(p, "pending") /\ prod[p].raws < MaxRaw
    BY <2>1 DEF RawAllocate, SpinRawAllocate
  <2>k. PICK k \in 0 .. MaxRaw : k = prod[p].raws + 1
    BY <2>2, <1>1
  <2>c. Putting(p) /\ prod[p].puts \in 1 .. MaxPuts
    BY <2>2, <1>0 DEF AllocationOK, PAt
  <2>3. /\ Moved(p) /\ heap' \subseteq Item
        /\ prod'[p].pc = "load_tail" /\ prod'[p].size > 0
        /\ prod'[p].flags \in {{"dead"}, {"dead"} \cup {"external"}}
        /\ prod'[p].puts = prod[p].puts /\ prod'[p].raws = k
        /\ prod'[p].control = prod[p].control /\ prod'[p].next = prod[p].next
        /\ heap' = IF "external" \in prod'[p].flags THEN heap \cup {<<p, prod[p].puts, k>>} ELSE heap
    <3>1. CASE RawAllocate(p, size)
      <4> DEFINE q == [prod[p] EXCEPT !.raws = k]
      <4>1. q \in Producer
        BY <1>0 DEF Producer
      <4>2. q.puts = prod[p].puts /\ q.raws = k /\ q.control = prod[p].control /\ q.next = prod[p].next
        BY <1>0 DEF Producer
      <4>3. Allocate(p, q, <<p, prod[p].puts, k>>, size, {"dead"}) /\ <<p, prod[p].puts, k>> \in Item
            /\ {"dead"} \in SUBSET Flag
        BY <3>1, <2>k, <2>c, Nulls DEF RawAllocate, Item
      <4> HIDE DEF q
      <4> QED
        BY <1>0, <4>1, <4>2, <4>3, AllocateMoved, <1>b
    <3>2. CASE SpinRawAllocate(p, size)
      <4> DEFINE r == [prod[p] EXCEPT !.pc = "load_tail", !.raws = k,
                            !.size = size, !.flags = {"dead"}]
      <4>1. r \in Producer
        BY <1>0, Nulls, TailAssumption DEF Producer, ProducerPC
      <4>2. r.puts = prod[p].puts /\ r.raws = k /\ r.control = prod[p].control /\ r.next = prod[p].next
            /\ r.pc = "load_tail" /\ r.size = size /\ r.flags = {"dead"}
        BY <1>0 DEF Producer
      <4>3. prod' = [prod EXCEPT ![p] = r] /\ heap' = heap
        BY <3>2, <2>k DEF SpinRawAllocate, baseVars
      <4> HIDE DEF r
      <4>4. Moved(p) /\ prod'[p] = r
        BY <1>0, <4>1, <4>3, MovedTo
      <4> QED
        BY <4>4, <4>2, <4>3, <1>1, TailAssumption
    <3> QED
      BY <2>1, <3>1, <3>2
  <2>4. AllocationOK(p)'
    BY <2>3, <2>c DEF AllocationOK, Putting
  <2>5. Allocating(p)' = <<p, prod[p].puts, k>>
    BY <2>3 DEF Allocating
  <2> QED
    BY <1>2, <2>2, <2>c, <2>3, <2>4, <2>5, <2>k DEF Quiet, PAt, Putting
<1> QED
  BY <1>3, <1>4 DEF Asking

\* What is being allocated stays the same until the end.
LEMMA GoingQuiet ==
    ASSUME NEW w, Core(w), NEW p \in Producers, Going(p)
    PROVE  /\ Quiet(p)
           /\ prod'[p].puts = prod[p].puts
           /\ \/ /\ prod'[p].pc \in {"load_tail", "try", "give_up", "fill"} /\ prod'[p].raws = prod[p].raws
                 /\ \/ prod'[p].flags = prod[p].flags /\ heap' = heap
                    \/ prod'[p].flags = prod[p].flags \cup {"external"} /\ heap' = heap \cup {Allocating(p)}
              \/ /\ prod[p].pc = "give_up" /\ heap' = heap \ {Allocating(p)} /\ prod'[p].flags = {}
                 /\ prod'[p].pc = IF Putting(p) THEN "pending" ELSE "idle"
                 /\ prod'[p].raws = IF Putting(p) THEN prod[p].raws ELSE 0
           /\ prod[p].pc \notin {"idle", "pending", "fill"}
<1>0. TypeOK /\ prod[p] \in Producer /\ AllocationOK(p) /\ m_tail \in Block \cup {InvalidBlock}
  BY ProducerKnown
<1>1. prod[p].puts \in 0 .. MaxPuts /\ prod[p].raws \in 0 .. MaxRaw /\ heap \subseteq Item /\ m_rest \in Nat
  BY <1>0, BaseAssumption DEF Producer, TypeOK, BaseTypeOK, TailTypeOK
<1>2. UNCHANGED <<m_next, content, pool, pinners, m_initial_page, status, m_tail, m_rest>>
  BY DEF Going, LoadTail, Lock, TryLockFails, RefuseExternal, UnlockForExternal, NoNewPage, GiveUp, Unlock, baseVars
<1>3. CASE LoadTail(p) \/ Lock(p)
  <2>1. PICK k \in Nat : PAt(p, "load_tail") /\ Retry(p, m_tail, k) /\ heap' = heap
    BY <1>3, <1>1 DEF LoadTail, Lock, baseVars
  <2> DEFINE r == [prod[p] EXCEPT !.pc = "try", !.tail = m_tail, !.rest = k]
  <2>2. r \in Producer
    BY <1>0, Nulls DEF Producer, ProducerPC
  <2>3. /\ r.pc = "try" /\ r.tail = m_tail /\ r.puts = prod[p].puts /\ r.raws = prod[p].raws
        /\ r.size = prod[p].size /\ r.flags = prod[p].flags
        /\ r.control = prod[p].control /\ r.next = prod[p].next
    BY <1>0 DEF Producer
  <2>4. prod' = [prod EXCEPT ![p] = r]
    BY <2>1 DEF Retry
  <2> HIDE DEF r
  <2>5. Moved(p) /\ prod'[p] = r
    BY <1>0, <2>2, <2>4, MovedTo
  <2>6. AllocationOK(p)'
    BY <2>1, <2>3, <2>5, <1>0, <1>2 DEF AllocationOK, Putting, PAt
  <2> QED
    BY <1>1, <1>2, <2>1, <2>3, <2>5, <2>6 DEF Quiet, PAt
<1>4. CASE TryLockFails(p) \/ RefuseExternal(p) \/ (PAt(p, "try") /\ NoNewPage(p)) \/ (put = "spin" /\ Unlock(p))
  <2>1. PICK pc \in {"give_up", "fill"} : PGoto(p, pc) /\ heap' = heap
    BY <1>4 DEF TryLockFails, RefuseExternal, NoNewPage, Unlock, baseVars
  <2>p. \/ pc = "give_up" /\ prod[p].pc \in {"load_tail", "try"}
        \/ pc = "fill" /\ prod[p].pc = "settle"
    <3>1. prod'[p].pc = pc
      BY <2>1, <1>0 DEF PGoto, TypeOK, TailTypeOK, Producer
    <3>2. TryLockFails(p) => PGoto(p, "give_up") /\ PAt(p, "load_tail")
      BY DEF TryLockFails
    <3>3. RefuseExternal(p) \/ (PAt(p, "try") /\ NoNewPage(p)) => PGoto(p, "give_up") /\ PAt(p, "try")
      BY DEF RefuseExternal, NoNewPage
    <3>4. Unlock(p) => PGoto(p, "fill") /\ PAt(p, "settle")
      BY DEF Unlock
    <3>5. \A s \in {"give_up", "fill"} : PGoto(p, s) => prod'[p].pc = s
      BY <1>0 DEF PGoto, TypeOK, TailTypeOK, Producer
    <3> QED
      BY <1>4, <3>1, <3>2, <3>3, <3>4, <3>5 DEF PAt
  <2> DEFINE r == [prod[p] EXCEPT !.pc = pc]
  <2>2. r \in Producer
    BY <1>0 DEF Producer, ProducerPC
  <2>3. /\ r.pc = pc /\ r.tail = prod[p].tail /\ r.puts = prod[p].puts /\ r.raws = prod[p].raws
        /\ r.size = prod[p].size /\ r.flags = prod[p].flags
        /\ r.control = prod[p].control /\ r.next = prod[p].next
    BY <1>0 DEF Producer
  <2>4. prod' = [prod EXCEPT ![p] = r]
    BY <2>1 DEF PGoto
  <2> HIDE DEF r
  <2>5. Moved(p) /\ prod'[p] = r
    BY <1>0, <2>2, <2>4, MovedTo
  <2>6. AllocationOK(p)'
    BY <2>p, <2>3, <2>5, <1>0, <1>2 DEF AllocationOK, Putting
  <2> QED
    BY <1>1, <1>2, <2>1, <2>p, <2>3, <2>5, <2>6 DEF Quiet
<1>5. CASE UnlockForExternal(p)
  <2>f. PICK f \in SUBSET Flag : f = prod[p].flags \cup {"external"}
    BY <1>0 DEF Flag, Producer
  <2> DEFINE r == [prod[p] EXCEPT !.pc = "load_tail", !.size = 1, !.flags = f]
  <2>2. r \in Producer
    BY <1>0 DEF Producer, ProducerPC
  <2>3. /\ r.pc = "load_tail" /\ r.tail = prod[p].tail /\ r.puts = prod[p].puts /\ r.raws = prod[p].raws
        /\ r.size = 1 /\ r.flags = f
        /\ r.control = prod[p].control /\ r.next = prod[p].next
    BY <1>0 DEF Producer
  <2>4. prod' = [prod EXCEPT ![p] = r] /\ heap' = heap \cup {Allocating(p)} /\ PAt(p, "try")
    BY <1>5, <2>f DEF UnlockForExternal
  <2> HIDE DEF r
  <2>5. Moved(p) /\ prod'[p] = r
    BY <1>0, <2>2, <2>4, MovedTo
  <2>6. AllocationOK(p)'
    BY <2>4, <2>3, <2>5, <2>f, <1>0, <1>2 DEF AllocationOK, Putting, PAt
  <2>7. Allocating(p) \in Item
    BY <2>4, <1>0, <1>1, Nulls DEF Allocating, Item, AllocationOK, PAt
  <2> QED
    BY <1>1, <1>2, <2>3, <2>4, <2>5, <2>6, <2>7, <2>f DEF Quiet, PAt
<1>6. CASE GiveUp(p)
  <2>1. PAt(p, "give_up") /\ heap' = heap \ {Allocating(p)}
    BY <1>6 DEF GiveUp, Fail
  <2>2. CASE prod[p].control = NoBlock
    <3> DEFINE r == [NewProducer EXCEPT !.puts = prod[p].puts]
    <3>1. r \in Producer /\ r.pc = "idle" /\ r.puts = prod[p].puts /\ r.raws = 0 /\ r.flags = {} /\ r.control = NoBlock
      BY <1>0, EndedRecords DEF NewProducer, ProducerPC
    <3>2. prod' = [prod EXCEPT ![p] = r]
      BY <1>6, <2>2 DEF GiveUp, Fail
    <3> HIDE DEF r
    <3>3. Moved(p) /\ prod'[p] = r
      BY <1>0, <3>1, <3>2, MovedTo
    <3>4. AllocationOK(p)'
      BY <3>1, <3>3 DEF AllocationOK, Putting
    <3> QED
      BY <1>1, <1>2, <2>1, <2>2, <3>1, <3>3, <3>4 DEF Quiet, PAt, Putting
  <2>3. CASE prod[p].control # NoBlock
    <3> DEFINE r == Done(p, "pending")
    <3>1. /\ r \in Producer /\ r.pc = "pending" /\ r.puts = prod[p].puts /\ r.raws = prod[p].raws /\ r.flags = {}
          /\ r.control = prod[p].control /\ r.next = prod[p].next
      <4>1. "pending" \in ProducerPC
        BY DEF ProducerPC
      <4> QED
        BY <4>1, <1>0, EndedRecords
    <3>2. prod' = [prod EXCEPT ![p] = r]
      BY <1>6, <2>3 DEF GiveUp, Fail
    <3> HIDE DEF r
    <3>3. Moved(p) /\ prod'[p] = r
      BY <1>0, <3>1, <3>2, MovedTo
    <3>4. AllocationOK(p)'
      BY <3>1, <3>3, <2>1, <2>3, <1>0 DEF AllocationOK, Putting, PAt
    <3> QED
      BY <1>1, <1>2, <2>1, <2>3, <3>1, <3>3, <3>4 DEF Quiet, PAt, Putting
  <2> QED
    BY <2>2, <2>3
<1> QED
  BY <1>3, <1>4, <1>5, <1>6 DEF Going

---------------------------------------------------------------------------
(* The steps of a producer that write *)

\* The producer goes on, and what it allocates is the same.
LEMMA GotoMoved ==
    ASSUME TypeOK, NEW p \in Producers, NEW pc \in ProducerPC, PGoto(p, pc)
    PROVE  /\ Moved(p) /\ prod'[p].pc = pc /\ prod'[p].tail = prod[p].tail /\ prod'[p].puts = prod[p].puts
           /\ prod'[p].raws = prod[p].raws /\ prod'[p].size = prod[p].size /\ prod'[p].flags = prod[p].flags
           /\ prod'[p].control = prod[p].control /\ prod'[p].next = prod[p].next
           /\ prod'[p].new_page = prod[p].new_page
<1>0. prod[p] \in Producer
  BY DEF TypeOK, TailTypeOK
<1> DEFINE r == [prod[p] EXCEPT !.pc = pc]
<1>1. r \in Producer
  BY <1>0 DEF Producer
<1>2. /\ r.pc = pc /\ r.tail = prod[p].tail /\ r.puts = prod[p].puts
      /\ r.raws = prod[p].raws /\ r.size = prod[p].size /\ r.flags = prod[p].flags
      /\ r.control = prod[p].control /\ r.next = prod[p].next /\ r.new_page = prod[p].new_page
  BY <1>0 DEF Producer
<1>3. prod' = [prod EXCEPT ![p] = r]
  BY DEF PGoto
<1> HIDE DEF r
<1>4. Moved(p) /\ prod'[p] = r
  BY <1>1, <1>3, MovedTo
<1> QED
  BY <1>2, <1>4

\* A word is written.
LEMMA WordTyped ==
    ASSUME BaseTypeOK, WordsOK, NEW b \in Block, NEW n \in NextPtr, n.flags \cap {"busy", "dead"} # {} => n.to \in Block,
           m_next' = [m_next EXCEPT ![b] = n]
    PROVE  m_next' \in [Block -> NextPtr] /\ WordsOK' /\ m_next'[b] = n
           /\ \A a \in Block : a # b => m_next'[a] = m_next[a]
BY DEF BaseTypeOK, WordsOK

\* null_terminate: the block after the new one.
LEMMA NullTerminateFacts ==
    ASSUME NEW w, Core(w), NEW p \in Producers, NullTerminate(p)
    PROVE  /\ Moved(p) /\ AllocationOK(p)' /\ BaseTypeOK' /\ WordsOK'
           /\ PAt(p, "try") /\ PAt(p, "store")'
           /\ \E r \in Block : /\ SamePage(m_tail, r) /\ m_tail[2] < r[2] /\ r = ReservedEnd(p)'
                               /\ m_next' = [m_next EXCEPT ![r] = Zero]
           /\ m_tail \in Block
           /\ prod'[p].control = prod[p].control /\ prod'[p].next = prod[p].next
           /\ prod'[p].flags = prod[p].flags /\ prod'[p].puts = prod[p].puts /\ prod'[p].raws = prod[p].raws
           /\ prod'[p].size = prod[p].size /\ prod'[p].tail = prod[p].tail
           /\ UNCHANGED <<content, pool, pinners, heap, m_initial_page, status, m_tail, m_rest>>
<1>0. TypeOK /\ WordsOK /\ prod[p] \in Producer /\ AllocationOK(p) /\ m_tail \in Block \cup {InvalidBlock}
  BY ProducerKnown
<1>1. PAt(p, "try") /\ PGoto(p, "store") /\ Fits(p)
      /\ UNCHANGED <<content, pool, pinners, heap, m_initial_page, status, m_tail, m_rest>>
      /\ m_next' = [m_next EXCEPT ![NewTail(prod[p].tail, prod[p].size)] = Zero]
  BY DEF NullTerminate
<1>2. "store" \in ProducerPC
  BY DEF ProducerPC
<1>3. /\ Moved(p) /\ prod'[p].pc = "store" /\ prod'[p].tail = prod[p].tail /\ prod'[p].puts = prod[p].puts
      /\ prod'[p].raws = prod[p].raws /\ prod'[p].size = prod[p].size /\ prod'[p].flags = prod[p].flags
      /\ prod'[p].control = prod[p].control /\ prod'[p].next = prod[p].next
  BY <1>0, <1>1, <1>2, GotoMoved
<1>4. prod[p].tail = m_tail /\ prod[p].size \in Nat /\ prod[p].size > 0 /\ m_tail[2] + prod[p].size <= EndSlot
  BY <1>0, <1>1 DEF AllocationOK, Producer, PAt, Fits
<1>5. m_tail \in Block /\ m_tail[2] \in Nat
  <2>1. m_tail # InvalidBlock
    BY <1>4, BaseAssumption DEF InvalidBlock
  <2> QED
    BY <2>1, <1>0, BlockParts
<1> DEFINE b == NewTail(prod[p].tail, prod[p].size)
<1>6. b = <<m_tail[1], m_tail[2] + prod[p].size>> /\ b \in Block
  BY <1>4, <1>5, BlockAfter DEF NewTail
<1>r. PICK r \in Block : r = b
  BY <1>6
<1>7. SamePage(m_tail, r) /\ m_tail[2] < r[2] /\ r = ReservedEnd(p)'
  BY <1>3, <1>4, <1>5, <1>6, <1>r DEF SamePage, PageOf, ReservedEnd, PAt
<1> HIDE DEF b
<1>8. Zero \in NextPtr /\ Zero.flags \cap {"busy", "dead"} = {}
  BY Nulls DEF Zero
<1>9. m_next' \in [Block -> NextPtr] /\ WordsOK' /\ m_next'[r] = Zero
  <2>1. m_next' = [m_next EXCEPT ![r] = Zero]
    BY <1>1, <1>r DEF b
  <2> QED
    BY <2>1, <1>0, <1>8, WordTyped DEF TypeOK
<1>10. BaseTypeOK'
  BY <1>0, <1>1, <1>9 DEF TypeOK, BaseTypeOK
<1>11. AllocationOK(p)'
  BY <1>0, <1>1, <1>3, <1>4, <1>5, <1>7, <1>9 DEF AllocationOK, PAt, Putting
<1> QED
  BY <1>1, <1>3, <1>5, <1>7, <1>9, <1>10, <1>11, <1>r DEF PAt, b

\* The control word of the new block.
LEMMA StoreControlFacts ==
    ASSUME NEW w, Core(w), NEW p \in Producers, NEW pc \in {"settle", "fill"}, StoreControl(p, pc),
           pc = "settle" => put = "spin", put' = put
    PROVE  /\ Moved(p) /\ AllocationOK(p)' /\ BaseTypeOK' /\ WordsOK'
           /\ PAt(p, "store") /\ prod'[p].pc = pc /\ m_tail \in Block
           /\ m_tail' = ReservedEnd(p) /\ m_tail' = NewTail(m_tail, prod[p].size)
           /\ prod[p].tail = m_tail /\ m_next[m_tail'] = Zero /\ m_next'[m_tail'] = Zero
           /\ m_tail' \in Block /\ SamePage(m_tail, m_tail') /\ m_tail[2] < m_tail'[2]
           /\ m_next' = [m_next EXCEPT ![m_tail] = NextWord(m_tail', prod[p].flags)]
           /\ prod'[p].tail = m_tail /\ prod'[p].size = prod[p].size
           /\ prod'[p].flags = prod[p].flags /\ prod'[p].puts = prod[p].puts /\ prod'[p].raws = prod[p].raws
           /\ IF Putting(p)
              THEN /\ prod'[p].control = prod[p].control /\ prod'[p].next = prod[p].next /\ UNCHANGED status
                   /\ "dead" \in prod[p].flags /\ "busy" \notin prod[p].flags
              ELSE /\ prod'[p].control = m_tail /\ prod'[p].next = NextWord(m_tail', prod[p].flags)
                   /\ status' = [status EXCEPT ![Current(p)] = "putting"]
                   /\ "busy" \in prod[p].flags /\ "dead" \notin prod[p].flags
           /\ UNCHANGED <<content, pool, pinners, heap, m_initial_page, m_rest>>
<1>0. TypeOK /\ WordsOK /\ prod[p] \in Producer /\ AllocationOK(p) /\ m_tail \in Block \cup {InvalidBlock}
  BY ProducerKnown
<1> DEFINE b == prod[p].tail
           n == NextWord(ReservedEnd(p), prod[p].flags)
<1>1. /\ PAt(p, "store")
      /\ m_next' = [m_next EXCEPT ![b] = n]
      /\ m_tail' = n.to
      /\ IF "busy" \in n.flags
         THEN /\ status' = [status EXCEPT ![Current(p)] = "putting"]
              /\ prod' = [prod EXCEPT ![p].pc = pc, ![p].control = b, ![p].next = n]
         ELSE PGoto(p, pc) /\ UNCHANGED status
      /\ UNCHANGED <<content, pool, pinners, heap, m_initial_page, m_rest>>
  BY DEF StoreControl
<1>2. /\ ReservedEnd(p) \in Block /\ ReservedEnd(p) = NewTail(prod[p].tail, prod[p].size)
      /\ prod[p].tail = m_tail /\ SamePage(m_tail, ReservedEnd(p))
      /\ m_tail[2] < ReservedEnd(p)[2] /\ Current(p) \in Element
  BY <1>1, ProducerKnown DEF PAt
<1>3. m_tail \in Block /\ m_next[ReservedEnd(p)] = Zero /\ prod[p].puts \in 1 .. MaxPuts /\ prod[p].size > 0
      /\ prod[p].flags \in SUBSET Flag
      /\ IF Putting(p) THEN "dead" \in prod[p].flags /\ "busy" \notin prod[p].flags
             ELSE "busy" \in prod[p].flags /\ "dead" \notin prod[p].flags
  BY <1>0, <1>1 DEF AllocationOK, PAt, Producer
<1>n. n.to = ReservedEnd(p) /\ n.flags = prod[p].flags /\ n \in NextPtr /\ m_tail \in BlockOrNull
  BY <1>2, <1>3, Nulls DEF NextWord, NextPtr
<1>4. m_next' \in [Block -> NextPtr] /\ WordsOK' /\ m_next'[m_tail'] = Zero
  <2>0. PICK nn \in NextPtr : nn = n
    BY <1>n
  <2>1. m_next' = [m_next EXCEPT ![m_tail] = nn] /\ nn.to \in Block
    BY <1>1, <1>2, <1>n, <2>0
  <2>2. m_next' \in [Block -> NextPtr] /\ WordsOK' /\ (\A a \in Block : a # m_tail => m_next'[a] = m_next[a])
    BY <2>1, <1>0, <1>3, WordTyped DEF TypeOK
  <2>3. m_tail' # m_tail /\ m_tail' \in Block
    BY <1>1, <1>2, <1>3, <1>n, BlockParts
  <2> QED
    BY <2>2, <2>3, <1>1, <1>n, <1>3
<1>5. pc \in ProducerPC
  BY DEF ProducerPC
<1>6. CASE Putting(p)
  <2>1. PGoto(p, pc) /\ UNCHANGED status
    BY <1>1, <1>3, <1>n, <1>6
  <2>2. /\ Moved(p) /\ prod'[p].pc = pc /\ prod'[p].tail = prod[p].tail /\ prod'[p].puts = prod[p].puts
        /\ prod'[p].raws = prod[p].raws /\ prod'[p].size = prod[p].size /\ prod'[p].flags = prod[p].flags
        /\ prod'[p].control = prod[p].control /\ prod'[p].next = prod[p].next
    BY <1>0, <2>1, <1>5, GotoMoved
  <2>3. AllocationOK(p)'
    BY <2>2, <1>3, <1>6 DEF AllocationOK, Putting
  <2>4. BaseTypeOK'
    BY <2>1, <1>0, <1>1, <1>4 DEF TypeOK, BaseTypeOK
  <2> HIDE DEF n, b
  <2> QED
    BY <2>1, <2>2, <2>3, <2>4, <1>1, <1>2, <1>3, <1>4, <1>6, <1>n DEF n, b
<1>7. CASE ~Putting(p)
  <2>1. status' = [status EXCEPT ![Current(p)] = "putting"]
        /\ prod' = [prod EXCEPT ![p].pc = pc, ![p].control = m_tail, ![p].next = n]
    BY <1>1, <1>2, <1>3, <1>n, <1>7
  <2> DEFINE r == [prod[p] EXCEPT !.pc = pc, !.control = m_tail, !.next = n]
  <2> HIDE DEF n, b
  <2>2. r \in Producer
    BY <1>0, <1>5, <1>n DEF Producer
  <2>3. /\ r.pc = pc /\ r.tail = prod[p].tail /\ r.puts = prod[p].puts
        /\ r.raws = prod[p].raws /\ r.size = prod[p].size /\ r.flags = prod[p].flags
        /\ r.control = m_tail /\ r.next = n
    BY <1>0 DEF Producer
  <2>4. prod' = [prod EXCEPT ![p] = r]
    BY <2>1
  <2> HIDE DEF r
  <2>5. Moved(p) /\ prod'[p] = r
    BY <1>0, <2>2, <2>4, MovedTo
  <2>6. AllocationOK(p)'
    BY <2>3, <2>5, <1>3, <1>7, BlockParts DEF AllocationOK, Putting
  <2>7. BaseTypeOK'
    BY <2>1, <1>0, <1>1, <1>4 DEF TypeOK, BaseTypeOK, Status
  <2> QED
    BY <2>1, <2>3, <2>5, <2>6, <2>7, <1>1, <1>2, <1>3, <1>4, <1>7, <1>n DEF n, b
<1> QED
  BY <1>6, <1>7

\* A word that names a block is a word.
LEMMA NextWordTyped ==
    ASSUME NEW b \in Block, NEW f \in SUBSET Flag
    PROVE  NextWord(b, f) \in NextPtr /\ NextWord(b, f).to = b /\ NextWord(b, f).flags = f
<1>1. b \in BlockOrNull
  BY Nulls
<1> QED
  BY <1>1 DEF NextWord, NextPtr

\* The rest of the page becomes a dead block.
LEMMA SpinPadFacts ==
    ASSUME NEW w, Core(w), NEW p \in Producers, SpinPad(p), put = "spin"
    PROVE  /\ Moved(p) /\ AllocationOK(p)' /\ BaseTypeOK' /\ WordsOK'
           /\ PAt(p, "try") /\ PAt(p, "try")' /\ m_tail \in Block
           /\ m_tail' = EndBlock(m_tail) /\ m_tail' \in Block /\ IsEnd(m_next[m_tail']) /\ IsEnd(m_next'[m_tail'])
           /\ SamePage(m_tail, m_tail') /\ m_tail[2] < m_tail'[2] /\ m_tail'[2] = EndSlot
           /\ m_next' = [m_next EXCEPT ![m_tail] = NextWord(m_tail', {"dead"})]
           /\ prod'[p].control = prod[p].control /\ prod'[p].next = prod[p].next
           /\ prod'[p].flags = prod[p].flags /\ prod'[p].puts = prod[p].puts /\ prod'[p].raws = prod[p].raws
           /\ UNCHANGED <<content, pool, pinners, heap, m_initial_page, status, m_rest>>
<1>0. TypeOK /\ WordsOK /\ prod[p] \in Producer /\ AllocationOK(p) /\ m_tail \in Block \cup {InvalidBlock}
      /\ WordsTrail(w) /\ Shape(w)
  BY ProducerKnown DEF Core
<1>1. PAt(p, "try") /\ ~AtEnd(p)
      /\ m_next' = [m_next EXCEPT ![prod[p].tail] = NextWord(EndBlock(prod[p].tail), {"dead"})]
      /\ m_tail' = EndBlock(prod[p].tail)
      /\ Retry(p, EndBlock(prod[p].tail), 0)
      /\ UNCHANGED <<content, pool, pinners, heap, m_initial_page, status, m_rest>>
  BY DEF SpinPad
<1>2. prod[p].tail = m_tail /\ m_tail[2] # EndSlot
  BY <1>0, <1>1 DEF AllocationOK, PAt, AtEnd
<1>3. m_tail \in Block /\ m_tail[2] \in Nat /\ m_tail[2] < EndSlot /\ EndSlot \in Nat
  <2>1. m_tail # InvalidBlock
    BY <1>2 DEF InvalidBlock
  <2> QED
    BY <2>1, <1>0, <1>2, BlockParts
<1>e. PICK e \in Block : e = EndBlock(m_tail)
  BY <1>3, Addresses
<1>4. e[2] = EndSlot /\ SamePage(m_tail, e) /\ e # m_tail /\ EndBlock(FirstBlock(PageOf(m_tail))) = e
  BY <1>e, <1>2 DEF EndBlock, SamePage, PageOf, FirstBlock
<1>5. IsEnd(m_next[e])
  <2>1. w.last > 0
    BY <1>0, <1>3, TrailFacts, BlockParts
  <2> QED
    BY <2>1, <1>0, <1>3, <1>4 DEF WordsTrail, EndClear
<1>6. NextWord(e, {"dead"}) \in NextPtr /\ NextWord(e, {"dead"}).to = e
  BY Nulls DEF NextWord, NextPtr
<1>7. m_next' \in [Block -> NextPtr] /\ WordsOK' /\ m_next'[e] = m_next[e]
  <2>1. PICK nn \in NextPtr : nn = NextWord(e, {"dead"})
    BY <1>6
  <2>2. m_next' = [m_next EXCEPT ![m_tail] = nn] /\ nn.to \in Block
    BY <1>1, <1>2, <1>e, <1>6, <2>1
  <2> QED
    BY <2>2, <1>0, <1>3, <1>4, WordTyped DEF TypeOK
<1> DEFINE r == [prod[p] EXCEPT !.pc = "try", !.tail = e, !.rest = 0]
<1>8. r \in Producer
  BY <1>0, Nulls DEF Producer, ProducerPC
<1>9. /\ r.pc = "try" /\ r.tail = e /\ r.puts = prod[p].puts /\ r.raws = prod[p].raws
      /\ r.size = prod[p].size /\ r.flags = prod[p].flags
      /\ r.control = prod[p].control /\ r.next = prod[p].next
  BY <1>0 DEF Producer
<1>10. prod' = [prod EXCEPT ![p] = r]
  BY <1>1, <1>2, <1>e DEF Retry
<1> HIDE DEF r
<1>11. Moved(p) /\ prod'[p] = r
  BY <1>0, <1>8, <1>10, MovedTo
<1>12. AllocationOK(p)'
  BY <1>0, <1>1, <1>2, <1>e, <1>9, <1>11 DEF AllocationOK, PAt, Putting
<1>13. BaseTypeOK'
  BY <1>0, <1>1, <1>7 DEF TypeOK, BaseTypeOK
<1> QED
  BY <1>1, <1>2, <1>3, <1>e, <1>4, <1>5, <1>7, <1>9, <1>11, <1>12, <1>13 DEF PAt

\* A page is created.
Creates(p, q) ==
    /\ PAt(p, "try")
    /\ \/ NewPage(p, q, [m_next EXCEPT ![FirstBlock(q)] = Zero,
                                       ![EndBlock(FirstBlock(q))] = InvalidNextPage])
       \/ put = "single" /\ NewPage(p, q, [m_next EXCEPT ![FirstBlock(q)] = Zero])

\* What is known when a page has been created, for the end of the queue or for its start.
LEMMA NewPageFacts ==
    ASSUME NEW w, Core(w), NEW p \in Producers, NEW q \in Pages, Creates(p, q), put' = put
    PROVE  /\ Moved(p) /\ AllocationOK(p)' /\ BaseTypeOK' /\ WordsOK'
           /\ PAt(p, "try")
           /\ prod'[p].pc = IF m_tail = InvalidBlock THEN "init_page" ELSE "link_page"
           /\ prod'[p].new_page = q
           /\ pool[q] # "queue" /\ pinners[q] = {} /\ pool' = [pool EXCEPT ![q] = "queue"]
           /\ m_next'[FirstBlock(q)] = Zero /\ EndClear(q)'
           /\ \A a \in Block : PageOf(a) # q => m_next'[a] = m_next[a] /\ content'[a] = content[a]
           /\ prod'[p].control = prod[p].control /\ prod'[p].next = prod[p].next
           /\ prod'[p].flags = prod[p].flags /\ prod'[p].puts = prod[p].puts /\ prod'[p].raws = prod[p].raws
           /\ UNCHANGED <<pinners, heap, m_initial_page, status, m_tail, m_rest>>
<1>0. TypeOK /\ WordsOK /\ prod[p] \in Producer /\ AllocationOK(p) /\ m_tail \in Block \cup {InvalidBlock}
      /\ put \in {"single", "spin"}
  BY ProducerKnown DEF Core, Shape, TypesTrail
<1>a. FirstBlock(q) \in Block /\ EndBlock(FirstBlock(q)) \in Block /\ FirstBlock(q) # EndBlock(FirstBlock(q))
      /\ PageOf(FirstBlock(q)) = q /\ PageOf(EndBlock(FirstBlock(q))) = q
  BY BlockParts, Addresses DEF EndBlock, FirstBlock, PageOf
<1>b. Zero \in NextPtr /\ InvalidNextPage \in NextPtr /\ Zero.flags \cap {"busy", "dead"} = {}
      /\ InvalidNextPage.flags \cap {"busy", "dead"} = {} /\ IsEnd(InvalidNextPage)
  BY Nulls DEF Zero, InvalidNextPage, NextPtr, Flag, IsEnd
<1>1. PICK words : /\ NewPage(p, q, words)
                   /\ \/ words = [m_next EXCEPT ![FirstBlock(q)] = Zero,
                                               ![EndBlock(FirstBlock(q))] = InvalidNextPage]
                      \/ put = "single" /\ words = [m_next EXCEPT ![FirstBlock(q)] = Zero]
  BY DEF Creates
<1>2. /\ PAt(p, "try") /\ prod[p].tail = m_tail /\ prod[p].size > 0
  BY <1>0 DEF Creates, AllocationOK, PAt
<1>3. /\ pool[q] # "queue" /\ pinners[q] = {}
      /\ pool' = [pool EXCEPT ![q] = "queue"]
      /\ m_next' = words
      /\ content' = [b \in Block |-> IF PageOf(b) = q THEN NoItem ELSE content[b]]
      /\ prod' = [prod EXCEPT ![p].new_page = q, ![p].pc =
                  IF m_tail = InvalidBlock THEN "init_page" ELSE "link_page"]
      /\ UNCHANGED <<pinners, heap, m_initial_page, status, m_tail, m_rest>>
  BY <1>1, <1>2 DEF NewPage
<1>4. /\ m_next' \in [Block -> NextPtr] /\ m_next'[FirstBlock(q)] = Zero
      /\ \A a \in Block : PageOf(a) # q => m_next'[a] = m_next[a]
      /\ \A a \in Block : m_next'[a] \in {m_next[a], Zero, InvalidNextPage}
      /\ put = "spin" => m_next'[EndBlock(FirstBlock(q))] = InvalidNextPage
  <2>1. m_next \in [Block -> NextPtr]
    BY <1>0 DEF TypeOK, BaseTypeOK
  <2> QED
    <3>1. CASE words = [m_next EXCEPT ![FirstBlock(q)] = Zero, ![EndBlock(FirstBlock(q))] = InvalidNextPage]
      BY <3>1, <1>3, <1>a, <1>b, <2>1
    <3>2. CASE put = "single" /\ words = [m_next EXCEPT ![FirstBlock(q)] = Zero]
      BY <3>2, <1>3, <1>a, <1>b, <2>1
    <3> QED
      BY <1>1, <3>1, <3>2
<1>5. WordsOK'
  <2> SUFFICES ASSUME NEW a \in Block, m_next'[a].flags \cap {"busy", "dead"} # {} PROVE m_next'[a].to \in Block
    BY DEF WordsOK
  <2>1. m_next'[a] = m_next[a]
    BY <1>4, <1>b
  <2> QED
    BY <2>1, <1>0 DEF WordsOK
<1>6. EndClear(q)'
  BY <1>4, <1>b DEF EndClear
<1>p. PICK pc \in ProducerPC : pc = IF m_tail = InvalidBlock THEN "init_page" ELSE "link_page"
  BY DEF ProducerPC
<1> DEFINE r == [prod[p] EXCEPT !.new_page = q, !.pc = pc]
<1>8. r \in Producer
  BY <1>0 DEF Producer
<1>9. /\ r.pc = pc /\ r.new_page = q /\ r.tail = m_tail /\ r.puts = prod[p].puts /\ r.raws = prod[p].raws
      /\ r.size = prod[p].size /\ r.flags = prod[p].flags
      /\ r.control = prod[p].control /\ r.next = prod[p].next
  BY <1>0, <1>2 DEF Producer
<1>10. prod' = [prod EXCEPT ![p] = r]
  BY <1>3, <1>p
<1> HIDE DEF r
<1>11. Moved(p) /\ prod'[p] = r
  BY <1>0, <1>8, <1>10, MovedTo
<1>12. AllocationOK(p)'
  BY <1>0, <1>2, <1>3, <1>p, <1>9, <1>11 DEF AllocationOK, PAt, Putting
<1>13. BaseTypeOK' /\ \A a \in Block : PageOf(a) # q => content'[a] = content[a]
  BY <1>0, <1>3, <1>4 DEF TypeOK, BaseTypeOK
<1> QED
  BY <1>2, <1>3, <1>4, <1>5, <1>6, <1>p, <1>9, <1>11, <1>12, <1>13

\* m_tail goes to the new page.
LEMMA EnterPageMoved ==
    ASSUME NEW w, Core(w), NEW p \in Producers, prod[p].pc \in {"link_page", "init_page"}, EnterPage(p)
    PROVE  /\ Moved(p) /\ AllocationOK(p)' /\ PAt(p, "try")'
           /\ prod[p].new_page \in Pages /\ New(prod[p].new_page)
           /\ m_tail' = FirstBlock(prod[p].new_page) /\ m_tail' \in Block
           /\ m_next[m_tail'] = Zero /\ EndClear(prod[p].new_page)
           /\ prod'[p].control = prod[p].control /\ prod'[p].next = prod[p].next
           /\ prod'[p].flags = prod[p].flags /\ prod'[p].puts = prod[p].puts /\ prod'[p].raws = prod[p].raws
<1>0. TypeOK /\ prod[p] \in Producer /\ AllocationOK(p) /\ WordsTrail(w)
  BY ProducerKnown DEF Core
<1>1. prod[p].new_page \in Pages /\ New(prod[p].new_page)
  BY <1>0 DEF AllocationOK, New
<1>2. PICK b \in Block : b = FirstBlock(prod[p].new_page)
  BY <1>1, BlockParts
<1>3. m_tail' = b /\ prod' = [prod EXCEPT ![p].pc = "try", ![p].tail = b, ![p].new_page = NoPage]
  BY <1>2 DEF EnterPage
<1> DEFINE r == [prod[p] EXCEPT !.pc = "try", !.tail = b, !.new_page = NoPage]
<1>8. r \in Producer
  BY <1>0, Nulls DEF Producer, ProducerPC
<1>9. /\ r.pc = "try" /\ r.tail = b /\ r.puts = prod[p].puts /\ r.raws = prod[p].raws
      /\ r.size = prod[p].size /\ r.flags = prod[p].flags
      /\ r.control = prod[p].control /\ r.next = prod[p].next
  BY <1>0 DEF Producer
<1>10. prod' = [prod EXCEPT ![p] = r]
  BY <1>3
<1> HIDE DEF r
<1>11. Moved(p) /\ prod'[p] = r
  BY <1>0, <1>8, <1>10, MovedTo
<1>12. AllocationOK(p)'
  BY <1>0, <1>3, <1>9, <1>11 DEF AllocationOK, PAt, Putting
<1>13. m_next[b] = Zero /\ EndClear(prod[p].new_page)
  BY <1>0, <1>1, <1>2 DEF WordsTrail
<1> QED
  BY <1>1, <1>2, <1>3, <1>9, <1>11, <1>12, <1>13 DEF PAt

\* The page is linked after the tail.
LEMMA LinkFacts ==
    ASSUME NEW w, Core(w), NEW p \in Producers, LinkNextPage(p)
    PROVE  /\ BaseTypeOK' /\ WordsOK' /\ PAt(p, "link_page") /\ EnterPage(p) /\ m_tail \in Block
           /\ m_next' = [m_next EXCEPT ![m_tail] = NextWord(FirstBlock(prod[p].new_page), {"dead"})]
           /\ UNCHANGED <<content, pool, pinners, heap, m_initial_page, status, m_rest>>
<1>0. TypeOK /\ WordsOK /\ prod[p] \in Producer /\ AllocationOK(p)
  BY ProducerKnown
<1>1. /\ PAt(p, "link_page")
      /\ m_next' = [m_next EXCEPT ![prod[p].tail] = NextWord(FirstBlock(prod[p].new_page), {"dead"})]
      /\ EnterPage(p)
      /\ UNCHANGED <<content, pool, pinners, heap, m_initial_page, status, m_rest>>
  BY DEF LinkNextPage
<1>2. prod[p].new_page \in Pages /\ prod[p].tail = m_tail /\ m_tail \in Block
  BY <1>0, <1>1 DEF AllocationOK, PAt
<1>3. PICK n \in NextPtr : n = NextWord(FirstBlock(prod[p].new_page), {"dead"}) /\ n.to \in Block
  <2>1. FirstBlock(prod[p].new_page) \in Block /\ {"dead"} \in SUBSET Flag
    BY <1>2, BlockParts, Nulls
  <2> QED
    BY <2>1, NextWordTyped
<1>4. m_next' = [m_next EXCEPT ![m_tail] = n]
  BY <1>1, <1>2, <1>3
<1>5. m_next' \in [Block -> NextPtr] /\ WordsOK'
  BY <1>0, <1>2, <1>3, <1>4, WordTyped DEF TypeOK
<1>6. BaseTypeOK'
  BY <1>0, <1>1, <1>5 DEF TypeOK, BaseTypeOK
<1> QED
  BY <1>1, <1>2, <1>5, <1>6

\* The first page of the queue.
LEMMA InitialFacts ==
    ASSUME NEW w, Core(w), NEW p \in Producers, SetInitialPage(p)
    PROVE  /\ BaseTypeOK' /\ WordsOK' /\ PAt(p, "init_page") /\ EnterPage(p) /\ m_tail = InvalidBlock
           /\ m_initial_page' = prod[p].new_page
           /\ UNCHANGED <<m_next, content, pool, pinners, heap, status, m_rest>>
<1>0. TypeOK /\ WordsOK /\ prod[p] \in Producer /\ AllocationOK(p)
  BY ProducerKnown
<1>1. /\ PAt(p, "init_page")
      /\ m_initial_page' = prod[p].new_page
      /\ EnterPage(p)
      /\ UNCHANGED <<m_next, content, pool, pinners, heap, status, m_rest>>
  BY DEF SetInitialPage
<1>2. prod[p].new_page \in Pages /\ m_tail = InvalidBlock
  BY <1>0, <1>1 DEF AllocationOK, PAt
<1> QED
  BY <1>0, <1>1, <1>2 DEF TypeOK, BaseTypeOK, WordsOK

\* The element or the raw data is there.
LEMMA FillFacts ==
    ASSUME NEW w, Core(w), NEW p \in Producers, Fill(p)
    PROVE  /\ Moved(p) /\ AllocationOK(p)' /\ BaseTypeOK' /\ WordsOK'
           /\ PAt(p, "fill") /\ PAt(p, "pending")' /\ Putting(p)
           /\ Allocating(p) \in Item
           /\ content' = [a \in Block |->
                IF SamePage(a, prod[p].tail) /\ a[2] \in prod[p].tail[2] .. (prod[p].tail[2] + prod[p].size - 1)
                THEN Allocating(p) ELSE content[a]]
           /\ prod'[p].control = prod[p].control /\ prod'[p].next = prod[p].next
           /\ prod'[p].flags = {} /\ prod'[p].puts = prod[p].puts /\ prod'[p].raws = prod[p].raws
           /\ UNCHANGED <<m_next, pool, pinners, heap, m_initial_page, status, m_tail, m_rest>>
<1>0. TypeOK /\ WordsOK /\ prod[p] \in Producer /\ AllocationOK(p)
  BY ProducerKnown
<1>1. /\ PAt(p, "fill")
      /\ content' = [a \in Block |->
            IF SamePage(a, prod[p].tail) /\ a[2] \in prod[p].tail[2] .. (prod[p].tail[2] + prod[p].size - 1)
            THEN Allocating(p) ELSE content[a]]
      /\ prod' = [prod EXCEPT ![p] = Done(p, "pending")]
      /\ UNCHANGED <<m_next, pool, pinners, heap, m_initial_page, status, m_tail, m_rest>>
  BY DEF Fill
<1>2. prod[p].puts \in 1 .. MaxPuts /\ Putting(p)
  BY <1>0, <1>1 DEF AllocationOK, PAt
<1>3. Allocating(p) \in Item
  BY <1>0, <1>2, Nulls DEF Allocating, Item, Producer
<1>r. PICK r \in Producer : /\ r = Done(p, "pending") /\ r.pc = "pending" /\ r.puts = prod[p].puts /\ r.raws = prod[p].raws /\ r.flags = {}
          /\ r.control = prod[p].control /\ r.next = prod[p].next
  <2>1. "pending" \in ProducerPC
    BY DEF ProducerPC
  <2>2. /\ Done(p, "pending") \in Producer /\ Done(p, "pending").pc = "pending"
        /\ Done(p, "pending").puts = prod[p].puts /\ Done(p, "pending").raws = prod[p].raws
        /\ Done(p, "pending").flags = {} /\ Done(p, "pending").control = prod[p].control
        /\ Done(p, "pending").next = prod[p].next
    BY <2>1, <1>0, EndedRecords
  <2> HIDE DEF Done
  <2> QED
    BY <2>2
<1>4. prod' = [prod EXCEPT ![p] = r]
  BY <1>1, <1>r
<1>5. Moved(p) /\ prod'[p] = r
  BY <1>0, <1>4, MovedTo
<1>6. AllocationOK(p)'
  BY <1>2, <1>5, <1>r DEF AllocationOK, Putting
<1>7. BaseTypeOK' /\ WordsOK'
  BY <1>0, <1>1, <1>3 DEF TypeOK, BaseTypeOK, WordsOK
<1> QED
  BY <1>1, <1>2, <1>3, <1>5, <1>6, <1>7, <1>r DEF PAt

\* The transaction is committed or cancelled.
LEMMA EndPutFacts ==
    ASSUME NEW w, Core(w), NEW p \in Producers, CommitPut(p) \/ CancelPut(p)
    PROVE  /\ Moved(p) /\ AllocationOK(p)' /\ BaseTypeOK' /\ WordsOK'
           /\ PAt(p, "pending") /\ PAt(p, "idle")' /\ Putting(p) /\ prod[p].control \in Block
           /\ prod'[p].control = NoBlock /\ prod'[p].puts = prod[p].puts /\ prod'[p].flags = {}
           /\ \E f \in SUBSET Flag :
                /\ m_next' = [m_next EXCEPT ![prod[p].control] = NextWord(prod[p].next.to, f)]
                /\ "busy" \notin f /\ ("external" \in f <=> "external" \in prod[p].next.flags)
                /\ f \ {"busy", "dead"} = prod[p].next.flags \ {"busy", "dead"}
                /\ \/ "dead" \notin f /\ status' = [status EXCEPT ![Current(p)] = "ready"]
                   \/ "dead" \in f /\ status' = [status EXCEPT ![Current(p)] = "cancelled"]
           /\ UNCHANGED <<content, pool, pinners, heap, m_initial_page, m_tail, m_rest>>
<1>0. /\ TypeOK /\ WordsOK /\ prod[p] \in Producer /\ AllocationOK(p)
      /\ Putting(p) => prod[p].control \in Block /\ prod[p].next.to \in Block
      /\ ~PAt(p, "idle") => Current(p) \in Element
      /\ PutterOK(w, p)
  BY ProducerKnown
<1>1. PICK f, s : EndPut(p, f, s)
                  /\ \/ f = prod[p].next.flags \ {"busy"} /\ s = "ready"
                     \/ f = (prod[p].next.flags \ {"busy"}) \cup {"dead"} /\ s = "cancelled"
  BY DEF CommitPut, CancelPut
<1>2. /\ PAt(p, "pending")
      /\ m_next' = [m_next EXCEPT ![prod[p].control] = NextWord(prod[p].next.to, f)]
      /\ status' = [status EXCEPT ![Current(p)] = s]
      /\ prod' = [prod EXCEPT ![p] = [NewProducer EXCEPT !.puts = prod[p].puts]]
      /\ UNCHANGED <<content, pool, pinners, heap, m_initial_page, m_tail, m_rest>>
  BY <1>1 DEF EndPut
<1>3. Putting(p) /\ prod[p].puts \in 1 .. MaxPuts /\ Current(p) \in Element
  BY <1>0, <1>2 DEF AllocationOK, PAt
<1>4. prod[p].next \in NextPtr /\ prod[p].next.flags \in SUBSET Flag /\ "dead" \notin prod[p].next.flags
  BY <1>0, <1>3 DEF Producer, NextPtr, PutterOK
<1>5. f \in SUBSET Flag /\ "busy" \notin f /\ ("external" \in f <=> "external" \in prod[p].next.flags)
      /\ f \ {"busy", "dead"} = prod[p].next.flags \ {"busy", "dead"}
      /\ (s = "ready" => "dead" \notin f) /\ (s = "cancelled" => "dead" \in f) /\ s \in Status
      /\ s \in {"ready", "cancelled"}
  BY <1>1, <1>4 DEF Flag, Status
<1>n. PICK n \in NextPtr : n = NextWord(prod[p].next.to, f) /\ n.to \in Block
  <2>1. prod[p].next.to \in Block
    BY <1>0, <1>3
  <2> QED
    BY <2>1, <1>5, NextWordTyped
<1>6. m_next' \in [Block -> NextPtr] /\ WordsOK'
  <2>1. m_next' = [m_next EXCEPT ![prod[p].control] = n]
    BY <1>2, <1>n
  <2> QED
    BY <2>1, <1>0, <1>3, <1>n, WordTyped DEF TypeOK
<1>r. PICK r \in Producer : r = [NewProducer EXCEPT !.puts = prod[p].puts] /\ r.pc = "idle"
                            /\ r.puts = prod[p].puts /\ r.flags = {} /\ r.control = NoBlock
  <2>1. "pending" \in ProducerPC
    BY DEF ProducerPC
  <2>2. [NewProducer EXCEPT !.puts = prod[p].puts] \in Producer
    BY <1>0, <2>1, EndedRecords
  <2>3. \A n1 : LET q == [NewProducer EXCEPT !.puts = n1]
                IN q.pc = "idle" /\ q.puts = n1 /\ q.flags = {} /\ q.control = NoBlock
    BY DEF NewProducer
  <2> QED
    BY <2>2, <2>3
<1>7. Moved(p) /\ prod'[p] = r
  <2>1. prod' = [prod EXCEPT ![p] = r]
    BY <1>2, <1>r
  <2> QED
    BY <2>1, <1>0, MovedTo
<1>8. AllocationOK(p)'
  BY <1>7, <1>r DEF AllocationOK, Putting
<1>9. BaseTypeOK'
  BY <1>0, <1>2, <1>5, <1>6 DEF TypeOK, BaseTypeOK
<1> QED
  BY <1>0, <1>2, <1>3, <1>5, <1>6, <1>7, <1>8, <1>9, <1>r DEF PAt

---------------------------------------------------------------------------
(* What a step leaves as it is *)

\* The word of the k-th block may change, and no other one of the trail.
Change(w, k) ==
    \/ k = 0
    \/ k \in Written(w) /\ Continues(w, k) /\ ~IsDead(m_next[w.at[k]]) /\ m_next'[w.at[k]].to = w.at[k + 1]
    \/ k \in 1 .. (w.head - 1) /\ ~Continues(w, k) /\ m_next'[w.at[k]] = Zero

\* The trail goes on from w to v: it may be longer by one block, or the head
\* may pass a dead block; the pages Z are new.
Frame(w, v, Z, k) ==
    /\ Shape(w) /\ Shape(v)' /\ Keeps(w, v, Z) /\ UNCHANGED layers
    /\ v.last \in {w.last, w.last + 1} /\ v.head \in {w.head, w.head + 1}
    /\ v.head # w.head => v.last = w.last /\ w.head < w.last /\ IsDead(m_next[w.at[w.head]]) /\ k = 0
    /\ Change(w, k)
    /\ \A i \in 1 .. (w.last - 1) :
          Valid(w, i) /\ PageOf(w.at[i]) \notin Z /\ i # k => m_next'[w.at[i]] = m_next[w.at[i]]
    /\ \A i \in Live(w) : PageOf(w.at[i]) \notin Z
    /\ \A x \in Z : New(x)'

\* What follows of the places in the trail.
LEMMA FramePlaces ==
    ASSUME NEW w, NEW v, NEW Z, NEW k, Frame(w, v, Z, k)
    PROVE  /\ w.head \in Nat /\ w.last \in Nat /\ w.head > 0 /\ v.head \in Nat /\ v.last \in Nat
           /\ \A i \in Index(w) : i \in Nat /\ i > 0 /\ i <= w.last /\ i \in Index(v) /\ v.at[i] = w.at[i] /\ w.at[i] \in Block
           /\ \A i \in 1 .. (w.last - 1) : /\ i \in Index(w) /\ i + 1 \in Index(w) /\ i < v.last /\ i < w.last
                                           /\ v.at[i] = w.at[i] /\ v.at[i + 1] = w.at[i + 1]
                                           /\ Continues(v, i) <=> Continues(w, i)
           /\ \A i \in Written(w) : /\ i \in 1 .. (w.last - 1) /\ i \in Live(w) /\ Valid(w, i)
                                    /\ PageOf(w.at[i]) \notin Z
                                    /\ i # k => m_next'[w.at[i]] = m_next[w.at[i]]
                                    /\ i # w.head \/ v.head = w.head => i \in Written(v)
           /\ \A i \in Live(w) : i \in Index(w) /\ (v.head = w.head => i \in Live(v))
           /\ k \in Nat
<1>1. /\ w.head \in Nat /\ w.last \in Nat /\ w.head > 0 /\ v.head \in Nat /\ v.last \in Nat
      /\ v.last \in {w.last, w.last + 1} /\ v.head \in {w.head, w.head + 1}
      /\ \A i \in Nat : w.at[i] \in Block
      /\ \A i \in Live(w) : Valid(w, i)
  BY TrailFacts DEF Frame
<1>2. \A i \in Index(w) : i \in Nat /\ i > 0 /\ i <= w.last /\ i \in Index(v) /\ v.at[i] = w.at[i] /\ w.at[i] \in Block
  BY <1>1 DEF Frame, Keeps, Index
<1>3. \A i \in 1 .. (w.last - 1) : /\ i \in Index(w) /\ i + 1 \in Index(w) /\ i < v.last /\ i < w.last
                                   /\ v.at[i] = w.at[i] /\ v.at[i + 1] = w.at[i + 1]
                                   /\ Continues(v, i) <=> Continues(w, i)
  <2> SUFFICES ASSUME NEW i \in 1 .. (w.last - 1)
               PROVE  /\ i \in Index(w) /\ i + 1 \in Index(w) /\ i < v.last /\ i < w.last
                      /\ v.at[i] = w.at[i] /\ v.at[i + 1] = w.at[i + 1]
                      /\ Continues(v, i) <=> Continues(w, i)
    OBVIOUS
  <2>1. i \in Index(w) /\ i + 1 \in Index(w) /\ i < v.last /\ i < w.last
    BY <1>1 DEF Index
  <2> QED
    BY <2>1, <1>2 DEF Continues
<1>4. \A i \in Written(w) : i \in 1 .. (w.last - 1) /\ i \in Live(w) /\ Valid(w, i)
  <2>1. \A i \in Written(w) : i \in 1 .. (w.last - 1) /\ i \in Live(w)
    BY <1>1 DEF Written, Live
  <2> QED
    BY <2>1, <1>1
<1>5. \A i \in Written(w) : PageOf(w.at[i]) \notin Z /\ (i # k => m_next'[w.at[i]] = m_next[w.at[i]])
  BY <1>4 DEF Frame
<1>6. \A i \in Written(w) : i # w.head \/ v.head = w.head => i \in Written(v)
  BY <1>1 DEF Written
<1>7. \A i \in Live(w) : i \in Index(w) /\ (v.head = w.head => i \in Live(v))
  BY <1>1 DEF Live, Index
<1>8. k \in Nat
  BY <1>1 DEF Frame, Change, Written
<1> QED
  BY <1>1, <1>2, <1>3, <1>4, <1>5, <1>6, <1>7, <1>8

\* The words from the head on still lead to the tail.
LEMMA FrameWritten ==
    ASSUME NEW w, NEW v, NEW Z, NEW k, Frame(w, v, Z, k), WordsTrail(w)
    PROVE  \A i \in Written(w) : WrittenWord(v, i)'
<1> SUFFICES ASSUME NEW i \in Written(w) PROVE WrittenWord(v, i)'
  OBVIOUS
<1>1. WrittenWord(w, i) /\ i \in 1 .. (w.last - 1)
  BY FramePlaces DEF WordsTrail
<1>2. v.at[i] = w.at[i] /\ v.at[i + 1] = w.at[i + 1] /\ (Continues(v, i) <=> Continues(w, i))
      /\ (i # k => m_next'[w.at[i]] = m_next[w.at[i]])
  BY <1>1, FramePlaces
<1>3. i = k => Continues(w, k) /\ m_next'[w.at[k]].to = w.at[k + 1]
  BY FramePlaces DEF Frame, Change, Written
<1> QED
  BY <1>1, <1>2, <1>3 DEF WrittenWord

\* Those before it, with many consumers.
LEMMA FramePassed ==
    ASSUME NEW w, NEW v, NEW Z, NEW k, Frame(w, v, Z, k), WordsTrail(w), consume = "multiple"
    PROVE  \A i \in 1 .. (v.head - 1) : Valid(v, i)' => PassedWord(v, i)'
<1> SUFFICES ASSUME NEW i \in 1 .. (v.head - 1), Valid(v, i)' PROVE PassedWord(v, i)'
  OBVIOUS
<1>0. w.head \in Nat /\ w.last \in Nat /\ v.head \in {w.head, w.head + 1} /\ v.last \in {w.last, w.last + 1}
      /\ (w.last > 0 => w.head <= w.last) /\ (w.last = 0 => w.head = 1)
  BY FramePlaces, TrailFacts DEF Frame
<1>1. i \in 1 .. (w.last - 1)
  <2>1. CASE i < w.head
    BY <2>1, <1>0
  <2>2. CASE i >= w.head
    BY <2>2, <1>0 DEF Frame
  <2> QED
    BY <2>1, <2>2, <1>0
<1>2. /\ i \in Index(w) /\ v.at[i] = w.at[i] /\ v.at[i + 1] = w.at[i + 1] /\ (Continues(v, i) <=> Continues(w, i))
  BY <1>1, FramePlaces
<1>3. Valid(w, i)
  BY <1>2 DEF Frame, Keeps
<1>4. PageOf(w.at[i]) \notin Z
  BY <1>2 DEF Frame, Valid
<1>5. i # k => m_next'[w.at[i]] = m_next[w.at[i]]
  BY <1>1, <1>3, <1>4 DEF Frame
<1>6. CASE i < w.head
  <2>1. PassedWord(w, i)
    BY <1>3, <1>6, <1>0 DEF WordsTrail
  <2>2. i = k => ~Continues(w, i) /\ m_next'[w.at[i]] = Zero
    BY <1>6, <1>0 DEF Frame, Change, Written
  <2> QED
    BY <2>1, <2>2, <1>2, <1>5 DEF PassedWord
<1>7. CASE i >= w.head
  <2>1. i = w.head /\ i # k /\ IsDead(m_next[w.at[i]]) /\ i \in Written(w)
    BY <1>7, <1>0, <1>1 DEF Frame, Written
  <2>2. WrittenWord(w, i)
    BY <2>1 DEF WordsTrail
  <2> QED
    BY <2>1, <2>2, <1>2, <1>5 DEF PassedWord, WrittenWord
<1> QED
  BY <1>6, <1>7, <1>0

\* A pending put.
LEMMA FramePutter ==
    ASSUME NEW w, NEW v, NEW Z, NEW k, Frame(w, v, Z, k), NEW p \in Producers, PutterOK(w, p),
           prod'[p].control = prod[p].control, Putting(p) => prod'[p].next = prod[p].next,
           prod'[p].pc \in {"settle", "fill"} =>
              /\ prod[p].pc \in {"settle", "fill"} /\ prod'[p].tail = prod[p].tail
              /\ prod'[p].size = prod[p].size /\ prod'[p].flags = prod[p].flags,
           k \in Written(w) => prod[p].control # w.at[k]
    PROVE  PutterOK(v, p)'
<1> SUFFICES ASSUME Putting(p) PROVE PutterOK(v, p)'
  BY DEF PutterOK, Putting
<1> DEFINE r == prod[p]
<1>1. PICK i \in Written(w) :
          /\ w.at[i] = r.control /\ Continues(w, i)
          /\ m_next[r.control] = r.next /\ "busy" \in r.next.flags /\ "dead" \notin r.next.flags
          /\ r.pc \in {"settle", "fill"} =>
               \E j \in i .. (w.last - 1) :
                  /\ w.at[j] = r.tail /\ w.at[j + 1] = NewTail(r.tail, r.size)
                  /\ j = i <=> "dead" \notin r.flags
                  /\ j # i => IsDead(m_next[r.tail])
  BY DEF PutterOK
<1>2. i # k
  BY <1>1
<1>3. i # w.head \/ v.head = w.head
  BY <1>1 DEF Frame, IsDead
<1>4. /\ i \in Written(v) /\ v.at[i] = w.at[i] /\ Continues(v, i) /\ m_next'[w.at[i]] = m_next[w.at[i]]
      /\ i \in Nat /\ i > 0 /\ i \in 1 .. (w.last - 1)
  <2>1. i \in 1 .. (w.last - 1) /\ i \in Written(v) /\ m_next'[w.at[i]] = m_next[w.at[i]]
    BY <1>2, <1>3, FramePlaces
  <2>2. i \in Nat /\ i > 0
    BY <2>1
  <2> QED
    BY <1>1, <2>1, <2>2, FramePlaces
<1>5. ASSUME prod'[p].pc \in {"settle", "fill"}
      PROVE \E j \in i .. (v.last - 1) :
                  /\ v.at[j] = r.tail /\ v.at[j + 1] = NewTail(r.tail, r.size)
                  /\ j = i <=> "dead" \notin r.flags
                  /\ j # i => IsDead(m_next'[r.tail])
  <2>1. PICK j \in i .. (w.last - 1) :
                  /\ w.at[j] = r.tail /\ w.at[j + 1] = NewTail(r.tail, r.size)
                  /\ j = i <=> "dead" \notin r.flags
                  /\ j # i => IsDead(m_next[r.tail])
    BY <1>1, <1>5
  <2>2. w.head \in Nat /\ w.last \in Nat /\ v.last \in {w.last, w.last + 1} /\ i >= w.head
    BY FramePlaces, <1>4 DEF Frame, Written
  <2>3. j \in 1 .. (w.last - 1) /\ j \in Written(w) /\ j \in i .. (v.last - 1)
    BY <2>1, <2>2, <1>4 DEF Written
  <2>4. v.at[j] = w.at[j] /\ v.at[j + 1] = w.at[j + 1]
    BY <2>3, FramePlaces
  <2>5. j # i => m_next'[r.tail] = m_next[r.tail]
    <3> SUFFICES ASSUME j # i PROVE m_next'[w.at[j]] = m_next[w.at[j]]
      BY <2>1
    <3>1. j = k => ~IsDead(m_next[w.at[j]])
      BY <2>3, <2>2 DEF Frame, Change, Written
    <3> QED
      BY <3>1, <2>1, <2>3, FramePlaces
  <2> QED
    BY <2>1, <2>3, <2>4, <2>5
<1> HIDE DEF r
<1>6. prod'[p].control = r.control /\ prod'[p].next = r.next
      /\ (prod'[p].pc \in {"settle", "fill"} => prod'[p].tail = r.tail /\ prod'[p].size = r.size /\ prod'[p].flags = r.flags)
  BY DEF r
<1> QED
  BY <1>1, <1>4, <1>5, <1>6 DEF PutterOK

\* An element being consumed.
LEMMA FrameTaker ==
    ASSUME NEW w, NEW v, NEW Z, NEW k, Frame(w, v, Z, k), NEW c \in Consumers, TakerOK(w, c),
           cons'[c] = cons[c], k \in Written(w) /\ Takes(c) => cons[c].control # w.at[k]
    PROVE  TakerOK(v, c)'
<1> SUFFICES ASSUME Takes(c) PROVE TakerOK(v, c)'
  BY DEF TakerOK, Takes, At
<1>1. PICK i \in Written(w) :
        /\ w.at[i] = cons[c].control /\ cons[c].next.to = w.at[i + 1] /\ Continues(w, i)
        /\ m_next[cons[c].control] = TakenWord(c)
        /\ "dead" \in cons[c].next.flags /\ "busy" \notin cons[c].next.flags
  BY DEF TakerOK
<1>2. i # k
  BY <1>1
<1>3. "busy" \in m_next[w.at[i]].flags
  BY <1>1 DEF TakenWord, NextWord
<1>4. i # w.head \/ v.head = w.head
  BY <1>3 DEF Frame, IsDead
<1>5. /\ i \in Written(v) /\ i \in 1 .. (w.last - 1) /\ m_next'[w.at[i]] = m_next[w.at[i]]
  BY <1>2, <1>4, FramePlaces
<1>6. v.at[i] = w.at[i] /\ v.at[i + 1] = w.at[i + 1] /\ Continues(v, i)
  BY <1>1, <1>5, FramePlaces
<1> QED
  BY <1>1, <1>5, <1>6 DEF TakerOK, TakenWord

\* A block that a consumer is in, of a page that it has pinned.
LEMMA FramePlaced ==
    ASSUME NEW w, NEW v, NEW Z, NEW k, Frame(w, v, Z, k), NEW c \in Consumers, NEW i, Placed(w, c, i),
           cons'[c] = cons[c], PageOf(cons[c].control) \notin Z
    PROVE  /\ Placed(v, c, i)' /\ i \in Index(w) /\ i \in 1 .. (w.last - 1) /\ i \in Nat
           /\ Continues(v, i) <=> Continues(w, i)
           /\ i # k => m_next'[cons[c].control] = m_next[cons[c].control]
           /\ v.head \in {w.head, w.head + 1} /\ w.head \in Nat
<1>1. /\ Valid(w, i) /\ i < w.last /\ w.at[i] = cons[c].control /\ cons[c].next.to = w.at[i + 1]
      /\ i \in Index(w)
  BY DEF Placed, Valid
<1>2. i \in 1 .. (w.last - 1) /\ i \in Nat
  BY <1>1, FramePlaces
<1>3. /\ v.at[i] = w.at[i] /\ v.at[i + 1] = w.at[i + 1] /\ i < v.last /\ (Continues(v, i) <=> Continues(w, i))
  BY <1>2, FramePlaces
<1>4. Valid(v, i)' /\ (i # k => m_next'[w.at[i]] = m_next[w.at[i]])
  BY <1>1, <1>2 DEF Frame, Keeps
<1> QED
  BY <1>1, <1>2, <1>3, <1>4, FramePlaces DEF Placed, Frame

\* What one of many consumers knows.
LEMMA FrameMany ==
    ASSUME NEW w, NEW v, NEW Z, NEW k, Frame(w, v, Z, k), NEW c \in Consumers, ManyPlaced(w, c),
           ConsumersOK, cons'[c] = cons[c], cons[c].control # NoBlock => PageOf(cons[c].control) \notin Z,
           m_initial_page' = m_initial_page \/ m_initial_page = NoPage
    PROVE  ManyPlaced(v, c)'
<1> DEFINE r == cons[c]
<1>0. ConsumerOK(c)
  BY DEF ConsumersOK
<1>1. r.pc = "init_head" => r.target \in {NoBlock, FirstBlock(m_initial_page')}
  BY BlockParts DEF ManyPlaced
<1>2. \A i \in Index(w) : i \in Index(v) /\ v.at[i] = w.at[i]
  BY FramePlaces
<1>3. r.pc \in {"load_head_next", "try_busy", "advance", "free_external", "zero", "free_page", "move"} =>
        PageOf(r.control) \notin Z
  BY <1>0, BlockParts DEF ConsumerOK
<1>4. r.pc = "load_head_next" => \E i \in Index(v) : Valid(v, i)' /\ v.at[i] = r.target
  <2> SUFFICES ASSUME r.pc = "load_head_next" PROVE \E i \in Index(v) : Valid(v, i)' /\ v.at[i] = r.target
    OBVIOUS
  <2>1. PICK i \in Index(w) : Valid(w, i) /\ w.at[i] = r.target
    BY DEF ManyPlaced
  <2>2. PageOf(w.at[i]) \notin Z
    BY <2>1, <1>0, <1>3 DEF ConsumerOK, SamePage
  <2> QED
    BY <2>1, <2>2, <1>2 DEF Frame, Keeps
<1>5. r.pc \in {"try_busy", "move"} => \E i \in Index(v) : Placed(v, c, i)'
  <2> SUFFICES ASSUME r.pc \in {"try_busy", "move"} PROVE \E i \in Index(v) : Placed(v, c, i)'
    OBVIOUS
  <2>1. PICK i \in Index(w) : Placed(w, c, i)
    BY DEF ManyPlaced
  <2> QED
    BY <2>1, <1>2, <1>3, FramePlaced
<1>6. r.pc = "advance" => /\ IsDead(r.next)
             /\ \E i \in Index(v) : Placed(v, c, i)' /\ (i >= v.head => m_next'[r.control] = r.next)
  <2> SUFFICES ASSUME r.pc = "advance"
               PROVE \E i \in Index(v) : Placed(v, c, i)' /\ (i >= v.head => m_next'[r.control] = r.next)
    BY DEF ManyPlaced
  <2>1. PICK i \in Index(w) : IsDead(r.next) /\ Placed(w, c, i) /\ (i >= w.head => m_next[r.control] = r.next)
    BY DEF ManyPlaced
  <2>2. /\ Placed(v, c, i)' /\ i \in 1 .. (w.last - 1) /\ i \in Nat
        /\ i # k => m_next'[cons[c].control] = m_next[cons[c].control]
        /\ v.head \in {w.head, w.head + 1} /\ w.head \in Nat /\ w.at[i] = r.control
    BY <2>1, <1>3, FramePlaced DEF Placed
  <2>3. i >= v.head => i >= w.head
    BY <2>2
  <2>4. i = k /\ i >= w.head => ~IsDead(m_next[w.at[i]])
    BY <2>2 DEF Frame, Change, Written
  <2> QED
    BY <2>1, <2>2, <2>3, <2>4, <1>2
<1>7. r.pc = "free_external" => \E i \in Index(v) : Placed(v, c, i)' /\ i < v.head /\ Continues(v, i)
  <2> SUFFICES ASSUME r.pc = "free_external"
               PROVE \E i \in Index(v) : Placed(v, c, i)' /\ i < v.head /\ Continues(v, i)
    OBVIOUS
  <2>1. PICK i \in Index(w) : Placed(w, c, i) /\ i < w.head /\ Continues(w, i)
    BY DEF ManyPlaced
  <2>2. /\ Placed(v, c, i)' /\ i \in Nat /\ (Continues(v, i) <=> Continues(w, i))
        /\ v.head \in {w.head, w.head + 1} /\ w.head \in Nat
    BY <2>1, <1>3, FramePlaced
  <2> QED
    BY <2>1, <2>2, <1>2
<1>8. r.pc \in {"zero", "free_page"} => \E i \in Index(v) : Placed(v, c, i)' /\ i < v.head /\ ~Continues(v, i)
  <2> SUFFICES ASSUME r.pc \in {"zero", "free_page"}
               PROVE \E i \in Index(v) : Placed(v, c, i)' /\ i < v.head /\ ~Continues(v, i)
    OBVIOUS
  <2>1. PICK i \in Index(w) : Placed(w, c, i) /\ i < w.head /\ ~Continues(w, i)
    BY DEF ManyPlaced
  <2>2. /\ Placed(v, c, i)' /\ i \in Nat /\ (Continues(v, i) <=> Continues(w, i))
        /\ v.head \in {w.head, w.head + 1} /\ w.head \in Nat
    BY <2>1, <1>3, FramePlaced
  <2> QED
    BY <2>1, <2>2, <1>2
<1>9. /\ r.pc \in {"reread", "unpin_left", "unpin_left_restart"} =>
             r.target[2] = 0 /\ \E i \in Index(v) : v.at[i] = r.target
      /\ r.pc = "load_next" => r.control[2] = 0 /\ \E i \in Index(v) : v.at[i] = r.control
      /\ r.pc # "memset" /\ (r.pc = "try_busy" => Consumable(r.next))
  BY <1>2 DEF ManyPlaced
<1>10. cons'[c] = r
  OBVIOUS
<1> HIDE DEF r
<1> QED
  BY <1>1, <1>4, <1>5, <1>6, <1>7, <1>8, <1>9, <1>10 DEF ManyPlaced

\* What a single consumer knows.
LEMMA FrameOne ==
    ASSUME NEW w, NEW v, NEW Z, NEW k, Frame(w, v, Z, k), NEW c \in Consumers, OnePlaced(w, c),
           cons'[c] = cons[c], At(c, "free_page") => PageOf(cons[c].control) \notin Z,
           \/ cons[c].pc \in {"idle", "consuming"}
           \/ v.head = w.head /\ (k \in Written(w) => "busy" \in m_next[w.at[k]].flags)
              /\ ~(k \in 1 .. (w.head - 1))
    PROVE  OnePlaced(v, c)'
<1> DEFINE r == cons[c]
<1>a. CASE cons[c].pc \in {"idle", "consuming"}
  BY <1>a DEF OnePlaced
<1>b. CASE v.head = w.head /\ (k \in Written(w) => "busy" \in m_next[w.at[k]].flags)
           /\ ~(k \in 1 .. (w.head - 1))
  <2>1. r.pc \in {"try_busy", "advance"} =>
             m_next'[r.control] = r.next /\ \E i \in Written(v) : Placed(v, c, i)'
    <3> SUFFICES ASSUME r.pc \in {"try_busy", "advance"}
                 PROVE  m_next'[r.control] = r.next /\ \E i \in Written(v) : Placed(v, c, i)'
      OBVIOUS
    <3>1. PICK i \in Written(w) : m_next[r.control] = r.next /\ Placed(w, c, i)
      BY DEF OnePlaced
    <3>2. w.at[i] = r.control /\ PageOf(r.control) \notin Z /\ i \in Written(v)
      BY <3>1, <1>b, FramePlaces DEF Placed
    <3>3. Placed(v, c, i)'
      BY <3>1, <3>2, FramePlaced
    <3>4. "busy" \notin m_next[r.control].flags
      BY <3>1 DEF OnePlaced, Consumable, IsDead
    <3>5. i # k
      BY <3>2, <3>4, <1>b
    <3> QED
      BY <3>1, <3>2, <3>3, <3>5, FramePlaces
  <2>2. r.pc = "free_page" => Placed(v, c, v.head - 1)' /\ ~Continues(v, v.head - 1)
    <3> SUFFICES ASSUME r.pc = "free_page" PROVE Placed(v, c, v.head - 1)' /\ ~Continues(v, v.head - 1)
      OBVIOUS
    <3>1. Placed(w, c, w.head - 1) /\ ~Continues(w, w.head - 1)
      BY DEF OnePlaced
    <3>2. PageOf(cons[c].control) \notin Z
      BY DEF At
    <3> QED
      BY <3>1, <3>2, <1>b, FramePlaced
  <2>3. r.pc = "move" => \E i \in Live(v) : r.next.to = v.at[i]
    BY <1>b, FramePlaces DEF OnePlaced
  <2> QED
    BY <2>1, <2>2, <2>3 DEF OnePlaced
<1> QED
  BY <1>a, <1>b

---------------------------------------------------------------------------
(* What a step of a producer leaves of the invariant *)

\* p is outside the function that moves the tail.
Aside(p) == prod[p].pc \in {"idle", "fill", "pending"}

\* Another producer is not disturbed in its allocation.
LEMMA OtherAllocation ==
    ASSUME NEW w, Core(w), NEW p \in Producers, NEW q \in Producers, q # p, prod'[q] = prod[q], put' = put,
           \/ Inside(p)
           \/ /\ m_tail' = m_tail
              /\ \A b \in Block : SamePage(m_tail, b) /\ m_tail[2] < b[2] => m_next'[b] = m_next[b]
    PROVE  AllocationOK(q)'
<1>0. AllocationOK(q) /\ put \in {"single", "spin"} /\ AloneInside
  BY ProducerKnown DEF Core, Shape, TypesTrail
<1>1. CASE Inside(p)
  <2>1. prod[q].pc \notin {"try", "store", "link_page", "init_page"}
    <3>1. CASE put = "spin"
      BY <3>1, <1>0, <1>1 DEF AloneInside, LockHeldInside, Inside
    <3>2. CASE put = "single"
      BY <3>2, <1>0, <1>1 DEF AloneInside, Inside
    <3> QED
      BY <3>1, <3>2, <1>0
  <2> QED
    BY <2>1, <1>0 DEF AllocationOK, Putting
<1>2. CASE /\ m_tail' = m_tail
           /\ \A b \in Block : SamePage(m_tail, b) /\ m_tail[2] < b[2] => m_next'[b] = m_next[b]
  <2>1. PAt(q, "store") => ReservedEnd(q)' = ReservedEnd(q) /\ m_next'[ReservedEnd(q)] = m_next[ReservedEnd(q)]
    BY <1>2, ProducerKnown DEF ReservedEnd, PAt
  <2> QED
    BY <2>1, <1>0, <1>2 DEF AllocationOK, Putting, PAt
<1> QED
  BY <1>1, <1>2

\* One producer at a time is in the allocation.
LEMMA AloneKept ==
    ASSUME NEW w, Core(w), NEW p \in Producers, Moved(p), put' = put, LockHeldInside',
           put = "single" => OnlyPut(p) \/ ~Aside(p) \/ Aside(p)'
    PROVE  AloneInside'
<1>1. AloneInside /\ \A q \in Producers \ {p} : prod'[q] = prod[q]
  BY DEF Core, Moved
<1> QED
  BY <1>1 DEF AloneInside, OnlyPut, Aside

\* No consumer is in a page of Z, or about to give one back.
Apart(Z) ==
    \A c \in Consumers :
        /\ At(c, "free_page") => PageOf(cons[c].control) \notin Z
        /\ consume = "multiple" /\ cons[c].control # NoBlock => PageOf(cons[c].control) \notin Z

\* What is shown of a step of a producer.
ProducerFrame(w, v, Z, k, p) ==
    /\ Frame(w, v, Z, k) /\ Moved(p) /\ v.head = w.head
    /\ UNCHANGED <<headVars, pinners>> /\ LockHeldInside'
    /\ put = "single" => OnlyPut(p) \/ ~Aside(p) \/ Aside(p)'
    /\ AllocationOK(p)' /\ PutterOK(v, p)'
    /\ \/ Inside(p)
       \/ /\ m_tail' = m_tail
          /\ \A b \in Block : SamePage(m_tail, b) /\ m_tail[2] < b[2] => m_next'[b] = m_next[b]
    /\ k # 0 => k \in Written(w) /\ prod[p].control = w.at[k] /\ ~Putting(p)'
    /\ \/ prod'[p].control \in {prod[p].control, NoBlock}
       \/ prod'[p].control = w.at[w.last] /\ w.last > 0
    /\ v.last > w.last /\ w.last > 0 => WrittenWord(v, w.last)'
    /\ v.last > 0 => IsEnd(m_next'[m_tail'])
    /\ v.last > 0 => (m_tail[2] < EndSlot => EndClear(PageOf(m_tail)))'
    /\ \A x \in Pages : New(x)' => m_next'[FirstBlock(x)] = Zero /\ EndClear(x)'
    /\ m_initial_page' = m_initial_page \/ m_initial_page = NoPage
    /\ Apart(Z) /\ PagesHeld(v)'

\* From the frame of a step of a producer: the words of the trail,
LEMMA ProducerWords ==
    ASSUME NEW w, Core(w), NEW v, NEW Z, NEW k, NEW p \in Producers, ProducerFrame(w, v, Z, k, p)
    PROVE  WordsTrail(v)'
<1>0. Frame(w, v, Z, k) /\ WordsTrail(w) /\ v.head = w.head /\ v.last \in {w.last, w.last + 1}
  BY DEF ProducerFrame, Core, Frame
<1>1. \A i \in Written(v) : WrittenWord(v, i)'
  <2> SUFFICES ASSUME NEW i \in Written(v) PROVE WrittenWord(v, i)'
    OBVIOUS
  <2>1. i \in Written(w) \/ (i = w.last /\ w.last > 0 /\ v.last > w.last)
    BY <1>0, FramePlaces DEF Written
  <2> QED
    BY <2>1, <1>0, FrameWritten DEF ProducerFrame
<1>2. consume = "multiple" => \A i \in 1 .. (v.head - 1) : Valid(v, i)' => PassedWord(v, i)'
  BY <1>0, FramePassed
<1>3. consume' = consume
  BY <1>0 DEF Frame, layers
<1>4. /\ v.last > 0 => IsEnd(m_next'[m_tail'])
      /\ v.last > 0 => (m_tail[2] < EndSlot => EndClear(PageOf(m_tail)))'
      /\ \A x \in Pages : New(x)' => m_next'[FirstBlock(x)] = Zero /\ EndClear(x)'
  BY DEF ProducerFrame
<1> QED
  BY <1>1, <1>2, <1>3, <1>4 DEF WordsTrail, Written

\* the puts,
LEMMA ProducerPutters ==
    ASSUME NEW w, Core(w), NEW v, NEW Z, NEW k, NEW p \in Producers, ProducerFrame(w, v, Z, k, p)
    PROVE  PuttersOK(v)'
<1>0. /\ Frame(w, v, Z, k) /\ put' = put /\ PuttersOK(w) /\ Shape(w)
      /\ \A q \in Producers \ {p} : prod'[q] = prod[q]
  BY DEF ProducerFrame, Core, Frame, layers, Moved
<1>1. \A q \in Producers \ {p} : AllocationOK(q)'
  BY <1>0, OtherAllocation DEF ProducerFrame
<1>2. \A q \in Producers \ {p} : PutterOK(v, q)'
  <2> SUFFICES ASSUME NEW q \in Producers \ {p} PROVE PutterOK(v, q)'
    OBVIOUS
  <2>1. PutterOK(w, q) /\ prod'[q] = prod[q]
    BY <1>0 DEF PuttersOK
  <2>2. k \in Written(w) => prod[q].control # w.at[k]
    <3> SUFFICES ASSUME k \in Written(w) PROVE prod[q].control # w.at[k]
      OBVIOUS
    <3>1. k # 0 /\ w.at[k] \in Block
      BY <1>0, FramePlaces DEF Written
    <3>2. prod[p].control = w.at[k] /\ w.at[k] # NoBlock
      BY <3>1, BlockParts DEF ProducerFrame
    <3> QED
      BY <3>2, <1>0 DEF PuttersOK, Putting
  <2> QED
    BY <2>1, <2>2, <1>0, FramePutter
<1>3. \A q \in Producers : Putting(q) => \E i \in Written(w) : w.at[i] = prod[q].control
  BY <1>0 DEF PuttersOK, PutterOK
<1>4. w.last > 0 => \A q \in Producers : Putting(q) => prod[q].control # w.at[w.last]
  <2> SUFFICES ASSUME w.last > 0, NEW q \in Producers, Putting(q), prod[q].control = w.at[w.last] PROVE FALSE
    OBVIOUS
  <2>1. PICK i \in Written(w) : w.at[i] = w.at[w.last]
    BY <1>3
  <2>2. Valid(w, i) /\ i < w.last /\ Valid(w, w.last)
    BY <2>1, <1>0, FramePlaces, TrailFacts
  <2> QED
    BY <2>1, <2>2, <1>0, FramePlaces, OnePlace
<1>5. \A q \in Producers \ {p} : Putting(p)' /\ Putting(q)' => prod'[p].control # prod'[q].control
  <2> SUFFICES ASSUME NEW q \in Producers \ {p}, Putting(p)', Putting(q)' PROVE prod'[p].control # prod'[q].control
    OBVIOUS
  <2>1. prod'[q].control = prod[q].control /\ Putting(q)
    BY <1>0 DEF Putting
  <2>2. CASE prod'[p].control = prod[p].control
    BY <2>1, <2>2, <1>0 DEF PuttersOK, Putting
  <2>3. CASE prod'[p].control = w.at[w.last] /\ w.last > 0
    BY <2>1, <2>3, <1>4
  <2> QED
    BY <2>2, <2>3 DEF ProducerFrame, Putting
<1>6. \A q, r \in Producers \ {p} : Putting(q)' /\ Putting(r)' /\ q # r => prod'[q].control # prod'[r].control
  BY <1>0 DEF PuttersOK, Putting
<1>7. AllocationOK(p)' /\ PutterOK(v, p)'
  BY DEF ProducerFrame
<1> QED
  BY <1>1, <1>2, <1>5, <1>6, <1>7 DEF PuttersOK

\* and the Consume objects.
LEMMA ProducerTakers ==
    ASSUME NEW w, Core(w), NEW v, NEW Z, NEW k, NEW p \in Producers, ProducerFrame(w, v, Z, k, p)
    PROVE  TakersOK(v)'
<1>0. /\ Frame(w, v, Z, k) /\ consume' = consume /\ PuttersOK(w) /\ Shape(w) /\ TakersOK(w) /\ TypesTrail
      /\ \A q \in Producers \ {p} : prod'[q] = prod[q]
      /\ UNCHANGED cons
  BY DEF ProducerFrame, Core, Frame, Shape, layers, Moved, headVars
<1>1. k # 0 => /\ k \in Written(w) /\ Putting(p) /\ prod[p].control = w.at[k]
               /\ "busy" \in m_next[w.at[k]].flags /\ w.at[k] \in Block
  <2> SUFFICES ASSUME k # 0 PROVE /\ k \in Written(w) /\ Putting(p) /\ prod[p].control = w.at[k]
                                  /\ "busy" \in m_next[w.at[k]].flags /\ w.at[k] \in Block
    OBVIOUS
  <2>1. k \in Written(w) /\ prod[p].control = w.at[k]
    BY DEF ProducerFrame
  <2>2. w.at[k] \in Block /\ Putting(p)
    BY <2>1, <1>0, FramePlaces, BlockParts DEF Putting
  <2> QED
    BY <2>1, <2>2, <1>0 DEF PuttersOK, PutterOK
<1>2. \A c \in Consumers : TakerOK(v, c)'
  <2> SUFFICES ASSUME NEW c \in Consumers PROVE TakerOK(v, c)'
    OBVIOUS
  <2>1. k \in Written(w) /\ Takes(c) => cons[c].control # w.at[k]
    <3>1. k \in Written(w) => k # 0
      BY <1>0, FramePlaces DEF Written
    <3> QED
      BY <3>1, <1>0, <1>1 DEF TakersOK
  <2> QED
    BY <2>1, <1>0, FrameTaker DEF TakersOK
<1>3. consume = "multiple" => \A c \in Consumers : ManyPlaced(v, c)'
  <2> SUFFICES ASSUME consume = "multiple", NEW c \in Consumers PROVE ManyPlaced(v, c)'
    OBVIOUS
  <2>1. ConsumersOK /\ ManyPlaced(w, c) /\ (cons[c].control # NoBlock => PageOf(cons[c].control) \notin Z)
        /\ (m_initial_page' = m_initial_page \/ m_initial_page = NoPage)
    BY <1>0 DEF TypesTrail, TakersOK, ProducerFrame, Apart
  <2> QED
    BY <2>1, <1>0, FrameMany
<1>4. consume = "single" => \A c \in Consumers : OnePlaced(v, c)'
  <2> SUFFICES ASSUME consume = "single", NEW c \in Consumers PROVE OnePlaced(v, c)'
    OBVIOUS
  <2>1. OnePlaced(w, c) /\ (At(c, "free_page") => PageOf(cons[c].control) \notin Z) /\ v.head = w.head
    <3>1. OnePlaced(w, c)
      BY <1>0 DEF TakersOK
    <3>2. At(c, "free_page") => PageOf(cons[c].control) \notin Z
      <4>1. Apart(Z)
        BY DEF ProducerFrame
      <4> QED
        BY <4>1 DEF Apart
    <3>3. v.head = w.head
      BY DEF ProducerFrame
    <3> QED
      BY <3>1, <3>2, <3>3
  <2>2. ~(k \in 1 .. (w.head - 1)) /\ (k \in Written(w) => "busy" \in m_next[w.at[k]].flags)
    BY <1>0, <1>1, FramePlaces DEF Written
  <2> QED
    BY <2>1, <2>2, <1>0, FrameOne
<1>5. \A c \in Consumers : Putting(p)' /\ Takes(c) => prod'[p].control # cons[c].control
  <2> SUFFICES ASSUME NEW c \in Consumers, Putting(p)', Takes(c), prod'[p].control = cons[c].control PROVE FALSE
    OBVIOUS
  <2>1. CASE prod'[p].control = prod[p].control
    BY <2>1, <1>0 DEF TakersOK, Putting
  <2>2. CASE prod'[p].control = w.at[w.last] /\ w.last > 0
    <3>0. TakerOK(w, c) /\ cons[c].control = w.at[w.last]
      BY <2>2, <1>0 DEF TakersOK
    <3>1. PICK i \in Written(w) : w.at[i] = w.at[w.last]
      BY <3>0 DEF TakerOK
    <3>2. Valid(w, i) /\ i < w.last /\ Valid(w, w.last)
      BY <3>1, <2>2, <1>0, FramePlaces, TrailFacts
    <3> QED
      BY <3>1, <3>2, <1>0, FramePlaces, OnePlace
  <2> QED
    BY <2>1, <2>2 DEF ProducerFrame, Putting
<1> QED
  BY <1>0, <1>2, <1>3, <1>4, <1>5 DEF TakersOK, Takes, At, Putting

\* Hence a step of a producer keeps the invariant.
LEMMA ProducerCore ==
    ASSUME NEW w, Core(w), NEW v, NEW Z, NEW k, NEW p \in Producers, ProducerFrame(w, v, Z, k, p)
    PROVE  Core(v)'
<1>1. Shape(v)' /\ PagesHeld(v)' /\ WordsTrail(v)' /\ PuttersOK(v)' /\ TakersOK(v)'
  BY ProducerWords, ProducerPutters, ProducerTakers DEF ProducerFrame, Frame
<1>2. AloneInside'
  BY AloneKept DEF ProducerFrame, Frame, layers
<1>3. PinsHeld'
  BY DEF Core, PinsHeld, ProducerFrame, Frame, headVars, layers
<1> QED
  BY <1>1, <1>2, <1>3 DEF Core

---------------------------------------------------------------------------
(* The steps of a producer, one by one *)

\* The tail is the last block of its page's life, and the page is linked.
LEMMA TailPlaces ==
    ASSUME NEW w, Shape(w), m_tail # InvalidBlock
    PROVE  /\ w.last > 0 /\ w.last \in Nat /\ m_tail = w.at[w.last] /\ m_tail \in Block
           /\ \A i \in 1 .. (w.last - 1) : Valid(w, i) => w.at[i] # m_tail
           /\ \A r \in Block : SamePage(m_tail, r) /\ m_tail[2] < r[2] =>
                r # m_tail /\ \A i \in Index(w) : Valid(w, i) => w.at[i] # r
           /\ ~New(PageOf(m_tail))
<1>1. w.last > 0 /\ w.last \in Nat /\ m_tail = w.at[w.last] /\ m_tail \in Block /\ Valid(w, w.last)
  BY TrailFacts
<1>2. \A i \in 1 .. (w.last - 1) : Valid(w, i) => w.at[i] # m_tail
  <2> SUFFICES ASSUME NEW i \in 1 .. (w.last - 1), Valid(w, i), w.at[i] = w.at[w.last] PROVE FALSE
    BY <1>1
  <2>1. i = w.last
    BY <1>1, OnePlace
  <2> QED
    BY <2>1, <1>1
<1>3. \A r \in Block : SamePage(m_tail, r) /\ m_tail[2] < r[2] =>
                r # m_tail /\ \A i \in Index(w) : Valid(w, i) => w.at[i] # r
  <2> SUFFICES ASSUME NEW r \in Block, SamePage(m_tail, r), m_tail[2] < r[2]
               PROVE  r # m_tail /\ \A i \in Index(w) : Valid(w, i) => w.at[i] # r
    OBVIOUS
  <2>1. m_tail[2] \in Nat /\ r[2] \in Nat
    BY <1>1, BlockParts
  <2>2. ASSUME NEW i \in Index(w), Valid(w, i), w.at[i] = r PROVE FALSE
    <3>1. SamePage(w.at[i], m_tail)
      BY <2>2 DEF SamePage
    <3>2. w.at[i][2] <= m_tail[2]
      BY <2>2, <3>1, SameLife
    <3> QED
      BY <2>1, <2>2, <3>2
  <2> QED
    BY <2>1, <2>2
<1>4. ~New(PageOf(m_tail))
  BY <1>1 DEF Valid
<1> QED
  BY <1>1, <1>2, <1>3, <1>4

\* Which pages are not linked yet.
LEMMA NewSame ==
    ASSUME NEW p \in Producers, Moved(p), prod[p].pc \notin {"link_page", "init_page"},
           prod'[p].pc \notin {"link_page", "init_page"}
    PROVE  \A x : New(x)' <=> New(x)
<1>1. \A q \in Producers : q = p \/ prod'[q] = prod[q]
  BY DEF Moved
<1> QED
  BY <1>1 DEF New

\* The pages that consumers have left.
LEMMA LeavesSame ==
    ASSUME UNCHANGED cons
    PROVE  \A c \in Consumers : Leaves(c)' <=> Leaves(c)
BY DEF Leaves

\* The pages are those of the trail, if it goes on in the same pages.
LEMMA PagesSame ==
    ASSUME NEW w, Core(w), NEW v, UNCHANGED <<cons, pool>>, \A x : New(x)' <=> New(x),
           \A x \in Pages : (\E i \in Live(v) : In(v, i, x)) <=> (\E i \in Live(w) : In(w, i, x))
    PROVE  PagesHeld(v)'
<1>1. PagesHeld(w)
  BY DEF Core
<1>2. \A c \in Consumers : Leaves(c)' <=> Leaves(c)
  BY LeavesSame
<1>3. \A x \in Pages : pool'[x] = "queue" <=>
          \/ \E i \in Live(v) : In(v, i, x)
          \/ New(x)'
          \/ \E c \in Consumers : Leaves(c)' /\ PageOf(cons'[c].control) = x
  BY <1>1, <1>2 DEF PagesHeld
<1>4. \A c, d \in Consumers : Leaves(c)' /\ Leaves(d)' /\ c # d => ~SamePage(cons'[c].control, cons'[d].control)
  BY <1>1, <1>2 DEF PagesHeld
<1> QED
  BY <1>3, <1>4 DEF PagesHeld

\* The trail is longer by one block of the same page.
LEMMA PagesExtended ==
    ASSUME NEW w, Core(w), w.last > 0, NEW b \in Block, SamePage(m_tail, b), UNCHANGED <<cons, pool>>,
           \A x : New(x)' <=> New(x), NEW v, v = Extended(w, b)
    PROVE  PagesHeld(v)'
<1>1. Shape(w) /\ w \in Trail
  BY DEF Core, Shape
<1>2. /\ v.last = w.last + 1 /\ v.head = w.head /\ v.at[v.last] = b
      /\ \A i \in Index(w) : v.at[i] = w.at[i]
  BY <1>1, ExtendedFacts
<1>3. w.last \in Nat /\ w.head \in Nat /\ m_tail = w.at[w.last] /\ w.head <= w.last /\ w.head > 0
  BY <1>1, TrailFacts
<1>4. \A x \in Pages : (\E i \in Live(v) : In(v, i, x)) <=> (\E i \in Live(w) : In(w, i, x))
  <2> TAKE x \in Pages
  <2>1. ASSUME NEW i \in Live(v), In(v, i, x) PROVE \E j \in Live(w) : In(w, j, x)
    <3>1. CASE i = v.last
      <4>1. w.last \in Live(w) /\ In(w, w.last, x)
        BY <2>1, <3>1, <1>2, <1>3 DEF In, SamePage, Live
      <4> QED
        BY <4>1
    <3>2. CASE i # v.last
      <4>1. i \in Live(w) /\ i \in Index(w)
        BY <2>1, <3>2, <1>2, <1>3 DEF Live, Index
      <4> QED
        BY <4>1, <2>1, <1>2 DEF In
    <3> QED
      BY <3>1, <3>2
  <2>2. ASSUME NEW i \in Live(w), In(w, i, x) PROVE \E j \in Live(v) : In(v, j, x)
    <3>1. i \in Live(v) /\ i \in Index(w)
      BY <2>2, <1>2, <1>3 DEF Live, Index
    <3> QED
      BY <3>1, <2>2, <1>2 DEF In
  <2> QED
    BY <2>1, <2>2
<1> QED
  BY <1>4, PagesSame

\* What every step of a producer leaves.
Around == UNCHANGED <<headVars, pinners, m_rest, layers, alive>>

\* The words stay, and the producer goes on.
Calm(p) ==
    /\ Moved(p) /\ AllocationOK(p)' /\ BaseTypeOK' /\ WordsOK'
    /\ UNCHANGED <<m_next, pool, m_initial_page, m_tail>>
    /\ prod'[p].control = prod[p].control /\ (Putting(p) => prod'[p].next = prod[p].next)
    /\ prod[p].pc \notin {"link_page", "init_page"} /\ prod'[p].pc \notin {"link_page", "init_page"}
    /\ prod'[p].pc \in {"settle", "fill"} =>
              /\ prod[p].pc \in {"settle", "fill"} /\ prod'[p].tail = prod[p].tail
              /\ prod'[p].size = prod[p].size /\ prod'[p].flags = prod[p].flags

\* Types, then.
LEMMA MovedTypes ==
    ASSUME NEW w, Core(w), NEW p \in Producers, Moved(p), BaseTypeOK', WordsOK', Around,
           m_tail' = m_tail \/ m_tail' \in Block
    PROVE  TypesTrail'
<1>1. TypesTrail /\ m_tail \in Block \cup {InvalidBlock}
  BY DEF Core, Shape, TypesTrail, TypeOK, TailTypeOK
<1> QED
  BY <1>1, ProducerTypes DEF Moved, Around

\* The frame of a step that neither writes a word nor moves the tail.
LEMMA CalmFrame ==
    ASSUME NEW w, Core(w), NEW p \in Producers, Calm(p), Around, LockHeldInside',
           put = "single" => OnlyPut(p) \/ ~Aside(p) \/ Aside(p)'
    PROVE  ProducerFrame(w, w, {}, 0, p)
<1>0. Shape(w) /\ WordsTrail(w) /\ PutterOK(w, p) /\ Moved(p)
  BY ProducerKnown DEF Core, Calm
<1>1. TypesTrail'
  BY MovedTypes DEF Calm
<1>2. \A x : New(x)' <=> New(x)
  BY NewSame DEF Calm
<1>3. Shape(w)' /\ Keeps(w, w, {})
  BY <1>0, <1>1, <1>2, TrailKept DEF Calm, Around, headVars
<1>4. Frame(w, w, {}, 0)
  <2>1. w.last \in Nat /\ w.head \in Nat
    BY <1>0, TrailFacts
  <2> QED
    BY <2>1, <1>0, <1>3 DEF Frame, Change, Calm, Around
<1>5. PutterOK(w, p)'
  <2>1. 0 \notin Written(w)
    BY <1>0, TrailFacts DEF Written
  <2> QED
    BY <2>1, <1>0, <1>4, FramePutter DEF Calm
<1>6. PagesHeld(w)'
  BY <1>2, PagesSame DEF Calm, Around, headVars
<1>7. Apart({})
  BY DEF Apart
<1>8. /\ w.last > 0 => IsEnd(m_next'[m_tail'])
      /\ w.last > 0 => (m_tail[2] < EndSlot => EndClear(PageOf(m_tail)))'
      /\ \A x \in Pages : New(x)' => m_next'[FirstBlock(x)] = Zero /\ EndClear(x)'
  BY <1>0, <1>2 DEF WordsTrail, Calm, EndClear, Around, layers
<1>9. w.last \in Nat
  BY <1>0, TrailFacts
<1> QED
  BY <1>0, <1>4, <1>5, <1>6, <1>7, <1>8, <1>9 DEF ProducerFrame, Calm, Around

\* The frame of a step that starts an allocation,
LEMMA AskingFrame ==
    ASSUME NEW w, Core(w), NEW p \in Producers, Asking(p), Around, LockHeldInside',
           put = "single" => OnlyPut(p)
    PROVE  ProducerFrame(w, w, {}, 0, p)
<1>1. Quiet(p) /\ prod'[p].pc = "load_tail" /\ TypeOK /\ WordsOK
  BY AskingQuiet, ProducerKnown
<1>2. Calm(p)
  BY <1>1 DEF Quiet, Calm, TypeOK, BaseTypeOK, WordsOK
<1> QED
  BY <1>2, CalmFrame

\* of one that goes on with it,
LEMMA GoingFrame ==
    ASSUME NEW w, Core(w), NEW p \in Producers, Going(p), Around, LockHeldInside'
    PROVE  ProducerFrame(w, w, {}, 0, p)
<1>1. Quiet(p) /\ ~Aside(p) /\ TypeOK /\ WordsOK
  BY GoingQuiet, ProducerKnown DEF Aside
<1>2. Calm(p)
  BY <1>1 DEF Quiet, Calm, TypeOK, BaseTypeOK, WordsOK
<1> QED
  BY <1>1, <1>2, CalmFrame

\* of one that constructs the element or the raw data,
LEMMA FillFrame ==
    ASSUME NEW w, Core(w), NEW p \in Producers, Fill(p), Around, LockHeldInside'
    PROVE  ProducerFrame(w, w, {}, 0, p)
<1>1. Calm(p) /\ Aside(p)'
  BY FillFacts DEF Calm, Aside, PAt
<1> QED
  BY <1>1, CalmFrame

\* A block of the trail that is followed by one of its page.
LEMMA InnerBlock ==
    ASSUME NEW w, Shape(w), NEW k \in Written(w), Continues(w, k)
    PROVE  /\ k \in 1 .. (w.last - 1) /\ k # 0 /\ Valid(w, k) /\ w.at[k] \in Block /\ ~New(PageOf(w.at[k]))
           /\ w.at[k] # m_tail /\ w.at[k] # EndBlock(w.at[k]) /\ w.last > 0
           /\ \A i \in Index(w) : Valid(w, i) /\ i # k => w.at[i] # w.at[k]
<1>1. k \in 1 .. (w.last - 1) /\ k \in Live(w) /\ k # 0 /\ k < w.last
  BY TrailFacts DEF Written, Live
<1>2. Valid(w, k) /\ w.last > 0 /\ m_tail # InvalidBlock
  BY <1>1, TrailFacts, BlockParts
<1>3. w.at[k] \in Block /\ w.at[k][2] < w.at[k + 1][2] /\ w.at[k + 1] \in Block
  BY <1>1, <1>2, SameLife
<1>4. w.at[k] # EndBlock(w.at[k])
  BY <1>3, BlockParts DEF EndBlock
<1>5. w.at[k] # m_tail
  BY <1>1, <1>2, TailPlaces
<1>6. \A i \in Index(w) : Valid(w, i) /\ i # k => w.at[i] # w.at[k]
  BY <1>2, OnePlace
<1> QED
  BY <1>1, <1>2, <1>3, <1>4, <1>5, <1>6 DEF Valid

\* The word of the k-th block becomes n; the tail, the ends of pages and new
\* pages are apart from it.
InnerWords(w, k, n) ==
    /\ w.last > 0 => IsEnd(m_next'[m_tail'])
    /\ w.last > 0 => (m_tail[2] < EndSlot => EndClear(PageOf(m_tail)))'
    /\ \A x \in Pages : New(x)' => m_next'[FirstBlock(x)] = Zero /\ EndClear(x)'
    /\ \A i \in 1 .. (w.last - 1) : Valid(w, i) /\ i # k => m_next'[w.at[i]] = m_next[w.at[i]]
    /\ m_next'[w.at[k]] = n
\* Neither the tail, nor the end of its page, nor a new page is at such a block.
LEMMA InnerApart ==
    ASSUME NEW w, Core(w), NEW k \in Written(w), Continues(w, k), NEW n,
           m_next' = [m_next EXCEPT ![w.at[k]] = n], put' = put, m_tail' = m_tail, \A x : New(x)' <=> New(x)
    PROVE  InnerWords(w, k, n)
<1>0. Shape(w) /\ WordsTrail(w) /\ m_next \in [Block -> NextPtr]
  BY DEF Core, Shape, TypesTrail, TypeOK, BaseTypeOK
<1>1. /\ k \in 1 .. (w.last - 1) /\ k # 0 /\ Valid(w, k) /\ w.at[k] \in Block /\ ~New(PageOf(w.at[k]))
      /\ w.at[k] # m_tail /\ w.at[k] # EndBlock(w.at[k]) /\ w.last > 0
      /\ \A i \in Index(w) : Valid(w, i) /\ i # k => w.at[i] # w.at[k]
  BY <1>0, InnerBlock
<1>2. m_tail \in Block /\ w.last \in Nat /\ (\A i \in Nat : w.at[i] \in Block)
  BY <1>0, <1>1, TrailFacts
<1>3. m_next'[w.at[k]] = n /\ \A b \in Block : b # w.at[k] => m_next'[b] = m_next[b]
  BY <1>0, <1>1
<1>4. \A x \in Pages : EndBlock(FirstBlock(x)) # w.at[k] /\ EndBlock(FirstBlock(x)) \in Block /\ FirstBlock(x) \in Block
                       /\ PageOf(FirstBlock(x)) = x
  BY <1>1, BlockParts DEF EndBlock, PageOf
<1>5. \A x \in Pages : EndClear(x) => EndClear(x)'
  BY <1>3, <1>4 DEF EndClear
<1>6. IsEnd(m_next'[m_tail'])
  BY <1>0, <1>1, <1>2, <1>3 DEF WordsTrail
<1>7. (m_tail[2] < EndSlot => EndClear(PageOf(m_tail)))'
  <2>1. PageOf(m_tail) \in Pages
    BY <1>2, BlockParts
  <2>2. (m_tail[2] < EndSlot => EndClear(PageOf(m_tail))')
    BY <2>1, <1>0, <1>1, <1>5 DEF WordsTrail
  <2>3. \A x : EndClear(x)' <=> (put' = "spin" => IsEnd(m_next'[EndBlock(FirstBlock(x))]))
    BY DEF EndClear
  <2> QED
    BY <2>2, <2>3 DEF EndClear
<1>8. \A x \in Pages : New(x)' => m_next'[FirstBlock(x)] = Zero /\ EndClear(x)'
  <2> SUFFICES ASSUME NEW x \in Pages, New(x) PROVE m_next'[FirstBlock(x)] = Zero /\ EndClear(x)'
    OBVIOUS
  <2>1. FirstBlock(x) # w.at[k]
    BY <1>1, <1>4
  <2> QED
    BY <2>1, <1>0, <1>3, <1>4, <1>5 DEF WordsTrail
<1>9. \A i \in 1 .. (w.last - 1) : Valid(w, i) /\ i # k => m_next'[w.at[i]] = m_next[w.at[i]]
  <2>1. \A i \in 1 .. (w.last - 1) : i \in Index(w) /\ w.at[i] \in Block
    BY <1>2 DEF Index
  <2> QED
    BY <2>1, <1>1, <1>3
<1> QED
  BY <1>3, <1>6, <1>7, <1>8, <1>9 DEF InnerWords

\* and of the end of a put.
LEMMA EndPutFrame ==
    ASSUME NEW w, Core(w), NEW p \in Producers, CommitPut(p) \/ CancelPut(p), Around, LockHeldInside'
    PROVE  \E k \in Written(w) :
              /\ ProducerFrame(w, w, {}, k, p) /\ w.at[k] = prod[p].control /\ Continues(w, k)
              /\ "busy" \in m_next[w.at[k]].flags
<1>0. Shape(w) /\ WordsTrail(w) /\ PutterOK(w, p)
  BY ProducerKnown DEF Core
<1>1. /\ Moved(p) /\ AllocationOK(p)' /\ BaseTypeOK' /\ WordsOK'
      /\ PAt(p, "pending") /\ PAt(p, "idle")' /\ Putting(p) /\ prod[p].control \in Block
      /\ prod'[p].control = NoBlock
      /\ UNCHANGED <<content, pool, pinners, heap, m_initial_page, m_tail, m_rest>>
  BY EndPutFacts
<1>2. PICK f \in SUBSET Flag : m_next' = [m_next EXCEPT ![prod[p].control] = NextWord(prod[p].next.to, f)]
  BY EndPutFacts
<1>3. PICK k \in Written(w) : /\ w.at[k] = prod[p].control /\ Continues(w, k)
                              /\ m_next[prod[p].control] = prod[p].next /\ "busy" \in prod[p].next.flags
  BY <1>0, <1>1 DEF PutterOK
<1>n. PICK n : n = NextWord(prod[p].next.to, f)
  OBVIOUS
<1>4. m_next' = [m_next EXCEPT ![w.at[k]] = n]
  BY <1>2, <1>3, <1>n
<1>5. TypesTrail'
  BY <1>1, MovedTypes
<1>6. \A x : New(x)' <=> New(x)
  BY <1>1, NewSame DEF PAt
<1>7. Shape(w)' /\ Keeps(w, w, {})
  BY <1>0, <1>1, <1>5, <1>6, TrailKept DEF Around, headVars
<1>8. /\ w.last > 0 => IsEnd(m_next'[m_tail'])
      /\ w.last > 0 => (m_tail[2] < EndSlot => EndClear(PageOf(m_tail)))'
      /\ \A x \in Pages : New(x)' => m_next'[FirstBlock(x)] = Zero /\ EndClear(x)'
      /\ \A i \in 1 .. (w.last - 1) : Valid(w, i) /\ i # k => m_next'[w.at[i]] = m_next[w.at[i]]
      /\ m_next'[w.at[k]] = n
  <2>1. put' = put /\ m_tail' = m_tail
    BY <1>1 DEF Around, layers
  <2>2. InnerWords(w, k, n)
    BY <2>1, <1>3, <1>4, <1>6, InnerApart
  <2> QED
    BY <2>2 DEF InnerWords
<1>9. Change(w, k)
  <2>1. m_next[w.at[k]].to = w.at[k + 1]
    BY <1>0 DEF WordsTrail, WrittenWord
  <2>2. n.to = w.at[k + 1]
    BY <2>1, <1>3, <1>n DEF NextWord
  <2>3. ~IsDead(m_next[w.at[k]])
    BY <1>3 DEF IsDead
  <2> QED
    BY <2>2, <2>3, <1>3, <1>8 DEF Change
<1>10. Frame(w, w, {}, k)
  <2>1. w.last \in Nat /\ w.head \in Nat
    BY <1>0, TrailFacts
  <2> QED
    BY <2>1, <1>0, <1>7, <1>8, <1>9 DEF Frame, Around
<1>11. PagesHeld(w)'
  BY <1>1, <1>6, PagesSame DEF Around, headVars
<1>12. Apart({}) /\ Aside(p)' /\ PutterOK(w, p)' /\ ~Putting(p)'
  BY <1>1 DEF Apart, Aside, PAt, PutterOK, Putting
<1>13. \A b \in Block : SamePage(m_tail, b) /\ m_tail[2] < b[2] => m_next'[b] = m_next[b]
  <2> SUFFICES ASSUME NEW b \in Block, SamePage(m_tail, b), m_tail[2] < b[2] PROVE b # w.at[k]
    BY <1>4
  <2>1. Valid(w, k) /\ w.last > 0 /\ k \in Index(w) /\ m_tail # InvalidBlock
    BY <1>0, <1>3, InnerBlock, TrailFacts, BlockParts DEF Valid
  <2> QED
    BY <2>1, <1>0, TailPlaces
<1>14. w.last \in Nat
  BY <1>0, TrailFacts
<1>15. ProducerFrame(w, w, {}, k, p)
  BY <1>1, <1>3, <1>8, <1>10, <1>11, <1>12, <1>13, <1>14 DEF ProducerFrame, Around
<1> QED
  BY <1>3, <1>15

\* The block after the new one is terminated.
LEMMA NullTerminateFrame ==
    ASSUME NEW w, Core(w), NEW p \in Producers, NullTerminate(p), Around, LockHeldInside'
    PROVE  ProducerFrame(w, w, {}, 0, p)
<1>0. Shape(w) /\ WordsTrail(w) /\ PutterOK(w, p) /\ m_next \in [Block -> NextPtr]
  BY ProducerKnown DEF Core, TypeOK, BaseTypeOK
<1>1. /\ Moved(p) /\ AllocationOK(p)' /\ BaseTypeOK' /\ WordsOK' /\ PAt(p, "try") /\ PAt(p, "store")'
      /\ m_tail \in Block /\ prod'[p].control = prod[p].control /\ prod'[p].next = prod[p].next
      /\ UNCHANGED <<content, pool, pinners, heap, m_initial_page, m_tail, m_rest>>
  BY NullTerminateFacts
<1>2. PICK r \in Block : SamePage(m_tail, r) /\ m_tail[2] < r[2] /\ m_next' = [m_next EXCEPT ![r] = Zero]
  BY NullTerminateFacts
<1>3. TypesTrail'
  BY <1>1, MovedTypes
<1>4. \A x : New(x)' <=> New(x)
  BY <1>1, NewSame DEF PAt
<1>5. Shape(w)' /\ Keeps(w, w, {})
  BY <1>0, <1>1, <1>3, <1>4, TrailKept DEF Around, headVars
<1>6. /\ w.last > 0 /\ w.last \in Nat /\ r # m_tail /\ ~New(PageOf(m_tail))
      /\ \A i \in Index(w) : Valid(w, i) => w.at[i] # r
  <2>1. m_tail # InvalidBlock
    BY <1>1, BlockParts
  <2> QED
    BY <2>1, <1>0, <1>2, TailPlaces
<1>7. m_next'[r] = Zero /\ IsEnd(Zero) /\ \A b \in Block : b # r => m_next'[b] = m_next[b]
  BY <1>0, <1>2 DEF IsEnd, Zero
<1>8. \A x \in Pages : EndClear(x) => EndClear(x)'
  BY <1>7, BlockParts DEF EndClear, Around, layers
<1>9. Frame(w, w, {}, 0)
  <2>1. w.head \in Nat /\ \A i \in 1 .. (w.last - 1) : Valid(w, i) => m_next'[w.at[i]] = m_next[w.at[i]]
    <3>1. w.head \in Nat /\ \A i \in 1 .. (w.last - 1) : i \in Index(w) /\ w.at[i] \in Block
      BY <1>0, <1>6, TrailFacts DEF Index
    <3> QED
      BY <3>1, <1>6, <1>7
  <2> QED
    BY <2>1, <1>0, <1>5, <1>6 DEF Frame, Change, Around
<1>10. PutterOK(w, p)'
  <2>1. 0 \notin Written(w)
    BY <1>0, TrailFacts DEF Written
  <2> QED
    BY <2>1, <1>0, <1>1, <1>9, FramePutter DEF PAt
<1>11. PagesHeld(w)'
  BY <1>1, <1>4, PagesSame DEF Around, headVars
<1>12. Apart({}) /\ Inside(p) /\ ~Aside(p)
  BY <1>1 DEF Apart, Inside, Aside, PAt
<1>13. IsEnd(m_next'[m_tail']) /\ (m_tail[2] < EndSlot => EndClear(PageOf(m_tail)))'
  <2>1. PICK x \in Pages : x = PageOf(m_tail)
    BY <1>1, BlockParts
  <2>2. m_tail[2] < EndSlot => EndClear(x)'
    BY <2>1, <1>0, <1>6, <1>8 DEF WordsTrail
  <2>3. PageOf(m_tail') = x /\ m_tail'[2] = m_tail[2]
    BY <2>1, <1>1
  <2>4. (m_tail[2] < EndSlot => EndClear(PageOf(m_tail)))'
    BY <2>2, <2>3 DEF EndClear
  <2> QED
    BY <2>4, <1>0, <1>1, <1>6, <1>7 DEF WordsTrail
<1>14. \A x \in Pages : New(x)' => m_next'[FirstBlock(x)] = Zero /\ EndClear(x)'
  <2> SUFFICES ASSUME NEW x \in Pages, New(x) PROVE m_next'[FirstBlock(x)] = Zero /\ EndClear(x)'
    BY <1>4
  <2>1. FirstBlock(x) # r /\ FirstBlock(x) \in Block
    BY <1>2, <1>6, BlockParts DEF SamePage
  <2> QED
    BY <2>1, <1>0, <1>7, <1>8 DEF WordsTrail
<1> QED
  BY <1>1, <1>6, <1>9, <1>10, <1>11, <1>12, <1>13, <1>14 DEF ProducerFrame, Around

\* The tail goes to a block of the same page, whose word is the end.
Grows(p, f) ==
    /\ Moved(p) /\ AllocationOK(p)' /\ BaseTypeOK' /\ WordsOK' /\ Inside(p)
    /\ prod[p].pc \notin {"link_page", "init_page"} /\ prod'[p].pc \notin {"link_page", "init_page"}
    /\ m_tail \in Block /\ m_tail' \in Block /\ SamePage(m_tail, m_tail') /\ m_tail[2] < m_tail'[2]
    /\ m_next' = [m_next EXCEPT ![m_tail] = NextWord(m_tail', f)] /\ IsEnd(m_next'[m_tail'])
    /\ prod'[p].control \in {prod[p].control, NoBlock, m_tail}
    /\ UNCHANGED <<pool, m_initial_page>>

\* The trail is a block longer, in the page of the tail.
LEMMA GrowsTrail ==
    ASSUME NEW w, Core(w), NEW p \in Producers, NEW f, Grows(p, f), Around, NEW v, v = Extended(w, m_tail')
    PROVE  /\ Frame(w, v, {}, 0) /\ v.last = w.last + 1 /\ v.head = w.head /\ w.last > 0 /\ w.last \in Written(v)
           /\ v.at[w.last] = m_tail /\ v.at[w.last + 1] = m_tail' /\ w.at[w.last] = m_tail
           /\ m_next'[m_tail] = NextWord(m_tail', f) /\ WrittenWord(v, w.last)' /\ Continues(v, w.last)
           /\ \A b \in Block : b # m_tail => m_next'[b] = m_next[b]
           /\ \A i \in Written(w) : w.at[i] # m_tail
           /\ w.last \in Nat /\ w.head \in Nat /\ w.head <= w.last /\ w \in Trail
<1>0. Shape(w) /\ WordsTrail(w) /\ m_next \in [Block -> NextPtr] /\ w \in Trail
  BY DEF Core, Shape, TypesTrail, TypeOK, BaseTypeOK
<1>1. m_tail \in Block /\ m_tail' \in Block /\ SamePage(m_tail, m_tail') /\ m_tail[2] < m_tail'[2]
  BY DEF Grows
<1>2. TypesTrail'
  BY <1>1, MovedTypes DEF Grows
<1>3. \A x : New(x)' <=> New(x)
  BY NewSame DEF Grows
<1>4. /\ w.last > 0 /\ w.last \in Nat /\ m_tail = w.at[w.last]
      /\ \A i \in 1 .. (w.last - 1) : Valid(w, i) => w.at[i] # m_tail
  <2>1. m_tail # InvalidBlock
    BY <1>1, BlockParts
  <2> QED
    BY <2>1, <1>0, TailPlaces
<1>5. Shape(v)' /\ Keeps(w, v, {})
  BY <1>0, <1>1, <1>2, <1>3, <1>4, TrailExtended DEF Grows, Around, headVars
<1>6. w.head \in Nat /\ w.head <= w.last /\ w.head > 0 /\ (\A i \in Nat : w.at[i] \in Block) /\ \A i \in Live(w) : Valid(w, i)
  BY <1>0, <1>4, TrailFacts
<1>7. /\ v.last = w.last + 1 /\ v.head = w.head /\ v.at[v.last] = m_tail'
      /\ \A i \in Index(w) : v.at[i] = w.at[i]
  BY <1>0, <1>1, ExtendedFacts
<1>8. m_next'[m_tail] = NextWord(m_tail', f) /\ \A b \in Block : b # m_tail => m_next'[b] = m_next[b]
  BY <1>0, <1>1 DEF Grows
<1>9. v.at[w.last] = m_tail /\ v.at[w.last + 1] = m_tail' /\ Continues(v, w.last) /\ w.last \in Written(v)
  BY <1>1, <1>4, <1>6, <1>7 DEF Index, Continues, Written
<1>10. WrittenWord(v, w.last)'
  BY <1>8, <1>9 DEF WrittenWord, NextWord, Continues
<1>11. \A i \in Written(w) : w.at[i] # m_tail
  BY <1>4, <1>6 DEF Written, Live
<1>12. Frame(w, v, {}, 0)
  <2>1. \A i \in 1 .. (w.last - 1) : Valid(w, i) => m_next'[w.at[i]] = m_next[w.at[i]]
    BY <1>4, <1>6, <1>8
  <2> QED
    BY <2>1, <1>0, <1>4, <1>5, <1>7 DEF Frame, Change, Around
<1> QED
  BY <1>0, <1>4, <1>6, <1>7, <1>8, <1>9, <1>10, <1>11, <1>12

\* The frame of such a step.
LEMMA GrowsFrame ==
    ASSUME NEW w, Core(w), NEW p \in Producers, NEW f, Grows(p, f), Around, LockHeldInside',
           NEW v, v = Extended(w, m_tail'), PutterOK(v, p)'
    PROVE  ProducerFrame(w, v, {}, 0, p)
<1>0. WordsTrail(w)
  BY DEF Core
<1>1. m_tail \in Block /\ m_tail' \in Block /\ SamePage(m_tail, m_tail') /\ m_tail[2] < m_tail'[2]
  BY DEF Grows
<1>2. \A x : New(x)' <=> New(x)
  BY NewSame DEF Grows
<1>3. /\ Frame(w, v, {}, 0) /\ v.last = w.last + 1 /\ v.head = w.head /\ w.last > 0 /\ WrittenWord(v, w.last)'
      /\ w.at[w.last] = m_tail /\ w.last \in Nat
      /\ \A b \in Block : b # m_tail => m_next'[b] = m_next[b]
  BY GrowsTrail
<1>4. PagesHeld(v)'
  BY <1>1, <1>2, <1>3, PagesExtended DEF Grows, Around, headVars
<1>5. \A x \in Pages : EndBlock(FirstBlock(x)) \in Block /\ FirstBlock(x) \in Block /\ PageOf(FirstBlock(x)) = x
                       /\ EndBlock(FirstBlock(x)) # m_tail
  BY <1>1, BlockParts DEF EndBlock
<1>6. \A x \in Pages : EndClear(x) => EndClear(x)'
  BY <1>3, <1>5 DEF EndClear, Around, layers
<1>7. (m_tail[2] < EndSlot => EndClear(PageOf(m_tail)))'
  <2>1. PICK x \in Pages : x = PageOf(m_tail)
    BY <1>1, BlockParts
  <2>2. m_tail[2] \in Nat /\ m_tail'[2] \in 0 .. EndSlot /\ EndSlot \in Nat
    BY <1>1, BlockParts
  <2>3. m_tail[2] < EndSlot
    BY <2>2, <1>1
  <2>4. EndClear(x)'
    BY <2>1, <2>3, <1>0, <1>3, <1>6 DEF WordsTrail
  <2>5. PageOf(m_tail') = x
    BY <2>1, <1>1 DEF SamePage
  <2> QED
    BY <2>4, <2>5 DEF EndClear
<1>8. \A x \in Pages : New(x)' => m_next'[FirstBlock(x)] = Zero /\ EndClear(x)'
  <2> SUFFICES ASSUME NEW x \in Pages, New(x) PROVE m_next'[FirstBlock(x)] = Zero /\ EndClear(x)'
    BY <1>2
  <2>1. ~New(PageOf(m_tail))
    <3>1. m_tail # InvalidBlock /\ Shape(w)
      BY <1>1, BlockParts DEF Core
    <3> QED
      BY <3>1, TailPlaces
  <2>2. FirstBlock(x) # m_tail
    BY <2>1, <1>5
  <2> QED
    BY <2>2, <1>0, <1>3, <1>5, <1>6 DEF WordsTrail
<1>9. Apart({}) /\ ~Aside(p)
  BY DEF Apart, Grows, Inside, Aside
<1> QED
  BY <1>3, <1>4, <1>7, <1>8, <1>9 DEF ProducerFrame, Around, Grows

\* The control word of the new block.
LEMMA StoreControlFrame ==
    ASSUME NEW w, Core(w), NEW p \in Producers, NEW pc \in {"settle", "fill"}, StoreControl(p, pc),
           pc = "settle" => put = "spin", Around, LockHeldInside', NEW v, v = Extended(w, m_tail')
    PROVE  Grows(p, prod[p].flags) /\ ProducerFrame(w, v, {}, 0, p)
<1>1. /\ Moved(p) /\ AllocationOK(p)' /\ BaseTypeOK' /\ WordsOK'
      /\ PAt(p, "store") /\ prod'[p].pc = pc /\ m_tail \in Block
      /\ m_tail' = NewTail(m_tail, prod[p].size)
      /\ m_next'[m_tail'] = Zero
      /\ m_tail' \in Block /\ SamePage(m_tail, m_tail') /\ m_tail[2] < m_tail'[2]
      /\ m_next' = [m_next EXCEPT ![m_tail] = NextWord(m_tail', prod[p].flags)]
      /\ prod'[p].tail = m_tail /\ prod'[p].size = prod[p].size /\ prod'[p].flags = prod[p].flags
      /\ UNCHANGED <<pool, m_initial_page>>
  BY StoreControlFacts DEF Around, layers
<1>2. IF Putting(p)
      THEN /\ prod'[p].control = prod[p].control /\ prod'[p].next = prod[p].next
           /\ "dead" \in prod[p].flags /\ "busy" \notin prod[p].flags
      ELSE /\ prod'[p].control = m_tail /\ prod'[p].next = NextWord(m_tail', prod[p].flags)
           /\ "busy" \in prod[p].flags /\ "dead" \notin prod[p].flags
  BY StoreControlFacts DEF Around, layers
<1>3. Grows(p, prod[p].flags)
  BY <1>1, <1>2 DEF Grows, Inside, PAt, IsEnd, Zero
<1>4. /\ Frame(w, v, {}, 0) /\ v.last = w.last + 1 /\ v.head = w.head /\ w.last > 0 /\ w.last \in Written(v)
      /\ v.at[w.last] = m_tail /\ v.at[w.last + 1] = m_tail'
      /\ m_next'[m_tail] = NextWord(m_tail', prod[p].flags) /\ Continues(v, w.last)
      /\ \A b \in Block : b # m_tail => m_next'[b] = m_next[b]
      /\ \A i \in Written(w) : w.at[i] # m_tail
      /\ w.last \in Nat /\ w.head \in Nat
  BY <1>3, GrowsTrail
<1>5. PutterOK(v, p)'
  <2>1. CASE Putting(p)
    <3>1. PutterOK(w, p) /\ prod[p].control \in Block
      BY <2>1, ProducerKnown
    <3>2. PICK i \in Written(w) : /\ w.at[i] = prod[p].control /\ Continues(w, i)
                                  /\ m_next[prod[p].control] = prod[p].next
                                  /\ "busy" \in prod[p].next.flags /\ "dead" \notin prod[p].next.flags
      BY <2>1, <3>1 DEF PutterOK
    <3>3. /\ i \in Written(v) /\ v.at[i] = prod[p].control /\ Continues(v, i) /\ i < w.last /\ i \in Nat
          /\ m_next'[prod[p].control] = prod[p].next
      <4>1. i \in Written(v) /\ v.at[i] = w.at[i] /\ (Continues(v, i) <=> Continues(w, i)) /\ i < w.last /\ i \in Nat
        BY <3>2, <1>4, FramePlaces DEF Written
      <4> QED
        BY <4>1, <3>1, <3>2, <1>4
    <3>4. w.last \in i .. (v.last - 1) /\ IsDead(m_next'[m_tail])
      BY <3>3, <2>1, <1>2, <1>4 DEF IsDead, NextWord
    <3> QED
      BY <3>2, <3>3, <3>4, <2>1, <1>1, <1>2, <1>4 DEF PutterOK, Continues, Written
  <2>2. CASE ~Putting(p)
    <3>1. w.last \in w.last .. (v.last - 1)
      BY <1>4
    <3>2. prod'[p].next = NextWord(m_tail', prod[p].flags) /\ prod'[p].control = m_tail
          /\ "busy" \in prod'[p].next.flags /\ "dead" \notin prod'[p].next.flags /\ "dead" \notin prod'[p].flags
      BY <2>2, <1>1, <1>2 DEF NextWord
    <3> QED
      BY <3>1, <3>2, <1>1, <1>4 DEF PutterOK, Continues, Written
  <2> QED
    BY <2>1, <2>2
<1> QED
  BY <1>3, <1>5, GrowsFrame

\* The rest of the page becomes a dead block.
LEMMA SpinPadFrame ==
    ASSUME NEW w, Core(w), NEW p \in Producers, SpinPad(p), put = "spin", Around, LockHeldInside',
           NEW v, v = Extended(w, m_tail')
    PROVE  Grows(p, {"dead"}) /\ ProducerFrame(w, v, {}, 0, p)
<1>1. /\ Moved(p) /\ PAt(p, "try")' /\ prod'[p].control = prod[p].control /\ prod'[p].next = prod[p].next
  BY SpinPadFacts
<1>2. Grows(p, {"dead"})
  BY SpinPadFacts DEF Grows, Inside, PAt
<1>3. Frame(w, v, {}, 0)
  BY <1>2, GrowsTrail
<1>4. PutterOK(v, p)'
  <2>1. 0 \notin Written(w) /\ PutterOK(w, p)
    BY ProducerKnown, TrailFacts DEF Written, Core
  <2> QED
    BY <2>1, <1>1, <1>3, FramePutter DEF PAt
<1> QED
  BY <1>2, <1>4, GrowsFrame

\* A page that the queue does not have yet.
LEMMA NewPageFrame ==
    ASSUME NEW w, Core(w), NEW p \in Producers, NEW q \in Pages, Creates(p, q), Around, LockHeldInside'
    PROVE  ProducerFrame(w, w, {q}, 0, p)
<1>0. /\ Shape(w) /\ WordsTrail(w) /\ PutterOK(w, p) /\ PagesHeld(w) /\ TakersOK(w) /\ TypesTrail
      /\ TypeOK /\ cons \in [Consumers -> Consume]
  BY ProducerKnown DEF Core, Shape, TypeOK, HeadTypeOK
<1>1. /\ Moved(p) /\ AllocationOK(p)' /\ BaseTypeOK' /\ WordsOK' /\ PAt(p, "try")
      /\ prod'[p].pc = IF m_tail = InvalidBlock THEN "init_page" ELSE "link_page"
      /\ prod'[p].new_page = q
      /\ pool[q] # "queue" /\ pinners[q] = {} /\ pool' = [pool EXCEPT ![q] = "queue"]
      /\ m_next'[FirstBlock(q)] = Zero /\ EndClear(q)'
      /\ \A a \in Block : PageOf(a) # q => m_next'[a] = m_next[a]
      /\ prod'[p].control = prod[p].control /\ prod'[p].next = prod[p].next
      /\ UNCHANGED <<pinners, m_initial_page, m_tail>>
  BY NewPageFacts DEF Around, layers
<1>2. TypesTrail'
  BY <1>1, MovedTypes
<1>3. \A x : New(x)' <=> New(x) \/ x = q
  <2> SUFFICES ASSUME NEW x PROVE New(x)' <=> New(x) \/ x = q
    OBVIOUS
  <2>1. ASSUME New(x)' PROVE New(x) \/ x = q
    <3>1. PICK r \in Producers : prod'[r].pc \in {"link_page", "init_page"} /\ prod'[r].new_page = x
      BY <2>1 DEF New
    <3> QED
      BY <3>1, <1>1 DEF New, Moved
  <2>2. ASSUME New(x) PROVE New(x)'
    <3>1. PICK r \in Producers : prod[r].pc \in {"link_page", "init_page"} /\ prod[r].new_page = x
      BY <2>2 DEF New
    <3>2. r # p
      BY <3>1, <1>1 DEF PAt
    <3> QED
      BY <3>1, <3>2, <1>1 DEF New, Moved
  <2>3. New(q)'
    BY <1>1 DEF New
  <2> QED
    BY <2>1, <2>2, <2>3
<1>4. w.last \in Nat /\ w.head \in Nat /\ (\A i \in Nat : w.at[i] \in Block)
      /\ (w.last > 0 => m_tail = w.at[w.last] /\ m_tail \in Block /\ w.last \in Live(w))
  BY <1>0, TrailFacts DEF Live
<1>5. \A i \in Live(w) : PageOf(w.at[i]) # q
  <2> SUFFICES ASSUME NEW i \in Live(w) PROVE pool[PageOf(w.at[i])] = "queue"
    BY <1>1
  <2>1. w.at[i] \in Block
    BY <1>4 DEF Live
  <2>2. PageOf(w.at[i]) \in Pages
    BY <2>1, BlockParts
  <2> QED
    BY <2>2, <1>0 DEF PagesHeld, In
<1>6. Shape(w)' /\ Keeps(w, w, {q})
  BY <1>0, <1>1, <1>2, <1>3, <1>5, TrailKept DEF Around, headVars
<1>7. Frame(w, w, {q}, 0)
  <2>1. \A i \in 1 .. (w.last - 1) : w.at[i] \in Block
    BY <1>4
  <2> QED
    BY <2>1, <1>0, <1>1, <1>3, <1>4, <1>5, <1>6 DEF Frame, Change, Around
<1>8. PutterOK(w, p)'
  <2>1. 0 \notin Written(w)
    BY <1>0, TrailFacts DEF Written
  <2> QED
    BY <2>1, <1>0, <1>1, <1>7, FramePutter
<1>9. Apart({q})
  <2>1. ASSUME NEW c \in Consumers, At(c, "free_page") PROVE PageOf(cons[c].control) # q
    <3>1. Leaves(c) /\ cons[c].control \in Block
      <4>1. CASE consume = "multiple"
        <5>1. PICK i \in Index(w) : Placed(w, c, i) /\ ~Continues(w, i)
          BY <4>1, <2>1, <1>0 DEF TakersOK, ManyPlaced, At
        <5>2. i \in Nat
          BY <1>4 DEF Index
        <5> QED
          BY <5>1, <5>2, <2>1, <1>4 DEF Placed, Continues, Leaves, At
      <4>2. CASE consume = "single"
        <5>1. Placed(w, c, w.head - 1) /\ ~Continues(w, w.head - 1)
          BY <4>2, <2>1, <1>0 DEF TakersOK, OnePlaced, At
        <5>2. w.head - 1 \in Nat
          BY <5>1, <1>4 DEF Placed, Valid, Index
        <5> QED
          BY <5>1, <5>2, <2>1, <1>4 DEF Placed, Continues, Leaves, At
      <4> QED
        BY <4>1, <4>2, <1>0 DEF TypesTrail
    <3>2. PageOf(cons[c].control) \in Pages
      BY <3>1, BlockParts
    <3>3. pool[PageOf(cons[c].control)] = "queue"
      BY <3>1, <3>2, <1>0 DEF PagesHeld
    <3> QED
      BY <3>3, <1>1
  <2>2. ASSUME NEW c \in Consumers, consume = "multiple", cons[c].control # NoBlock
        PROVE  PageOf(cons[c].control) # q
    BY <2>2, <1>0, <1>1 DEF TypesTrail, ControlPinned
  <2> QED
    BY <2>1, <2>2 DEF Apart
<1>10. PagesHeld(w)'
  <2>1. UNCHANGED cons
    BY DEF Around, headVars
  <2>2. \A c \in Consumers : Leaves(c)' <=> Leaves(c)
    BY <2>1, LeavesSame
  <2>3. \A x \in Pages : pool'[x] = "queue" <=> pool[x] = "queue" \/ x = q
    BY <1>0, <1>1 DEF TypeOK, BaseTypeOK
  <2>4. \A x \in Pages : pool'[x] = "queue" <=>
           \/ \E i \in Live(w) : In(w, i, x)
           \/ New(x)'
           \/ \E c \in Consumers : Leaves(c)' /\ PageOf(cons'[c].control) = x
    BY <2>1, <2>2, <2>3, <1>0, <1>3 DEF PagesHeld
  <2>5. \A c, d \in Consumers : Leaves(c)' /\ Leaves(d)' /\ c # d => ~SamePage(cons'[c].control, cons'[d].control)
    BY <2>1, <2>2, <1>0 DEF PagesHeld
  <2> QED
    BY <2>4, <2>5 DEF PagesHeld
<1>11. Inside(p) /\ ~Aside(p)
  BY <1>1 DEF Inside, Aside, PAt
<1>12. \A x \in Pages : x # q /\ EndClear(x) => EndClear(x)'
  BY <1>1, BlockParts DEF EndClear, EndBlock, FirstBlock, PageOf, Around, layers
<1>13. w.last > 0 => IsEnd(m_next'[m_tail']) /\ (m_tail[2] < EndSlot => EndClear(PageOf(m_tail)))'
  <2> SUFFICES ASSUME w.last > 0
               PROVE  IsEnd(m_next'[m_tail']) /\ (m_tail[2] < EndSlot => EndClear(PageOf(m_tail)))'
    OBVIOUS
  <2>1. PICK x \in Pages : x = PageOf(m_tail)
    BY <1>4, BlockParts
  <2>2. x # q
    BY <2>1, <1>4, <1>5
  <2>3. m_tail[2] < EndSlot => EndClear(x)'
    BY <2>1, <2>2, <1>0, <1>12 DEF WordsTrail
  <2>4. PageOf(m_tail') = x /\ m_tail'[2] = m_tail[2]
    BY <2>1, <1>1
  <2>5. (m_tail[2] < EndSlot => EndClear(PageOf(m_tail)))'
    BY <2>3, <2>4 DEF EndClear
  <2>6. m_next'[m_tail'] = m_next[m_tail]
    BY <2>1, <2>2, <1>1, <1>4
  <2> QED
    BY <2>5, <2>6, <1>0 DEF WordsTrail
<1>14. \A x \in Pages : New(x)' => m_next'[FirstBlock(x)] = Zero /\ EndClear(x)'
  <2> SUFFICES ASSUME NEW x \in Pages, New(x), x # q PROVE m_next'[FirstBlock(x)] = Zero /\ EndClear(x)'
    BY <1>1, <1>3
  <2>1. FirstBlock(x) \in Block /\ PageOf(FirstBlock(x)) # q
    BY BlockParts
  <2>2. m_next'[FirstBlock(x)] = m_next[FirstBlock(x)]
    BY <2>1, <1>1
  <2> QED
    BY <2>2, <1>0, <1>12 DEF WordsTrail
<1> QED
  BY <1>1, <1>4, <1>7, <1>8, <1>9, <1>10, <1>11, <1>13, <1>14 DEF ProducerFrame, Around

\* The tail goes to the new page.
Enters(p, q) ==
    /\ prod[p].pc \in {"link_page", "init_page"} /\ q = prod[p].new_page /\ EnterPage(p)
    /\ BaseTypeOK' /\ WordsOK' /\ UNCHANGED pool
    /\ \/ /\ m_tail \in Block /\ m_next' = [m_next EXCEPT ![m_tail] = NextWord(FirstBlock(q), {"dead"})]
          /\ m_initial_page' = m_initial_page
       \/ m_tail = InvalidBlock /\ m_next' = m_next /\ m_initial_page' = q

\* It is the only page that is new.
LEMMA OneNew ==
    ASSUME NEW w, Core(w), NEW p \in Producers, Moved(p), PAt(p, "try")',
           prod[p].pc \in {"link_page", "init_page"}
    PROVE  \A x : New(x)' => FALSE
<1> SUFFICES ASSUME NEW r \in Producers, prod'[r].pc \in {"link_page", "init_page"} PROVE FALSE
  BY DEF New
<1>1. r # p /\ prod[r].pc \in {"link_page", "init_page"}
  BY DEF Moved, PAt
<1>2. CASE put = "spin"
  BY <1>1, <1>2 DEF Core, AloneInside, LockHeldInside, Inside
<1>3. CASE put = "single"
  BY <1>1, <1>3 DEF Core, AloneInside
<1> QED
  BY <1>2, <1>3 DEF Core, Shape, TypesTrail

\* The trail is a block longer, the first of a page.
LEMMA EntersTrail ==
    ASSUME NEW w, Core(w), NEW p \in Producers, NEW q, Enters(p, q), Around, NEW v, v = Extended(w, FirstBlock(q))
    PROVE  /\ Frame(w, v, {}, 0) /\ v.last = w.last + 1 /\ v.head = w.head
           /\ v.at[w.last + 1] = FirstBlock(q) /\ w.last \in Nat /\ w.head \in Nat /\ w.head > 0
           /\ w.last > 0 => /\ v.at[w.last] = m_tail /\ w.at[w.last] = m_tail /\ WrittenWord(v, w.last)'
                            /\ w.last \in Written(v) /\ ~Continues(v, w.last) /\ m_tail \in Block
                            /\ m_next'[m_tail] = NextWord(FirstBlock(q), {"dead"})
           /\ w.last = 0 => w.head = 1
           /\ \A b \in Block : b # m_tail => m_next'[b] = m_next[b]
           /\ \A i \in Written(w) : w.at[i] # m_tail
           /\ q \in Pages /\ New(q) /\ PageOf(m_tail) # q /\ m_tail' = FirstBlock(q)
           /\ w \in Trail
<1>0. Shape(w) /\ WordsTrail(w) /\ m_next \in [Block -> NextPtr] /\ w \in Trail
  BY DEF Core, Shape, TypesTrail, TypeOK, BaseTypeOK
<1>1. Moved(p) /\ PAt(p, "try")' /\ q \in Pages /\ New(q) /\ m_tail' = FirstBlock(q) /\ m_tail' \in Block
  BY EnterPageMoved DEF Enters
<1>2. \A x : ~New(x)'
  BY <1>1, OneNew DEF Enters
<1>3. \A x \in Pages \ {q} : New(x)' <=> New(x)
  <2> SUFFICES ASSUME NEW x \in Pages, x # q, New(x) PROVE FALSE
    BY <1>2
  <2>1. PICK r \in Producers : prod[r].pc \in {"link_page", "init_page"} /\ prod[r].new_page = x
    BY DEF New
  <2>2. r # p
    BY <2>1 DEF Enters
  <2>3. prod'[r] = prod[r]
    BY <2>2, <1>1 DEF Moved
  <2> QED
    BY <2>1, <2>3, <1>2 DEF New
<1>4. TypesTrail'
  BY <1>1, MovedTypes DEF Enters
<1>5. /\ w.last \in Nat /\ w.head \in Nat /\ w.head > 0 /\ (\A i \in Nat : w.at[i] \in Block)
      /\ (w.last = 0 => w.head = 1 /\ m_tail = InvalidBlock)
      /\ (m_tail # InvalidBlock => w.last > 0)
      /\ (w.last > 0 => w.head <= w.last /\ m_tail = w.at[w.last] /\ m_tail \in Block /\ m_tail # InvalidBlock)
      /\ (\A i \in Live(w) : Valid(w, i))
  BY <1>0, TrailFacts, BlockParts
<1>6. Shape(v)' /\ Keeps(w, v, {})
  <2>1. m_initial_page' = IF w.last = 0 THEN q ELSE m_initial_page
    BY <1>5, BlockParts DEF Enters
  <2> QED
    BY <2>1, <1>0, <1>1, <1>2, <1>3, <1>4, TrailEnters DEF Around, headVars
<1>7. /\ v.last = w.last + 1 /\ v.head = w.head /\ v.at[v.last] = FirstBlock(q)
      /\ \A i \in Index(w) : v.at[i] = w.at[i]
  BY <1>0, <1>1, ExtendedFacts
<1>8. \A b \in Block : b # m_tail => m_next'[b] = m_next[b]
  BY <1>0, BlockParts DEF Enters
<1>9. w.last > 0 => \A i \in 1 .. (w.last - 1) : Valid(w, i) => w.at[i] # m_tail
  BY <1>0, <1>5, TailPlaces
<1>10. \A i \in Written(w) : w.at[i] # m_tail
  BY <1>5, <1>9 DEF Written, Live
<1>11. PageOf(m_tail) # q
  <2>1. CASE m_tail = InvalidBlock
    BY <2>1, <1>1, BaseAssumption DEF PageOf, InvalidBlock
  <2>2. CASE m_tail # InvalidBlock
    BY <2>2, <1>0, <1>1, TailPlaces
  <2> QED
    BY <2>1, <2>2
<1>12. w.last > 0 => /\ v.at[w.last] = m_tail /\ w.at[w.last] = m_tail
                     /\ m_next'[m_tail] = NextWord(FirstBlock(q), {"dead"})
                     /\ ~Continues(v, w.last) /\ w.last \in Written(v)
  <2> SUFFICES ASSUME w.last > 0 PROVE /\ v.at[w.last] = m_tail /\ w.at[w.last] = m_tail
                                       /\ m_next'[m_tail] = NextWord(FirstBlock(q), {"dead"})
                                       /\ ~Continues(v, w.last) /\ w.last \in Written(v)
    OBVIOUS
  <2>1. v.at[w.last] = m_tail /\ w.at[w.last] = m_tail /\ w.last \in Written(v)
    BY <1>5, <1>7 DEF Index, Written
  <2>2. m_next'[m_tail] = NextWord(FirstBlock(q), {"dead"})
    BY <1>0, <1>5 DEF Enters
  <2> QED
    BY <2>1, <2>2, <1>1, <1>7, <1>11, BlockParts DEF Continues, SamePage
<1>13. w.last > 0 => WrittenWord(v, w.last)'
  BY <1>7, <1>12 DEF WrittenWord, NextWord
<1>14. Frame(w, v, {}, 0)
  <2>1. \A i \in 1 .. (w.last - 1) : Valid(w, i) => m_next'[w.at[i]] = m_next[w.at[i]]
    <3> SUFFICES ASSUME NEW i \in 1 .. (w.last - 1), Valid(w, i) PROVE m_next'[w.at[i]] = m_next[w.at[i]]
      OBVIOUS
    <3>1. w.last > 0 /\ w.at[i] \in Block
      BY <1>5
    <3> QED
      BY <3>1, <1>8, <1>9
  <2> QED
    BY <2>1, <1>0, <1>6, <1>7, <1>5 DEF Frame, Change, Around
<1> QED
  BY <1>0, <1>1, <1>5, <1>7, <1>8, <1>10, <1>11, <1>12, <1>13, <1>14

\* The frame of such a step.
LEMMA EntersFrame ==
    ASSUME NEW w, Core(w), NEW p \in Producers, NEW q, Enters(p, q), Around, LockHeldInside',
           NEW v, v = Extended(w, FirstBlock(q))
    PROVE  ProducerFrame(w, v, {}, 0, p)
<1>0. WordsTrail(w) /\ PutterOK(w, p) /\ PagesHeld(w)
  BY ProducerKnown DEF Core
<1>1. /\ Moved(p) /\ AllocationOK(p)' /\ PAt(p, "try")' /\ m_tail' = FirstBlock(q)
      /\ m_next[m_tail'] = Zero /\ EndClear(q) /\ m_tail' \in Block
      /\ prod'[p].control = prod[p].control /\ prod'[p].next = prod[p].next
  BY EnterPageMoved DEF Enters
<1>2. \A x : ~New(x)'
  BY <1>1, OneNew DEF Enters
<1>3. /\ Frame(w, v, {}, 0) /\ v.last = w.last + 1 /\ v.head = w.head
      /\ v.at[w.last + 1] = FirstBlock(q) /\ w.last \in Nat /\ w.head \in Nat /\ w.head > 0
      /\ (w.last > 0 => WrittenWord(v, w.last)' /\ w.at[w.last] = m_tail)
      /\ (w.last = 0 => w.head = 1)
      /\ \A b \in Block : b # m_tail => m_next'[b] = m_next[b]
  BY EntersTrail
<1>4. q \in Pages /\ New(q) /\ PageOf(m_tail) # q /\ w \in Trail
  BY EntersTrail
<1>5. PutterOK(v, p)'
  <2>1. 0 \notin Written(w)
    BY <1>3 DEF Written
  <2> QED
    BY <2>1, <1>0, <1>1, <1>3, FramePutter DEF PAt
<1>6. \A x \in Pages : New(x) => x = q
  <2> SUFFICES ASSUME NEW x \in Pages, x # q, New(x) PROVE FALSE
    OBVIOUS
  <2>1. PICK r \in Producers : prod[r].pc \in {"link_page", "init_page"} /\ prod[r].new_page = x
    BY DEF New
  <2>2. r # p
    BY <2>1 DEF Enters
  <2>3. prod'[r] = prod[r]
    BY <2>2, <1>1 DEF Moved
  <2> QED
    BY <2>1, <2>3, <1>2 DEF New
<1>7. \A x \in Pages : (\E i \in Live(v) : In(v, i, x)) <=> (\E i \in Live(w) : In(w, i, x)) \/ x = q
  <2> TAKE x \in Pages
  <2>0. PageOf(FirstBlock(q)) = q /\ (w.last > 0 => w.head <= w.last)
    BY <1>4, BlockParts, TrailFacts DEF Core
  <2>1. ASSUME NEW i \in Live(v), In(v, i, x), x # q PROVE \E j \in Live(w) : In(w, j, x)
    <3>1. i # w.last + 1
      BY <2>0, <2>1, <1>3 DEF In
    <3>2. i \in Live(w) /\ i \in Index(w)
      BY <2>1, <3>1, <1>3 DEF Live, Index
    <3>3. In(w, i, x)
      BY <3>2, <2>1, <1>3, FramePlaces DEF In
    <3> QED
      BY <3>2, <3>3
  <2>2. ASSUME NEW i \in Live(w), In(w, i, x) PROVE \E j \in Live(v) : In(v, j, x)
    <3>1. i \in Live(v) /\ i \in Index(w)
      BY <2>2, <1>3 DEF Live, Index
    <3>2. In(v, i, x)
      BY <3>1, <2>2, <1>3, FramePlaces DEF In
    <3> QED
      BY <3>1, <3>2
  <2>3. x = q => \E j \in Live(v) : In(v, j, x)
    <3>1. w.last + 1 \in Live(v)
      BY <2>0, <1>3 DEF Live
    <3> QED
      BY <3>1, <2>0, <1>3 DEF In
  <2> QED
    BY <2>1, <2>2, <2>3
<1>8. PagesHeld(v)'
  <2>1. UNCHANGED <<cons, pool>>
    BY DEF Around, headVars, Enters
  <2>2. \A c \in Consumers : Leaves(c)' <=> Leaves(c)
    BY <2>1, LeavesSame
  <2>3. \A x \in Pages : pool'[x] = "queue" <=>
           \/ (\E i \in Live(v) : In(v, i, x))'
           \/ New(x)'
           \/ \E c \in Consumers : Leaves(c)' /\ PageOf(cons'[c].control) = x
    <3> SUFFICES ASSUME NEW x \in Pages
                 PROVE pool[x] = "queue" <=>
                         \/ \E i \in Live(v) : In(v, i, x)
                         \/ \E c \in Consumers : Leaves(c) /\ PageOf(cons[c].control) = x
      BY <2>1, <2>2, <1>2
    <3>1. pool[x] = "queue" <=>
             \/ \E i \in Live(w) : In(w, i, x)
             \/ New(x)
             \/ \E c \in Consumers : Leaves(c) /\ PageOf(cons[c].control) = x
      BY <1>0 DEF PagesHeld
    <3>2. New(x) <=> x = q
      BY <1>4, <1>6
    <3>3. (\E i \in Live(v) : In(v, i, x)) <=> (\E i \in Live(w) : In(w, i, x)) \/ x = q
      BY <1>7
    <3> QED
      BY <3>1, <3>2, <3>3
  <2>4. \A c, d \in Consumers : Leaves(c)' /\ Leaves(d)' /\ c # d => ~SamePage(cons'[c].control, cons'[d].control)
    BY <2>1, <2>2, <1>0 DEF PagesHeld
  <2> QED
    BY <2>3, <2>4 DEF PagesHeld
<1>9. Apart({}) /\ Inside(p) /\ ~Aside(p)
  BY DEF Apart, Inside, Aside, Enters
<1>10. m_next'[m_tail'] = m_next[m_tail'] /\ EndClear(q)'
  <2>1. m_tail' # m_tail /\ EndBlock(FirstBlock(q)) # m_tail /\ EndBlock(FirstBlock(q)) \in Block
    BY <1>1, <1>4, BlockParts DEF EndBlock, PageOf
  <2> QED
    BY <2>1, <1>1, <1>3 DEF EndClear, Around, layers
<1>11. IsEnd(m_next'[m_tail']) /\ (m_tail[2] < EndSlot => EndClear(PageOf(m_tail)))'
  <2>1. PageOf(m_tail') = q
    BY <1>1, <1>4, BlockParts
  <2>2. (m_tail[2] < EndSlot => EndClear(PageOf(m_tail)))'
    BY <2>1, <1>10 DEF EndClear
  <2> QED
    BY <2>2, <1>1, <1>10 DEF IsEnd, Zero
<1>12. m_initial_page' = m_initial_page \/ m_initial_page = NoPage
  <2>1. CASE m_tail \in Block
    BY <2>1, BlockParts DEF Enters
  <2>2. CASE m_tail = InvalidBlock
    <3>1. w.last = 0
      BY <2>2, TrailFacts, BlockParts DEF Core
    <3> QED
      BY <3>1 DEF Core, Shape, EndsOK
  <2> QED
    BY <2>1, <2>2 DEF Enters
<1> QED
  BY <1>1, <1>2, <1>3, <1>5, <1>8, <1>9, <1>11, <1>12 DEF ProducerFrame, Around, Enters

\* The two ways.
LEMMA LinkEnters ==
    ASSUME NEW w, Core(w), NEW p \in Producers, LinkNextPage(p) \/ SetInitialPage(p)
    PROVE  Enters(p, prod[p].new_page)
<1>1. CASE LinkNextPage(p)
  <2>1. /\ BaseTypeOK' /\ WordsOK' /\ PAt(p, "link_page") /\ EnterPage(p) /\ m_tail \in Block
        /\ m_next' = [m_next EXCEPT ![m_tail] = NextWord(FirstBlock(prod[p].new_page), {"dead"})]
        /\ UNCHANGED <<pool, m_initial_page>>
    BY <1>1, LinkFacts
  <2> QED
    BY <2>1 DEF Enters, PAt
<1>2. CASE SetInitialPage(p)
  <2>1. /\ BaseTypeOK' /\ WordsOK' /\ PAt(p, "init_page") /\ EnterPage(p) /\ m_tail = InvalidBlock
        /\ m_initial_page' = prod[p].new_page /\ UNCHANGED <<m_next, pool>>
    BY <1>2, InitialFacts
  <2> QED
    BY <2>1 DEF Enters, PAt
<1> QED
  BY <1>1, <1>2

\* The steps of a producer, under either layer.
Puts(p) ==
    \/ Asking(p) /\ (put = "single" => OnlyPut(p))
    \/ Going(p) \/ Fill(p)
    \/ CommitPut(p) \/ CancelPut(p)
    \/ NullTerminate(p)
    \/ StoreControl(p, "fill")
    \/ StoreControl(p, "settle") /\ put = "spin"
    \/ SpinPad(p) /\ put = "spin"
    \/ \E q \in Pages : Creates(p, q)
    \/ LinkNextPage(p) \/ SetInitialPage(p)

\* A step of the put layer is one of these.
LEMMA PutCases ==
    ASSUME PutNext, put \in {"single", "spin"}
    PROVE  \E p \in Producers : Puts(p)
<1>1. PICK p \in Producers : \/ put = "single" /\ SinglePutNext(p) /\ UNCHANGED m_mutex
                             \/ put = "spin" /\ SpinPutNext(p)
  BY DEF PutNext
<1>2. CASE put = "single" /\ SinglePutNext(p)
  <2>1. CASE StartSinglePut(p)
    BY <2>1 DEF StartSinglePut, Puts, Asking
  <2>2. CASE SinglePutStep(p)
    <3>1. CASE SingleOverflow(p)
      BY <3>1, <1>2 DEF SingleOverflow, Puts, Creates, Going
    <3>2. CASE ~SingleOverflow(p)
      BY <3>2, <2>2 DEF SinglePutStep, Puts, Going
    <3> QED
      BY <3>1, <3>2
  <2> QED
    BY <2>1, <2>2, <1>2 DEF SinglePutNext, Puts
<1>3. CASE put = "spin" /\ SpinPutNext(p)
  <2>1. CASE SpinPutStep(p)
    <3>1. CASE SpinCreatePage(p)
      BY <3>1, <1>3 DEF SpinCreatePage, Puts, Creates, Going
    <3>2. CASE ~SpinCreatePage(p)
      BY <3>2, <2>1, <1>3 DEF SpinPutStep, Puts, Going, GiveUpAndUnlock, SpinConstruct
    <3> QED
      BY <3>1, <3>2
  <2>2. CASE ~SpinPutStep(p)
    BY <2>2, <1>3 DEF SpinPutNext, Puts, Asking, SpinCommitPut, SpinCancelPut
  <2> QED
    BY <2>1, <2>2
<1> QED
  BY <1>1, <1>2, <1>3

\* No page is pinned or unpinned.
LEMMA PutsAround ==
    ASSUME NEW w, Core(w), NEW p \in Producers, Puts(p), UNCHANGED <<headVars, layers, alive>>
    PROVE  Around
<1> SUFFICES UNCHANGED <<pinners, m_rest>>
  BY DEF Around
<1>1. CASE Asking(p)
  BY <1>1, AskingQuiet DEF Quiet
<1>2. CASE Going(p)
  BY <1>2, GoingQuiet DEF Quiet
<1>3. CASE Fill(p) \/ CommitPut(p) \/ CancelPut(p)
  BY <1>3, FillFacts, EndPutFacts
<1>4. CASE NullTerminate(p)
  BY <1>4, NullTerminateFacts
<1>5. CASE StoreControl(p, "fill") \/ StoreControl(p, "settle") \/ LinkNextPage(p) \/ SetInitialPage(p)
  BY <1>5 DEF StoreControl, LinkNextPage, SetInitialPage
<1>6. CASE SpinPad(p) /\ put = "spin"
  BY <1>6, SpinPadFacts
<1>7. CASE \E q \in Pages : Creates(p, q)
  BY <1>7 DEF Creates, NewPage
<1> QED
  BY <1>1, <1>2, <1>3, <1>4, <1>5, <1>6, <1>7 DEF Puts

\* A step of a producer keeps the order of the queue.
LEMMA PutsFrame ==
    ASSUME NEW w, Core(w), NEW p \in Producers, Puts(p), UNCHANGED <<headVars, layers, alive>>, LockHeldInside'
    PROVE  \E v, Z, k : ProducerFrame(w, v, Z, k, p)
<1>0. Around
  BY PutsAround
<1>1. CASE Asking(p) /\ (put = "single" => OnlyPut(p))
  BY <1>0, <1>1, AskingFrame
<1>2. CASE Going(p)
  BY <1>0, <1>2, GoingFrame
<1>3. CASE Fill(p)
  BY <1>0, <1>3, FillFrame
<1>4. CASE CommitPut(p) \/ CancelPut(p)
  BY <1>0, <1>4, EndPutFrame
<1>5. CASE NullTerminate(p)
  BY <1>0, <1>5, NullTerminateFrame
<1>6. CASE StoreControl(p, "fill")
  BY <1>0, <1>6, StoreControlFrame
<1>7. CASE StoreControl(p, "settle") /\ put = "spin"
  BY <1>0, <1>7, StoreControlFrame
<1>8. CASE SpinPad(p) /\ put = "spin"
  BY <1>0, <1>8, SpinPadFrame
<1>9. CASE \E q \in Pages : Creates(p, q)
  BY <1>0, <1>9, NewPageFrame
<1>10. CASE LinkNextPage(p) \/ SetInitialPage(p)
  <2>1. Enters(p, prod[p].new_page)
    BY <1>10, LinkEnters
  <2> QED
    BY <2>1, <1>0, EntersFrame
<1> QED
  BY <1>1, <1>2, <1>3, <1>4, <1>5, <1>6, <1>7, <1>8, <1>9, <1>10 DEF Puts

\* Only consumer c moves.
ConsumerMoved(c) ==
    /\ cons' \in [Consumers -> Consume]
    /\ \A d \in Consumers \ {c} : cons'[d] = cons[d]

\* A consumer may take an element or give it back, or zero the end of a page.
Writes(w, k, c) ==
    \/ k = 0 /\ m_next' = m_next
    \/ /\ k \in Written(w) /\ Continues(w, k)
       /\ \E n : m_next' = [m_next EXCEPT ![w.at[k]] = n]
       /\ "busy" \notin m_next[w.at[k]].flags \/ (Takes(c) /\ cons[c].control = w.at[k])
    \/ k \in 1 .. (w.head - 1) /\ m_next' = [m_next EXCEPT ![w.at[k]] = Zero]

\* What is shown of a step of a consumer.
ConsumerFrame(w, v, k, c) ==
    /\ Frame(w, v, {}, k) /\ ConsumerMoved(c) /\ v.last = w.last
    /\ UNCHANGED <<tailVars, m_mutex, content, m_initial_page>>
    /\ Writes(w, k, c)
    /\ consume = "single" => OnlyConsume(c)
    /\ TakerOK(v, c)'
    /\ consume = "multiple" => ManyPlaced(v, c)'
    /\ consume = "single" => OnePlaced(v, c)'
    /\ Takes(c)' => /\ k \in Written(w) /\ cons'[c].control = w.at[k]
                    /\ "busy" \notin m_next[w.at[k]].flags
    /\ PagesHeld(v)' /\ PinsHeld'

\* Who has the block that is written.
LEMMA WriterAlone ==
    ASSUME NEW w, Core(w), NEW v, NEW k, NEW c \in Consumers, ConsumerFrame(w, v, k, c)
    PROVE  /\ k \in Written(w) => \A p \in Producers : Putting(p) => prod[p].control # w.at[k]
           /\ k \in Written(w) => \A d \in Consumers \ {c} : Takes(d) => cons[d].control # w.at[k]
           /\ \A x : New(x)' <=> New(x)
<1>0. Shape(w) /\ PuttersOK(w) /\ TakersOK(w) /\ Writes(w, k, c) /\ Frame(w, v, {}, k)
  BY DEF Core, ConsumerFrame
<1>1. \A x : New(x)' <=> New(x)
  BY DEF ConsumerFrame, New, tailVars
<1>2. ASSUME k \in Written(w)
      PROVE  "busy" \notin m_next[w.at[k]].flags \/ (Takes(c) /\ cons[c].control = w.at[k])
  <2>1. k # 0 /\ ~(k \in 1 .. (w.head - 1))
    BY <1>0, <1>2, FramePlaces DEF Written
  <2> QED
    BY <2>1, <1>0 DEF Writes
<1>3. ASSUME k \in Written(w), NEW p \in Producers, Putting(p) PROVE prod[p].control # w.at[k]
  BY <1>0, <1>2, <1>3 DEF PuttersOK, PutterOK, TakersOK
<1>4. ASSUME k \in Written(w), NEW d \in Consumers \ {c}, Takes(d) PROVE cons[d].control # w.at[k]
  <2>1. CASE Takes(c) /\ cons[c].control = w.at[k]
    BY <2>1, <1>0, <1>4 DEF TakersOK
  <2>2. CASE "busy" \notin m_next[w.at[k]].flags
    <3>1. m_next[cons[d].control] = TakenWord(d)
      BY <1>0, <1>4 DEF TakersOK, TakerOK
    <3>2. "busy" \in m_next[cons[d].control].flags
      BY <3>1 DEF TakenWord, NextWord
    <3> QED
      BY <3>2, <2>2
  <2> QED
    BY <2>1, <2>2, <1>2, <1>4
<1> QED
  BY <1>1, <1>3, <1>4

\* The tail, the ends of pages and the new pages.
LEMMA ConsumerInner ==
    ASSUME NEW w, Core(w), NEW v, NEW k, NEW c \in Consumers, ConsumerFrame(w, v, k, c)
    PROVE  /\ w.last > 0 => IsEnd(m_next'[m_tail'])
           /\ w.last > 0 => (m_tail[2] < EndSlot => EndClear(PageOf(m_tail)))'
           /\ \A x \in Pages : New(x)' => m_next'[FirstBlock(x)] = Zero /\ EndClear(x)'
<1>0. /\ WordsTrail(w) /\ Shape(w) /\ m_next \in [Block -> NextPtr] /\ Frame(w, v, {}, k)
      /\ m_tail' = m_tail /\ put' = put /\ Writes(w, k, c)
  BY DEF Core, Shape, TypesTrail, TypeOK, BaseTypeOK, ConsumerFrame, tailVars, Frame, layers
<1>1. \A x : New(x)' <=> New(x)
  BY WriterAlone
<1>2. CASE k \in Written(w) /\ Continues(w, k) /\ \E n : m_next' = [m_next EXCEPT ![w.at[k]] = n]
  <2>1. PICK n : m_next' = [m_next EXCEPT ![w.at[k]] = n]
    BY <1>2
  <2>2. InnerWords(w, k, n)
    BY <2>1, <1>0, <1>1, <1>2, InnerApart
  <2> QED
    BY <2>2 DEF InnerWords
<1>3. CASE \A b \in Block : m_next'[b] = m_next[b] \/ m_next'[b] = Zero
  <2>1. IsEnd(Zero) /\ w.last \in Nat
    BY <1>0, TrailFacts DEF IsEnd, Zero
  <2>2. \A x \in Pages : EndClear(x) => EndClear(x)'
    BY <2>1, <1>0, <1>3, BlockParts DEF EndClear
  <2>3. w.last > 0 => m_tail \in Block
    BY <1>0, TrailFacts
  <2>4. w.last > 0 => IsEnd(m_next'[m_tail'])
    BY <2>1, <2>3, <1>0, <1>3 DEF WordsTrail
  <2>5. w.last > 0 => (m_tail[2] < EndSlot => EndClear(PageOf(m_tail)))'
    <3> SUFFICES ASSUME w.last > 0 PROVE (m_tail[2] < EndSlot => EndClear(PageOf(m_tail)))'
      OBVIOUS
    <3>1. PICK x \in Pages : x = PageOf(m_tail)
      BY <2>3, BlockParts
    <3>2. m_tail[2] < EndSlot => EndClear(x)'
      BY <3>1, <2>2, <1>0 DEF WordsTrail
    <3>3. PageOf(m_tail') = x /\ m_tail'[2] = m_tail[2]
      BY <3>1, <1>0
    <3> QED
      BY <3>2, <3>3 DEF EndClear
  <2>6. \A x \in Pages : New(x)' => m_next'[FirstBlock(x)] = Zero /\ EndClear(x)'
    <3> SUFFICES ASSUME NEW x \in Pages, New(x) PROVE m_next'[FirstBlock(x)] = Zero /\ EndClear(x)'
      BY <1>1
    <3>1. FirstBlock(x) \in Block
      BY BlockParts
    <3> QED
      BY <3>1, <2>2, <1>0, <1>3 DEF WordsTrail
  <2> QED
    BY <2>4, <2>5, <2>6
<1> QED
  BY <1>0, <1>2, <1>3 DEF Writes

\* From the frame of a step of a consumer: the words of the trail,
LEMMA ConsumerWords ==
    ASSUME NEW w, Core(w), NEW v, NEW k, NEW c \in Consumers, ConsumerFrame(w, v, k, c)
    PROVE  WordsTrail(v)'
<1>0. WordsTrail(w) /\ Frame(w, v, {}, k) /\ consume' = consume /\ v.last = w.last
  BY DEF Core, ConsumerFrame, Frame, layers
<1>1. \A i \in Written(v) : i \in Written(w)
  BY <1>0, FramePlaces DEF Written, Frame
<1>2. \A i \in Written(v) : WrittenWord(v, i)'
  BY <1>0, <1>1, FrameWritten
<1>3. consume = "multiple" => \A i \in 1 .. (v.head - 1) : Valid(v, i)' => PassedWord(v, i)'
  BY <1>0, FramePassed
<1> QED
  BY <1>0, <1>2, <1>3, ConsumerInner DEF WordsTrail

\* the puts,
LEMMA ConsumerPutters ==
    ASSUME NEW w, Core(w), NEW v, NEW k, NEW c \in Consumers, ConsumerFrame(w, v, k, c)
    PROVE  PuttersOK(v)'
<1>0. /\ PuttersOK(w) /\ Shape(w) /\ Frame(w, v, {}, k) /\ put' = put /\ UNCHANGED tailVars
      /\ m_next \in [Block -> NextPtr] /\ Writes(w, k, c)
  BY DEF Core, ConsumerFrame, Frame, layers, Shape, TypesTrail, TypeOK, BaseTypeOK
<1>1. \A p \in Producers : AllocationOK(p)'
  <2> SUFFICES ASSUME NEW p \in Producers PROVE AllocationOK(p)'
    OBVIOUS
  <2>1. AllocationOK(p) /\ prod' = prod /\ m_tail' = m_tail
    BY <1>0 DEF PuttersOK, tailVars
  <2>2. ReservedEnd(p)' = ReservedEnd(p)
    BY <2>1 DEF ReservedEnd, PAt
  <2>3. PAt(p, "store") => m_next'[ReservedEnd(p)] = Zero
    <3> SUFFICES ASSUME PAt(p, "store") PROVE m_next'[ReservedEnd(p)] = Zero
      OBVIOUS
    <3>1. ReservedEnd(p) \in Block /\ SamePage(m_tail, ReservedEnd(p)) /\ m_tail[2] < ReservedEnd(p)[2]
          /\ m_tail \in Block
      BY <2>1, ProducerKnown DEF AllocationOK, PAt
    <3>2. m_next[ReservedEnd(p)] = Zero
      BY <2>1 DEF AllocationOK, PAt
    <3>3. \A i \in Index(w) : Valid(w, i) => w.at[i] # ReservedEnd(p)
      <4>1. m_tail # InvalidBlock
        BY <3>1, BlockParts
      <4> QED
        BY <4>1, <3>1, <1>0, TailPlaces
    <3>4. k \in Written(w) => w.at[k] # ReservedEnd(p)
      BY <3>3, <1>0, FramePlaces
    <3> QED
      BY <3>1, <3>2, <3>4, <1>0 DEF Writes
  <2> QED
    BY <2>1, <2>2, <2>3, <1>0 DEF AllocationOK, PAt, Putting
<1>2. \A p \in Producers : PutterOK(v, p)'
  <2> SUFFICES ASSUME NEW p \in Producers PROVE PutterOK(v, p)'
    OBVIOUS
  <2>1. PutterOK(w, p) /\ prod' = prod
    BY <1>0 DEF PuttersOK, tailVars
  <2>2. k \in Written(w) => prod[p].control # w.at[k]
    <3> SUFFICES ASSUME k \in Written(w) PROVE prod[p].control # w.at[k]
      OBVIOUS
    <3>1. w.at[k] # NoBlock
      BY <1>0, FramePlaces, BlockParts
    <3> QED
      BY <3>1, WriterAlone DEF Putting
  <2> QED
    BY <2>1, <2>2, <1>0, FramePutter
<1> QED
  BY <1>0, <1>1, <1>2 DEF PuttersOK, Putting, tailVars

\* and the Consume objects.
LEMMA ConsumerTakers ==
    ASSUME NEW w, Core(w), NEW v, NEW k, NEW c \in Consumers, ConsumerFrame(w, v, k, c)
    PROVE  TakersOK(v)'
<1>0. /\ Frame(w, v, {}, k) /\ consume' = consume /\ TakersOK(w) /\ TypesTrail /\ Shape(w) /\ prod' = prod
      /\ \A d \in Consumers \ {c} : cons'[d] = cons[d]
  BY DEF Core, ConsumerFrame, Frame, Shape, layers, ConsumerMoved, tailVars
<1>1. \A d \in Consumers \ {c} : TakerOK(v, d)'
  <2> SUFFICES ASSUME NEW d \in Consumers \ {c} PROVE TakerOK(v, d)'
    OBVIOUS
  <2>1. TakerOK(w, d) /\ (k \in Written(w) /\ Takes(d) => cons[d].control # w.at[k])
    BY <1>0, WriterAlone DEF TakersOK
  <2> QED
    BY <2>1, <1>0, FrameTaker
<1>2. consume = "multiple" => \A d \in Consumers \ {c} : ManyPlaced(v, d)'
  <2> SUFFICES ASSUME consume = "multiple", NEW d \in Consumers \ {c} PROVE ManyPlaced(v, d)'
    OBVIOUS
  <2>1. ConsumersOK /\ ManyPlaced(w, d) /\ m_initial_page' = m_initial_page
    BY <1>0 DEF TypesTrail, TakersOK, ConsumerFrame
  <2> QED
    BY <2>1, <1>0, FrameMany
<1>3. consume = "single" => \A d \in Consumers \ {c} : OnePlaced(v, d)'
  <2> SUFFICES ASSUME consume = "single", NEW d \in Consumers \ {c} PROVE OnePlaced(v, d)'
    OBVIOUS
  <2>1. OnePlaced(w, d) /\ cons[d].pc \in {"idle", "consuming"}
    BY <1>0 DEF TakersOK, ConsumerFrame, OnlyConsume
  <2> QED
    BY <2>1, <1>0, FrameOne
<1>4. \A d \in Consumers \ {c} : Takes(c)' /\ Takes(d) => cons'[c].control # cons[d].control
  BY WriterAlone DEF ConsumerFrame
<1>5. \A p \in Producers : Takes(c)' /\ Putting(p) => prod[p].control # cons'[c].control
  BY WriterAlone DEF ConsumerFrame
<1>6. \A d \in Consumers : TakerOK(v, d)'
  BY <1>1 DEF ConsumerFrame
<1>7. \A d, e \in Consumers : Takes(d)' /\ Takes(e)' /\ d # e => cons'[d].control # cons'[e].control
  BY <1>0, <1>4 DEF TakersOK, Takes, At
<1>8. \A p \in Producers, d \in Consumers : Putting(p)' /\ Takes(d)' => prod'[p].control # cons'[d].control
  BY <1>0, <1>5 DEF TakersOK, Takes, At, Putting
<1>9. consume = "single" => \A d, e \in Consumers :
               d = e \/ cons'[d].pc \in {"idle", "consuming"} \/ cons'[e].pc \in {"idle", "consuming"}
  BY <1>0 DEF ConsumerFrame, OnlyConsume
<1>10. consume = "multiple" => \A d \in Consumers : ManyPlaced(v, d)'
  BY <1>2 DEF ConsumerFrame
<1>11. consume = "single" => \A d \in Consumers : OnePlaced(v, d)'
  BY <1>3 DEF ConsumerFrame
<1> QED
  BY <1>0, <1>6, <1>7, <1>8, <1>9, <1>10, <1>11 DEF TakersOK

\* Hence a step of a consumer keeps the invariant.
LEMMA ConsumerCore ==
    ASSUME NEW w, Core(w), NEW v, NEW k, NEW c \in Consumers, ConsumerFrame(w, v, k, c)
    PROVE  Core(v)'
<1>1. AloneInside'
  BY DEF Core, AloneInside, LockHeldInside, Inside, Outside, ConsumerFrame, Frame, layers, tailVars
<1> QED
  BY <1>1, ConsumerWords, ConsumerPutters, ConsumerTakers DEF Core, ConsumerFrame, Frame

\* What every step of a consumer leaves.
Beside == UNCHANGED <<tailVars, m_mutex, layers, alive>>

\* A step of a consumer leaves what producers know.
LEMMA BesideNew ==
    ASSUME Beside
    PROVE  /\ \A x : New(x)' <=> New(x)
           /\ m_tail' = m_tail /\ prod' = prod /\ put' = put /\ consume' = consume
  BY DEF Beside, New, tailVars, layers

\* The record of one consumer changes.
LEMMA ConsumerSet ==
    ASSUME cons \in [Consumers -> Consume], NEW c \in Consumers, NEW r \in Consume, cons' = [cons EXCEPT ![c] = r]
    PROVE  ConsumerMoved(c) /\ cons'[c] = r
  BY DEF ConsumerMoved

\* Under the layer for many consumers, its invariant gives the types.
LEMMA ManyTypes ==
    ASSUME TypesTrail, consume = "multiple", NEW c \in Consumers, ConsumerNext(c), Beside
    PROVE  TypesTrail' /\ BaseTypeOK' /\ cons' \in [Consumers -> Consume]
<1>1. HeadInv'
  BY ConsumerKeepsHeadInv DEF HeadInv, TypesTrail, TypeOK
<1>2. TailTypeOK'
  BY DEF TypesTrail, TypeOK, TailTypeOK, Beside, tailVars
<1> QED
  BY <1>1, <1>2 DEF TypesTrail, HeadInv, TypeOK, Beside, layers, HeadTypeOK

\* Under the layer for one consumer, there is nothing else.
LEMMA OneTypes ==
    ASSUME TypesTrail, consume = "single", BaseTypeOK', HeadTypeOK', WordsOK', Beside
    PROVE  TypesTrail'
<1>2. TailTypeOK'
  BY DEF TypesTrail, TypeOK, TailTypeOK, Beside, tailVars
<1> QED
  BY <1>2 DEF TypesTrail, TypeOK, Beside, layers

\* A word that is read in a block of the last life of its page.
LEMMA ReadWord ==
    ASSUME NEW w, Core(w), NEW i, Valid(w, i), consume = "multiple" \/ i >= w.head
    PROVE  /\ IsEnd(m_next[w.at[i]]) \/ (i < w.last /\ m_next[w.at[i]].to = w.at[i + 1])
           /\ w.at[i] \in Block /\ m_next[w.at[i]] \in NextPtr /\ i \in Nat /\ i > 0 /\ i <= w.last
           /\ IsDead(m_next[w.at[i]]) => ~IsEnd(m_next[w.at[i]])
<1>0. Shape(w) /\ WordsTrail(w) /\ m_next \in [Block -> NextPtr] /\ WordsOK
  BY DEF Core, Shape, TypesTrail, TypeOK, BaseTypeOK
<1>1. w.last \in Nat /\ w.head \in Nat /\ (w.last > 0 => m_tail = w.at[w.last]) /\ w.head > 0
  BY <1>0, TrailFacts
<1>2. i \in Nat /\ i > 0 /\ i <= w.last /\ w.at[i] \in Block /\ w.last > 0
  BY <1>0, SameLife
<1>6. IsEnd(m_next[w.at[i]]) \/ (i < w.last /\ m_next[w.at[i]].to = w.at[i + 1])
  <2>1. CASE i = w.last
    BY <1>0, <1>1, <1>2, <2>1 DEF WordsTrail
  <2>2. CASE i < w.last /\ i >= w.head
    <3>1. i \in Written(w)
      BY <1>1, <1>2, <2>2 DEF Written
    <3> QED
      BY <3>1, <1>0, <2>2 DEF WordsTrail, WrittenWord
  <2>3. CASE i < w.last /\ i < w.head
    <3>1. i \in 1 .. (w.head - 1) /\ consume = "multiple"
      BY <1>1, <1>2, <2>3
    <3>2. PassedWord(w, i)
      BY <3>1, <1>0 DEF WordsTrail
    <3> QED
      BY <3>2, <2>3 DEF PassedWord, Zero, IsEnd
  <2> QED
    BY <1>1, <1>2, <2>1, <2>2, <2>3
<1>7. IsDead(m_next[w.at[i]]) => ~IsEnd(m_next[w.at[i]])
  BY <1>0, <1>2, BlockParts DEF IsDead, IsEnd, WordsOK
<1> QED
  BY <1>0, <1>2, <1>6, <1>7

\* The trail is the same; m_head may be set for the first time.
LEMMA SameTrail ==
    ASSUME NEW w, Shape(w), TypesTrail', UNCHANGED m_initial_page, Beside,
           \/ m_head' = m_head
           \/ m_head = NoBlock /\ m_initial_page # NoPage /\ m_head' = FirstBlock(m_initial_page)
    PROVE  Shape(w)' /\ Keeps(w, w, {})
<1>1. (\A x : New(x)' <=> New(x)) /\ m_tail' = m_tail
  BY BesideNew
<1>2. CASE m_head' = m_head
  BY <1>1, <1>2, TrailKept
<1>3. CASE m_head = NoBlock /\ m_initial_page # NoPage /\ m_head' = FirstBlock(m_initial_page)
  <2>1. \A i : Valid(w, i)' <=> Valid(w, i)
    BY <1>1 DEF Valid
  <2>2. EndsOK(w)'
    BY <1>1, <1>3 DEF Shape, EndsOK
  <2>3. StepsOK(w)' /\ LivesOK(w)'
    BY <2>1 DEF Shape, StepsOK, LivesOK
  <2> QED
    BY <2>1, <2>2, <2>3 DEF Shape, Keeps
<1> QED
  BY <1>2, <1>3

\* The pages are the same, and who leaves which.
LEMMA PagesStay ==
    ASSUME NEW w, Core(w), NEW c \in Consumers, ConsumerMoved(c), UNCHANGED pool, Beside,
           Leaves(c)' <=> Leaves(c), Leaves(c) => cons'[c].control = cons[c].control
    PROVE  PagesHeld(w)'
<1>1. \A x : New(x)' <=> New(x)
  BY BesideNew
<1>2. \A d \in Consumers : Leaves(d)' <=> Leaves(d)
  BY DEF ConsumerMoved, Leaves
<1>3. \A d \in Consumers : Leaves(d) => cons'[d].control = cons[d].control
  BY DEF ConsumerMoved
<1>4. \A x \in Pages : pool'[x] = "queue" <=>
           \/ \E i \in Live(w) : In(w, i, x)
           \/ New(x)'
           \/ \E d \in Consumers : Leaves(d)' /\ PageOf(cons'[d].control) = x
  <2> SUFFICES ASSUME NEW x \in Pages
               PROVE pool[x] = "queue" <=>
                       \/ \E i \in Live(w) : In(w, i, x)
                       \/ New(x)
                       \/ \E d \in Consumers : Leaves(d) /\ PageOf(cons'[d].control) = x
    BY <1>1, <1>2
  <2> QED
    BY <1>3 DEF Core, PagesHeld
<1>5. \A d, e \in Consumers : Leaves(d)' /\ Leaves(e)' /\ d # e => ~SamePage(cons'[d].control, cons'[e].control)
  BY <1>2, <1>3 DEF Core, PagesHeld
<1> QED
  BY <1>4, <1>5 DEF PagesHeld

\* The pins are the same.
LEMMA PinsStay ==
    ASSUME PinsHeld, NEW c \in Consumers, ConsumerMoved(c), UNCHANGED pinners, Beside,
           \/ consume = "single"
           \/ /\ cons[c].control # NoBlock => cons'[c].control # NoBlock /\ SamePage(cons[c].control, cons'[c].control)
              /\ cons[c].pc \in {"unpin_old", "reread", "unpin_left", "unpin_left_restart"} =>
                   /\ cons'[c].pc \in {"unpin_old", "reread", "unpin_left", "unpin_left_restart"}
                   /\ cons'[c].target = cons[c].target
    PROVE  PinsHeld'
<1>1. consume' = consume
  BY BesideNew
<1>2. CASE consume = "single"
  BY <1>1, <1>2 DEF PinsHeld
<1>3. CASE consume # "single"
  <2> SUFFICES ASSUME NEW x \in Pages, NEW h \in pinners[x]
               PROVE  /\ h \in Consumers /\ cons'[h].control # NoBlock
                      /\ \/ PageOf(cons'[h].control) = x
                         \/ /\ cons'[h].pc \in {"unpin_old", "reread", "unpin_left", "unpin_left_restart"}
                            /\ PageOf(cons'[h].target) = x
    BY <1>1, <1>3 DEF PinsHeld
  <2>1. h \in Consumers /\ cons[h].control # NoBlock
        /\ \/ PageOf(cons[h].control) = x
           \/ /\ cons[h].pc \in {"unpin_old", "reread", "unpin_left", "unpin_left_restart"}
              /\ PageOf(cons[h].target) = x
    BY DEF PinsHeld
  <2>2. CASE h # c
    BY <2>1, <2>2 DEF ConsumerMoved
  <2>3. CASE h = c
    BY <2>1, <2>3, <1>3 DEF SamePage
  <2> QED
    BY <2>2, <2>3
<1> QED
  BY <1>2, <1>3

\* Nothing is written, and the consumer does not come to take an element.
LEMMA CalmConsumer ==
    ASSUME NEW w, Core(w), NEW c \in Consumers, ConsumerMoved(c), TypesTrail', Beside,
           UNCHANGED <<m_next, content, m_initial_page>>,
           \/ m_head' = m_head
           \/ m_head = NoBlock /\ m_initial_page # NoPage /\ m_head' = FirstBlock(m_initial_page),
           ~Takes(c)', consume = "single" => OnlyConsume(c),
           consume = "multiple" => ManyPlaced(w, c)',
           consume = "single" => OnePlaced(w, c)',
           PagesHeld(w)', PinsHeld'
    PROVE  ConsumerFrame(w, w, 0, c)
<1>1. Shape(w)' /\ Keeps(w, w, {}) /\ Shape(w)
  BY SameTrail DEF Core
<1>2. Frame(w, w, {}, 0)
  <2>1. w.last \in Nat /\ w.head \in Nat
    BY <1>1, TrailFacts
  <2> QED
    BY <2>1, <1>1 DEF Frame, Change, Beside
<1> QED
  BY <1>2 DEF ConsumerFrame, Writes, TakerOK, Takes, At, Beside

\* A block is taken, or the element in it is done with.
LEMMA WriteConsumer ==
    ASSUME NEW w, Core(w), NEW c \in Consumers, ConsumerMoved(c), TypesTrail', Beside,
           UNCHANGED <<content, m_initial_page, m_head>>,
           NEW k \in Written(w), NEW n, Continues(w, k), ~IsDead(m_next[w.at[k]]), n.to = w.at[k + 1],
           m_next' = [m_next EXCEPT ![w.at[k]] = n],
           "busy" \notin m_next[w.at[k]].flags \/ (Takes(c) /\ cons[c].control = w.at[k]),
           Takes(c)' => cons'[c].control = w.at[k] /\ "busy" \notin m_next[w.at[k]].flags,
           TakerOK(w, c)', consume = "single" => OnlyConsume(c),
           consume = "multiple" => ManyPlaced(w, c)',
           consume = "single" => OnePlaced(w, c)',
           PagesHeld(w)', PinsHeld'
    PROVE  ConsumerFrame(w, w, k, c)
<1>1. Shape(w)' /\ Keeps(w, w, {}) /\ Shape(w)
  BY SameTrail DEF Core
<1>2. InnerWords(w, k, n)
  <2>1. put' = put /\ m_tail' = m_tail /\ \A x : New(x)' <=> New(x)
    BY BesideNew
  <2> QED
    BY <2>1, InnerApart
<1>3. Frame(w, w, {}, k)
  <2>1. w.last \in Nat /\ w.head \in Nat
    BY <1>1, TrailFacts
  <2>2. Change(w, k)
    BY <1>2 DEF Change, InnerWords
  <2> QED
    BY <2>1, <2>2, <1>1, <1>2 DEF Frame, Beside, InnerWords
<1> QED
  BY <1>3 DEF ConsumerFrame, Writes, Beside

\* And the blocks of the last lives.
LEMMA BesideValid ==
    ASSUME NEW w, Beside
    PROVE  \A i : Valid(w, i)' <=> Valid(w, i)
  BY BesideNew DEF Valid

\* One of many consumers has read the word of a block.
LEMMA ManyEntered ==
    ASSUME NEW w, Core(w), consume = "multiple", NEW c \in Consumers, NEW i, Valid(w, i), NEW b, b = w.at[i],
           NEW n, n = m_next[b], Enter(c, b, n), cons' \in [Consumers -> Consume], UNCHANGED <<m_next, m_initial_page>>, Beside
    PROVE  /\ ConsumerMoved(c) /\ ManyPlaced(w, c)' /\ cons'[c].control = b
           /\ cons'[c].pc \in {"nothing", "found", "try_busy", "advance", "move", "idle"}
<1>0. cons \in [Consumers -> Consume] /\ b \in Block /\ n \in NextPtr /\ i \in Index(w) /\ Valid(w, i)'
  BY ReadWord, BesideValid DEF Core, Shape, TypesTrail, TypeOK, HeadTypeOK, Valid
<1>1. /\ IsEnd(n) \/ (i < w.last /\ n.to = w.at[i + 1])
      /\ IsDead(n) => ~IsEnd(n)
  BY ReadWord
<1>2. PICK to : to = AfterLoad(cons[c].mode, n)
  OBVIOUS
<1>3. cons' = [cons EXCEPT ![c].pc = to, ![c].control = b, ![c].target = NoBlock,
                            ![c].next = IF to = "idle" THEN Zero ELSE n]
  BY <1>2 DEF Enter
<1>4. /\ cons'[c].pc = to /\ cons'[c].control = b /\ (to # "idle" => cons'[c].next = n)
      /\ ConsumerMoved(c)
  BY <1>0, <1>3 DEF ConsumerMoved, Consume
<1>5. cons[c].mode \in {"consume", "empty", "clean"}
  BY <1>0 DEF Consume, Mode
<1>6. /\ to \in {"nothing", "found", "try_busy", "advance", "move", "idle"}
      /\ to \in {"try_busy", "advance", "move"} => ~IsEnd(n)
      /\ to = "try_busy" => Consumable(n)
      /\ to = "advance" => IsDead(n)
  BY <1>1, <1>2, <1>5 DEF AfterLoad
<1>7. to \in {"try_busy", "advance", "move"} => Placed(w, c, i)'
  BY <1>0, <1>1, <1>4, <1>6 DEF Placed
<1>8. ManyPlaced(w, c)'
  BY <1>0, <1>4, <1>6, <1>7 DEF ManyPlaced
<1> QED
  BY <1>4, <1>6, <1>8

\* Or there is nothing to read.
LEMMA ManyEnteredZero ==
    ASSUME NEW w, NEW c \in Consumers, NEW b, Enter(c, b, Zero), cons \in [Consumers -> Consume],
           cons' \in [Consumers -> Consume]
    PROVE  /\ ConsumerMoved(c) /\ ManyPlaced(w, c)' /\ cons'[c].control = b
           /\ cons'[c].pc \in {"nothing", "idle"}
<1>1. PICK to : to = AfterLoad(cons[c].mode, Zero)
  OBVIOUS
<1>2. cons' = [cons EXCEPT ![c].pc = to, ![c].control = b, ![c].target = NoBlock,
                            ![c].next = IF to = "idle" THEN Zero ELSE Zero]
  BY <1>1 DEF Enter
<1>3. cons'[c].pc = to /\ cons'[c].control = b /\ ConsumerMoved(c)
  BY <1>2 DEF ConsumerMoved, Consume
<1>4. cons[c].mode \in {"consume", "empty", "clean"}
  BY DEF Consume, Mode
<1>5. to \in {"nothing", "idle"}
  BY <1>1, <1>4 DEF AfterLoad, Zero, IsEnd, IsDead
<1> QED
  BY <1>3, <1>5 DEF ManyPlaced

\* A consumer goes on to the head it has just read.
LEMMA ManyFollows ==
    ASSUME NEW w, Shape(w), NEW c \in Consumers, NEW head, head = w.at[w.head], w.last > 0, FollowHead(c, head),
           cons' \in [Consumers -> Consume], Beside, UNCHANGED m_initial_page
    PROVE  /\ ConsumerMoved(c) /\ ManyPlaced(w, c)' /\ cons'[c].control = cons[c].control
           /\ cons'[c].pc \in {"load_head_next", "pin_head"}
<1>0. cons \in [Consumers -> Consume] /\ Valid(w, w.head) /\ Valid(w, w.head)'
  BY TrailFacts, BesideValid DEF Shape, TypesTrail, TypeOK, HeadTypeOK
<1>1. /\ cons'[c].pc \in {"load_head_next", "pin_head"} /\ cons'[c].target = head
      /\ cons'[c].control = cons[c].control /\ ConsumerMoved(c)
  BY <1>0 DEF FollowHead, ConsumerMoved, Consume
<1>2. ManyPlaced(w, c)'
  BY <1>0, <1>1 DEF ManyPlaced, Valid
<1> QED
  BY <1>1, <1>2

\* Only the pc changes.
LEMMA ConsumerGoes ==
    ASSUME cons \in [Consumers -> Consume], NEW c \in Consumers, NEW pc, Goto(c, pc), cons' \in [Consumers -> Consume]
    PROVE  /\ ConsumerMoved(c) /\ cons'[c].pc = pc /\ cons'[c].control = cons[c].control
           /\ cons'[c].next = cons[c].next /\ cons'[c].target = cons[c].target /\ cons'[c].mode = cons[c].mode
  BY DEF Goto, ConsumerMoved, Consume

\* Where the head is, when it is set.
LEMMA HeadPlace ==
    ASSUME NEW w, Shape(w), m_head # NoBlock
    PROVE  w.last > 0 /\ m_head = w.at[w.head] /\ m_head \in Block
<1>1. w.last > 0 /\ m_head = w.at[w.head]
  BY TrailFacts DEF Shape, EndsOK
<1> QED
  BY <1>1, TrailFacts

\* A step of one of many consumers.
Many(w, c) == Core(w) /\ consume = "multiple" /\ ConsumerNext(c) /\ Beside

\* What is known of one of many consumers, and of its Consume.
LEMMA ManyKnown ==
    ASSUME NEW w, NEW c \in Consumers, Many(w, c)
    PROVE  /\ Shape(w) /\ TypesTrail' /\ cons \in [Consumers -> Consume] /\ cons' \in [Consumers -> Consume]
           /\ ConsumerOK(c) /\ ManyPlaced(w, c) /\ TakerOK(w, c) /\ PinsHeld /\ WordsTrail(w)
           /\ m_next \in [Block -> NextPtr] /\ pinners \in [Pages -> SUBSET Holder] /\ pool' \in [Pages -> {"zeroed", "uninitialized", "queue"}]
           /\ pool \in [Pages -> {"zeroed", "uninitialized", "queue"}]
           /\ m_initial_page \in Pages \cup {NoPage} /\ StepsOK(w) /\ EndsOK(w)
<1>1. TypesTrail /\ consume = "multiple" /\ Core(w) /\ Shape(w)
  BY DEF Many, Core, Shape
<1>2. TypesTrail' /\ BaseTypeOK' /\ cons' \in [Consumers -> Consume]
  BY <1>1, ManyTypes DEF Many
<1> QED
  BY <1>1, <1>2 DEF Core, Shape, TypesTrail, ConsumersOK, TakersOK, TypeOK, HeadTypeOK, BaseTypeOK

\* Nothing is written, taken or given back.
LEMMA ManyCalm ==
    ASSUME NEW w, NEW c \in Consumers, Many(w, c), UNCHANGED <<m_next, content, m_initial_page, pool>>,
           \/ m_head' = m_head
           \/ m_head = NoBlock /\ m_initial_page # NoPage /\ m_head' = FirstBlock(m_initial_page),
           ConsumerMoved(c), ManyPlaced(w, c)', PinsHeld',
           cons[c].pc \notin {"zero", "free_page"}, cons'[c].pc \notin {"zero", "free_page", "consuming"}
    PROVE  ConsumerFrame(w, w, 0, c)
<1>1. TypesTrail' /\ consume = "multiple" /\ Beside /\ Core(w)
  BY ManyKnown DEF Many
<1>2. ~Leaves(c) /\ ~Leaves(c)' /\ ~Takes(c)'
  BY DEF Leaves, Takes, At
<1>3. PagesHeld(w)'
  BY <1>1, <1>2, PagesStay
<1> QED
  BY <1>1, <1>2, <1>3, CalmConsumer

\* The pins are the same, and the block is in the same page.
LEMMA ManyPins ==
    ASSUME NEW w, NEW c \in Consumers, Many(w, c), ConsumerMoved(c), UNCHANGED pinners,
           cons[c].control = NoBlock \/ (cons'[c].control # NoBlock /\ SamePage(cons[c].control, cons'[c].control)),
           cons[c].pc \notin {"unpin_old", "reread", "unpin_left", "unpin_left_restart"}
    PROVE  PinsHeld'
<1>1. PinsHeld /\ Beside
  BY ManyKnown DEF Many
<1> QED
  BY <1>1, PinsStay

\* An operation starts or ends.
LEMMA ManyStarts ==
    ASSUME NEW w, NEW c \in Consumers, Many(w, c), Start(c, "consume") \/ Start(c, "empty") \/ Return(c)
    PROVE  ConsumerFrame(w, w, 0, c)
<1>0. cons \in [Consumers -> Consume] /\ cons' \in [Consumers -> Consume]
  BY ManyKnown
<1>1. /\ ConsumerMoved(c) /\ cons'[c].pc \in {"begin", "idle"} /\ cons'[c].control = cons[c].control
      /\ cons[c].pc \in {"idle", "nothing", "found"}
      /\ UNCHANGED <<baseVars, m_head>>
  <2>1. CASE Return(c)
    BY <2>1, <1>0 DEF Return, ConsumerMoved, Consume
  <2>2. ASSUME NEW mode \in {"consume", "empty"}, Start(c, mode)
        PROVE  /\ ConsumerMoved(c) /\ cons'[c].pc = "begin" /\ cons'[c].control = cons[c].control
               /\ cons[c].pc = "idle" /\ UNCHANGED <<baseVars, m_head>>
    BY <2>2, <1>0 DEF Start, ConsumerMoved, Consume, At
  <2> QED
    BY <2>1, <2>2
<1>2. ManyPlaced(w, c)'
  BY <1>1 DEF ManyPlaced
<1>3. PinsHeld'
  BY <1>1, ManyPins DEF SamePage, baseVars
<1> QED
  BY <1>1, <1>2, <1>3, ManyCalm DEF baseVars

\* The head is read, and set if it is not.
LEMMA ManyReadsHead ==
    ASSUME NEW w, NEW c \in Consumers, Many(w, c), LoadHead(c) \/ ReloadHead(c)
    PROVE  ConsumerFrame(w, w, 0, c)
<1>0. cons \in [Consumers -> Consume] /\ cons' \in [Consumers -> Consume] /\ Shape(w) /\ Beside
  BY ManyKnown DEF Many
<1>1. UNCHANGED <<baseVars, m_head>> /\ cons[c].pc \in {"begin", "reload_head"}
  BY DEF LoadHead, ReloadHead, At
<1>2. /\ ConsumerMoved(c) /\ ManyPlaced(w, c)' /\ cons'[c].control = cons[c].control
      /\ cons'[c].pc \in {"load_head_next", "pin_head", "reload_head", "initial_page"}
  <2>1. CASE m_head = NoBlock
    <3>1. PICK pc \in {"reload_head", "initial_page"} : Goto(c, pc)
      BY <2>1 DEF LoadHead, ReloadHead
    <3>2. /\ ConsumerMoved(c) /\ cons'[c].pc = pc /\ cons'[c].control = cons[c].control
      BY <3>1, <1>0, ConsumerGoes
    <3> QED
      BY <3>2 DEF ManyPlaced
  <2>2. CASE m_head # NoBlock
    <3>1. w.last > 0 /\ m_head = w.at[w.head]
      BY <2>2, <1>0, HeadPlace
    <3>2. FollowHead(c, m_head) /\ UNCHANGED m_initial_page
      BY <2>2, <1>1 DEF LoadHead, ReloadHead, baseVars
    <3> QED
      BY <3>1, <3>2, <1>0, ManyFollows
  <2> QED
    BY <2>1, <2>2
<1>3. PinsHeld'
  BY <1>1, <1>2, ManyPins DEF SamePage, baseVars
<1> QED
  BY <1>1, <1>2, <1>3, ManyCalm DEF baseVars

\* init_head reads the initial page.
LEMMA ManyReadsPage ==
    ASSUME NEW w, NEW c \in Consumers, Many(w, c), LoadInitialPage(c)
    PROVE  ConsumerFrame(w, w, 0, c)
<1>0. cons \in [Consumers -> Consume] /\ cons' \in [Consumers -> Consume]
  BY ManyKnown
<1>1. /\ ConsumerMoved(c) /\ cons'[c].pc = "init_head" /\ cons'[c].control = cons[c].control
      /\ cons'[c].target = FirstBlock(m_initial_page)
      /\ cons[c].pc = "initial_page" /\ UNCHANGED <<baseVars, m_head>>
  BY <1>0 DEF LoadInitialPage, ConsumerMoved, Consume, At
<1>2. ManyPlaced(w, c)'
  BY <1>1 DEF ManyPlaced, baseVars
<1>3. PinsHeld'
  BY <1>1, ManyPins DEF SamePage, baseVars
<1> QED
  BY <1>1, <1>2, <1>3, ManyCalm DEF baseVars

\* And sets the head, if no other consumer has.
LEMMA ManyInitHead ==
    ASSUME NEW w, NEW c \in Consumers, Many(w, c), InitHead(c)
    PROVE  ConsumerFrame(w, w, 0, c)
<1>0. /\ cons \in [Consumers -> Consume] /\ cons' \in [Consumers -> Consume] /\ Shape(w) /\ Beside /\ ManyPlaced(w, c)
      /\ EndsOK(w) /\ m_initial_page \in Pages \cup {NoPage}
  BY ManyKnown DEF Many
<1>1. cons[c].pc = "init_head" /\ UNCHANGED baseVars /\ m_head' = IF m_head = NoBlock THEN cons[c].target ELSE m_head
  BY DEF InitHead, At
<1>2. cons[c].target \in {NoBlock, FirstBlock(m_initial_page)}
  BY <1>0, <1>1 DEF ManyPlaced
<1>3. \/ m_head' = m_head
      \/ m_head = NoBlock /\ m_initial_page # NoPage /\ m_head' = FirstBlock(m_initial_page) /\ m_head' # NoBlock
  BY <1>1, <1>2, BlockParts
<1>4. m_head' # NoBlock => w.last > 0 /\ m_head' = w.at[w.head]
  <2>1. CASE m_head' = m_head
    BY <2>1, <1>0, HeadPlace
  <2>2. CASE m_head = NoBlock /\ m_initial_page # NoPage /\ m_head' = FirstBlock(m_initial_page)
    <3>1. w.last # 0 /\ w.head = 1 /\ w.at[1] = FirstBlock(m_initial_page)
      BY <2>2, <1>0 DEF EndsOK
    <3>2. w.last > 0
      BY <3>1, <1>0, TrailFacts
    <3> QED
      BY <3>1, <3>2, <2>2
  <2> QED
    BY <2>1, <2>2, <1>3
<1>5. /\ ConsumerMoved(c) /\ ManyPlaced(w, c)' /\ cons'[c].control = cons[c].control
      /\ cons'[c].pc \in {"load_head_next", "pin_head", "nothing", "idle"}
  <2>1. CASE m_head' = NoBlock
    <3>1. Enter(c, cons[c].control, Zero)
      BY <2>1 DEF InitHead
    <3> QED
      BY <3>1, <1>0, ManyEnteredZero
  <2>2. CASE m_head' # NoBlock
    <3>1. FollowHead(c, m_head') /\ UNCHANGED m_initial_page
      BY <2>2, <1>1 DEF InitHead, baseVars
    <3>2. PICK head : head = m_head'
      OBVIOUS
    <3>3. FollowHead(c, head)
      BY <3>1, <3>2
    <3> QED
      BY <3>1, <3>2, <3>3, <2>2, <1>0, <1>4, ManyFollows
  <2> QED
    BY <2>1, <2>2
<1>6. PinsHeld'
  BY <1>1, <1>5, ManyPins DEF SamePage, baseVars
<1> QED
  BY <1>1, <1>3, <1>5, <1>6, ManyCalm DEF baseVars

\* A block is read.
LEMMA ManyReads ==
    ASSUME NEW w, NEW c \in Consumers, Many(w, c), LoadHeadNext(c) \/ LoadNext(c)
    PROVE  ConsumerFrame(w, w, 0, c)
<1>0. /\ cons \in [Consumers -> Consume] /\ cons' \in [Consumers -> Consume] /\ Shape(w) /\ Beside /\ ManyPlaced(w, c)
      /\ ConsumerOK(c) /\ Core(w) /\ consume = "multiple" /\ WordsTrail(w)
  BY ManyKnown DEF Many
<1>1. UNCHANGED <<baseVars, m_head>>
  BY DEF LoadHeadNext, LoadNext
<1>2. CASE LoadHeadNext(c)
  <2>1. At(c, "load_head_next") /\ SamePage(cons[c].control, cons[c].target) /\ cons[c].target \in Block
    BY <1>0, <1>2 DEF LoadHeadNext, At, ConsumerOK
  <2>2. PICK i \in Index(w) : Valid(w, i) /\ w.at[i] = cons[c].target
    BY <2>1, <1>0 DEF ManyPlaced, At
  <2>3. PICK b : b = cons[c].target
    OBVIOUS
  <2>4. Enter(c, b, m_next[b])
    BY <1>2, <2>3 DEF LoadHeadNext
  <2>5. /\ ConsumerMoved(c) /\ ManyPlaced(w, c)' /\ cons'[c].control = b
        /\ cons'[c].pc \in {"nothing", "found", "try_busy", "advance", "move", "idle"}
    BY <2>2, <2>3, <2>4, <1>0, <1>1, ManyEntered DEF baseVars
  <2>6. PinsHeld'
    BY <2>1, <2>3, <2>5, <1>1, BlockParts, ManyPins DEF baseVars, At
  <2> QED
    BY <2>1, <2>5, <2>6, <1>1, ManyCalm DEF baseVars, At
<1>3. CASE LoadNext(c)
  <2>1. At(c, "load_next") /\ cons[c].control \in Block
    BY <1>0, <1>3 DEF LoadNext, At, ConsumerOK
  <2>2. cons[c].control[2] = 0 /\ \E i \in Index(w) : w.at[i] = cons[c].control
    BY <2>1, <1>0 DEF ManyPlaced, At
  <2>3. PICK b : b = cons[c].control
    OBVIOUS
  <2>4. PICK x \in Pages : b = FirstBlock(x) /\ x = PageOf(b)
    BY <2>1, <2>2, <2>3, BlockParts DEF FirstBlock, PageOf
  <2>5. Enter(c, b, m_next[b])
    BY <1>3, <2>3 DEF LoadNext
  <2>6. /\ ConsumerMoved(c) /\ ManyPlaced(w, c)' /\ cons'[c].control = b
        /\ cons'[c].pc \in {"nothing", "found", "try_busy", "advance", "move", "idle"}
    <3>1. CASE New(x)
      <4>1. m_next[b] = Zero
        BY <3>1, <2>4, <1>0 DEF WordsTrail
      <4>2. Enter(c, b, Zero)
        BY <4>1, <2>5
      <4> QED
        BY <4>2, <1>0, ManyEnteredZero
    <3>2. CASE ~New(x)
      <4>1. PICK j \in Index(w) : w.at[j] = b
        BY <2>2, <2>3
      <4>2. w.base[x] \in Index(w) /\ w.at[w.base[x]] = FirstBlock(x)
        BY <4>1, <2>4, <1>0 DEF Shape, LivesOK
      <4>3. PICK i : i = w.base[x]
        OBVIOUS
      <4>4. Valid(w, i) /\ w.at[i] = b
        <5>1. w.base[x] <= i
          BY <4>3, <1>0, <2>4, TrailFacts
        <5> QED
          BY <5>1, <4>2, <4>3, <2>4, <3>2 DEF Valid
      <4> QED
        BY <4>4, <2>5, <1>0, <1>1, ManyEntered DEF baseVars
    <3> QED
      BY <3>1, <3>2
  <2>7. PinsHeld'
    BY <2>1, <2>3, <2>6, <1>1, BlockParts, ManyPins DEF baseVars, At, SamePage
  <2> QED
    BY <2>1, <2>6, <2>7, <1>1, ManyCalm DEF baseVars, At
<1> QED
  BY <1>2, <1>3

\* Only consumer c pins or unpins.
LEMMA PinsMoved ==
    ASSUME NEW w, NEW c \in Consumers, Many(w, c), ConsumerMoved(c),
           \A x \in Pages : pinners'[x] \subseteq pinners[x] \cup {c},
           \A x \in Pages : c \in pinners'[x] =>
              /\ cons'[c].control # NoBlock
              /\ \/ PageOf(cons'[c].control) = x
                 \/ /\ cons'[c].pc \in {"unpin_old", "reread", "unpin_left", "unpin_left_restart"}
                    /\ PageOf(cons'[c].target) = x
    PROVE  PinsHeld'
<1>1. PinsHeld /\ consume = "multiple" /\ consume' = consume
  BY ManyKnown, BesideNew DEF Many
<1> SUFFICES ASSUME NEW x \in Pages, NEW h \in pinners'[x]
             PROVE  /\ h \in Consumers /\ cons'[h].control # NoBlock
                    /\ \/ PageOf(cons'[h].control) = x
                       \/ /\ cons'[h].pc \in {"unpin_old", "reread", "unpin_left", "unpin_left_restart"}
                          /\ PageOf(cons'[h].target) = x
  BY <1>1 DEF PinsHeld
<1>2. CASE h = c
  BY <1>2
<1>3. CASE h # c
  <2>1. h \in pinners[x]
    BY <1>3
  <2>2. h \in Consumers /\ cons'[h] = cons[h]
    BY <2>1, <1>1, <1>3 DEF PinsHeld, ConsumerMoved
  <2> QED
    BY <2>1, <2>2, <1>1 DEF PinsHeld
<1> QED
  BY <1>2, <1>3

\* The page of the head is pinned.
LEMMA ManyPinsHead ==
    ASSUME NEW w, NEW c \in Consumers, Many(w, c), PinHead(c)
    PROVE  ConsumerFrame(w, w, 0, c)
<1>0. /\ cons \in [Consumers -> Consume] /\ cons' \in [Consumers -> Consume] /\ PinsHeld
      /\ pinners \in [Pages -> SUBSET Holder] /\ consume = "multiple"
  BY ManyKnown DEF Many
<1>1. At(c, "pin_head") /\ UNCHANGED <<m_next, content, pool, m_initial_page, m_head>> /\ Pin(c, PageOf(cons[c].target))
  BY DEF PinHead
<1>2. cons[c].target \in Block /\ PageOf(cons[c].target) \in Pages /\ cons[c].target # NoBlock
  BY <1>1, ManyKnown, BlockParts DEF ConsumerOK, At
<1>3. \A x \in Pages : pinners'[x] = IF x = PageOf(cons[c].target) THEN pinners[x] \cup {c} ELSE pinners[x]
  BY <1>0, <1>1, <1>2 DEF Pin
<1>4. CASE cons[c].control = NoBlock
  <2>1. cons' = [cons EXCEPT ![c].pc = "begin", ![c].control = cons[c].target, ![c].target = NoBlock]
    BY <1>4 DEF PinHead
  <2>2. ConsumerMoved(c) /\ cons'[c].pc = "begin" /\ cons'[c].control = cons[c].target
    BY <2>1, <1>0 DEF ConsumerMoved, Consume
  <2>3. \A x \in Pages : c \notin pinners[x]
    BY <1>0, <1>4 DEF PinsHeld
  <2>4. PinsHeld'
    BY <1>2, <1>3, <2>2, <2>3, PinsMoved
  <2> QED
    BY <2>2, <2>4, <1>1, ManyCalm DEF ManyPlaced, At
<1>5. CASE cons[c].control # NoBlock
  <2>1. Goto(c, "unpin_old")
    BY <1>5 DEF PinHead
  <2>2. ConsumerMoved(c) /\ cons'[c].pc = "unpin_old" /\ cons'[c].control = cons[c].control /\ cons'[c].target = cons[c].target
    BY <2>1, <1>0, ConsumerGoes
  <2>3. \A x \in Pages : c \in pinners[x] => x = PageOf(cons[c].control)
    BY <1>0, <1>1 DEF PinsHeld, At
  <2>4. PinsHeld'
    BY <1>2, <1>3, <1>5, <2>2, <2>3, PinsMoved
  <2> QED
    BY <2>2, <2>4, <1>1, ManyCalm DEF ManyPlaced, At
<1> QED
  BY <1>4, <1>5

\* The page left is unpinned; the Consume is in the other.
LEMMA ManyUnpins ==
    ASSUME NEW w, NEW c \in Consumers, Many(w, c), UnpinOld(c) \/ UnpinLeft(c) \/ DestroyConsume(c)
    PROVE  ConsumerFrame(w, w, 0, c)
<1>0. /\ cons \in [Consumers -> Consume] /\ cons' \in [Consumers -> Consume] /\ PinsHeld /\ ConsumerOK(c)
      /\ pinners \in [Pages -> SUBSET Holder] /\ consume = "multiple" /\ ManyPlaced(w, c)
  BY ManyKnown DEF Many
<1>1. /\ UNCHANGED <<m_next, content, pool, m_initial_page, m_head>> /\ Unpin(c, PageOf(cons[c].control))
      /\ cons[c].pc \in {"unpin_old", "unpin_left", "unpin_left_restart", "idle"}
  BY DEF UnpinOld, UnpinLeft, DestroyConsume, At
<1>2. cons[c].control \in Block
  <2>1. CASE DestroyConsume(c)
    BY <2>1, <1>0 DEF DestroyConsume, Consume, BlockOrNull
  <2>2. CASE UnpinOld(c) \/ UnpinLeft(c)
    BY <2>2, <1>0 DEF UnpinOld, UnpinLeft, ConsumerOK, At
  <2> QED
    BY <2>1, <2>2
<1>3. PageOf(cons[c].control) \in Pages
  BY <1>2, BlockParts
<1>4. \A x \in Pages : pinners'[x] = IF x = PageOf(cons[c].control) THEN pinners[x] \ {c} ELSE pinners[x]
  BY <1>0, <1>1, <1>3 DEF Unpin
<1>5. CASE DestroyConsume(c)
  <2>1. ConsumerMoved(c) /\ cons'[c].pc = "idle" /\ cons[c].pc = "idle"
    BY <1>0, <1>5 DEF DestroyConsume, ConsumerMoved, Consume, At
  <2>2. \A x \in Pages : c \notin pinners'[x]
    BY <1>0, <1>4, <2>1 DEF PinsHeld
  <2>3. PinsHeld'
    BY <1>4, <2>1, <2>2, PinsMoved
  <2> QED
    BY <2>1, <2>3, <1>1, ManyCalm DEF ManyPlaced
<1>6. CASE UnpinOld(c) \/ UnpinLeft(c)
  <2>0. cons[c].pc \in {"unpin_old", "unpin_left", "unpin_left_restart"}
    BY <1>6 DEF UnpinOld, UnpinLeft, At
  <2>1. /\ ConsumerMoved(c) /\ cons'[c].pc \in {"begin", "load_next"} /\ cons'[c].control = cons[c].target
        /\ cons'[c].pc = "load_next" => cons[c].pc = "unpin_left"
    BY <1>0, <1>6 DEF UnpinOld, UnpinLeft, ConsumerMoved, Consume, At
  <2>2. cons[c].target \in Block /\ cons[c].target # NoBlock
    BY <1>0, <2>0, BlockParts DEF ConsumerOK
  <2>3. \A x \in Pages : c \in pinners'[x] => x = PageOf(cons[c].target)
    BY <1>0, <1>4 DEF PinsHeld
  <2>4. PinsHeld'
    BY <1>4, <2>1, <2>2, <2>3, PinsMoved
  <2>5. ManyPlaced(w, c)'
    BY <1>0, <2>1 DEF ManyPlaced
  <2> QED
    BY <2>0, <2>1, <2>4, <2>5, <1>1, ManyCalm
<1> QED
  BY <1>5, <1>6

\* The next block: in the page, or in another one that is pinned first.
LEMMA ManyMoves ==
    ASSUME NEW w, NEW c \in Consumers, Many(w, c), MoveNext(c)
    PROVE  ConsumerFrame(w, w, 0, c)
<1>0. /\ cons \in [Consumers -> Consume] /\ cons' \in [Consumers -> Consume] /\ PinsHeld /\ ConsumerOK(c)
      /\ pinners \in [Pages -> SUBSET Holder] /\ consume = "multiple" /\ ManyPlaced(w, c) /\ Shape(w) /\ StepsOK(w)
      /\ Beside /\ Core(w)
  BY ManyKnown DEF Many
<1>1. At(c, "move") /\ UNCHANGED <<m_next, content, pool, m_initial_page, m_head>>
  BY DEF MoveNext
<1>2. cons[c].control \in Block /\ cons[c].next.to \in Block
  BY <1>0, <1>1 DEF ConsumerOK, At
<1>3. PICK i \in Index(w) : Placed(w, c, i)
  BY <1>0, <1>1 DEF ManyPlaced, At
<1>4. /\ i \in Nat /\ i > 0 /\ w.last \in Nat /\ i < w.last /\ w.at[i] = cons[c].control /\ cons[c].next.to = w.at[i + 1]
      /\ i \in 1 .. (w.last - 1) /\ i + 1 \in Index(w) /\ Valid(w, i)
      /\ Continues(w, i) <=> SamePage(cons[c].control, cons[c].next.to)
  BY <1>0, <1>3, TrailFacts DEF Placed, Index, Continues
<1>5. PICK b : b = cons[c].next.to
  OBVIOUS
<1>6. CASE Continues(w, i)
  <2>1. Valid(w, i + 1)
    BY <1>0, <1>4, <1>6, SameLife
  <2>2. Enter(c, b, m_next[b]) /\ UNCHANGED pinners
    BY <1>4, <1>5, <1>6 DEF MoveNext
  <2>3. /\ ConsumerMoved(c) /\ ManyPlaced(w, c)' /\ cons'[c].control = b
        /\ cons'[c].pc \in {"nothing", "found", "try_busy", "advance", "move", "idle"}
    <3>1. PICK j : j = i + 1
      OBVIOUS
    <3>2. Valid(w, j) /\ b = w.at[j]
      BY <2>1, <1>4, <1>5, <3>1
    <3> QED
      BY <3>2, <2>2, <1>0, <1>1, ManyEntered
  <2>4. PinsHeld'
    BY <2>2, <2>3, <1>1, <1>2, <1>4, <1>5, <1>6, BlockParts, ManyPins DEF At
  <2> QED
    BY <2>3, <2>4, <1>1, ManyCalm DEF At
<1>7. CASE ~Continues(w, i)
  <2>1. cons' = [cons EXCEPT ![c].pc = "reread", ![c].target = b] /\ Pin(c, PageOf(b))
    BY <1>4, <1>5, <1>7 DEF MoveNext
  <2>2. ConsumerMoved(c) /\ cons'[c].pc = "reread" /\ cons'[c].target = b /\ cons'[c].control = cons[c].control
    BY <2>1, <1>0 DEF ConsumerMoved, Consume
  <2>3. b[2] = 0 /\ w.at[i + 1] = b
    BY <1>0, <1>4, <1>5, <1>7 DEF StepsOK
  <2>4. ManyPlaced(w, c)'
    BY <2>2, <2>3, <1>4 DEF ManyPlaced
  <2>5. \A x \in Pages : pinners'[x] = IF x = PageOf(b) THEN pinners[x] \cup {c} ELSE pinners[x]
    BY <1>0, <1>2, <1>5, <2>1, BlockParts DEF Pin
  <2>6. \A x \in Pages : c \in pinners[x] => x = PageOf(cons[c].control)
    BY <1>0, <1>1 DEF PinsHeld, At
  <2>7. PinsHeld'
    BY <1>2, <2>2, <2>5, <2>6, BlockParts, PinsMoved
  <2> QED
    BY <2>2, <2>4, <2>7, <1>1, ManyCalm DEF At
<1> QED
  BY <1>6, <1>7

\* The word of the block left is read again (potentially_different_next_ptr).
LEMMA ManyRereads ==
    ASSUME NEW w, NEW c \in Consumers, Many(w, c), Reread(c)
    PROVE  ConsumerFrame(w, w, 0, c)
<1>0. /\ cons \in [Consumers -> Consume] /\ cons' \in [Consumers -> Consume] /\ PinsHeld
      /\ consume = "multiple" /\ ManyPlaced(w, c) /\ ConsumerOK(c) /\ Beside
  BY ManyKnown DEF Many
<1>1. At(c, "reread") /\ UNCHANGED <<baseVars, m_head>>
  BY DEF Reread
<1>2. PICK pc \in {"unpin_left", "unpin_left_restart"} : Goto(c, pc)
  BY DEF Reread
<1>3. ConsumerMoved(c) /\ cons'[c].pc = pc /\ cons'[c].control = cons[c].control /\ cons'[c].target = cons[c].target
  BY <1>0, <1>2, ConsumerGoes
<1>4. ManyPlaced(w, c)'
  BY <1>0, <1>1, <1>2, <1>3 DEF ManyPlaced, At
<1>5. cons[c].control # NoBlock
  BY <1>0, <1>1, BlockParts DEF ConsumerOK, At
<1>6. PinsHeld'
  BY <1>0, <1>1, <1>2, <1>3, <1>5, PinsStay DEF baseVars, At, SamePage
<1> QED
  BY <1>1, <1>2, <1>3, <1>4, <1>6, ManyCalm DEF baseVars, At

\* What WriteConsumer needs of one of many consumers.
LEMMA ManyWrites ==
    ASSUME NEW w, NEW c \in Consumers, Many(w, c), ConsumerMoved(c), NEW k \in Written(w), NEW n,
           Continues(w, k), ~IsDead(m_next[w.at[k]]), n.to = w.at[k + 1],
           m_next' = [m_next EXCEPT ![w.at[k]] = n],
           UNCHANGED <<content, pool, pinners, m_initial_page, m_head>>,
           cons[c].control = w.at[k], cons'[c].control = w.at[k],
           "busy" \notin m_next[w.at[k]].flags \/ (Takes(c) /\ ~Takes(c)'),
           TakerOK(w, c)', ManyPlaced(w, c)', cons[c].pc \in {"try_busy", "consuming"},
           cons'[c].pc \notin {"zero", "free_page"}
    PROVE  ConsumerFrame(w, w, k, c)
<1>0. Core(w) /\ consume = "multiple" /\ Beside /\ TypesTrail' /\ Shape(w)
  BY ManyKnown DEF Many
<1>1. w.at[k] \in Block /\ w.at[k] # NoBlock
  BY <1>0, InnerBlock, BlockParts
<1>2. PinsHeld'
  BY <1>1, ManyPins DEF SamePage
<1>3. PagesHeld(w)'
  BY <1>0, PagesStay DEF Leaves
<1> QED
  BY <1>0, <1>2, <1>3, WriteConsumer

\* An element is taken, or another consumer has.
LEMMA ManyTries ==
    ASSUME NEW w, NEW c \in Consumers, Many(w, c), TryBusy(c)
    PROVE  \E k : ConsumerFrame(w, w, k, c)
<1>0. /\ cons \in [Consumers -> Consume] /\ cons' \in [Consumers -> Consume] /\ ConsumerOK(c) /\ Shape(w) /\ WordsTrail(w)
      /\ consume = "multiple" /\ ManyPlaced(w, c) /\ m_next \in [Block -> NextPtr] /\ Core(w) /\ Beside
  BY ManyKnown DEF Many
<1>1. At(c, "try_busy") /\ UNCHANGED <<content, pool, pinners, m_initial_page, m_head>>
  BY DEF TryBusy
<1>2. cons[c].control \in Block /\ cons[c].next.to \in Block /\ cons[c].next \in NextPtr /\ Consumable(cons[c].next)
  BY <1>0, <1>1 DEF ConsumerOK, At, ManyPlaced, Consume
<1>3. PICK i \in Index(w) : Placed(w, c, i)
  BY <1>0, <1>1 DEF ManyPlaced, At
<1>4. /\ Valid(w, i) /\ w.at[i] = cons[c].control /\ cons[c].next.to = w.at[i + 1] /\ i < w.last
      /\ IsEnd(m_next[w.at[i]]) \/ m_next[w.at[i]].to = w.at[i + 1]
      /\ i \in Nat /\ i > 0 /\ w.head \in Nat /\ w.last \in Nat
  BY <1>0, <1>3, ReadWord, TrailFacts DEF Placed
<1>5. PICK b : b = cons[c].control
  OBVIOUS
<1>6. PICK n : n = cons[c].next
  OBVIOUS
<1>7. CASE m_next[b] # n
  <2>1. /\ cons' = [cons EXCEPT ![c].next = m_next[b],
                                ![c].pc = IF IsEnd(m_next[b]) THEN "begin" ELSE "move"]
        /\ m_next' = m_next
    <3>1. m_next[cons[c].control] # cons[c].next
      BY <1>5, <1>6, <1>7
    <3>2. /\ cons' = [cons EXCEPT ![c].next = m_next[cons[c].control],
                                 ![c].pc = IF IsEnd(m_next[cons[c].control]) THEN "begin" ELSE "move"]
          /\ m_next' = m_next
      BY ONLY <3>1, TryBusy(c) DEF TryBusy
    <3> QED
      BY ONLY <3>2, <1>5 DEF IsEnd
  <2>2. /\ ConsumerMoved(c) /\ cons'[c].pc = (IF IsEnd(m_next[b]) THEN "begin" ELSE "move")
        /\ cons'[c].control = b /\ cons'[c].next = m_next[b]
    BY <2>1, <1>0, <1>5 DEF ConsumerMoved, Consume
  <2>3. ~IsEnd(m_next[b]) => Placed(w, c, i)'
    BY <2>2, <1>0, <1>4, <1>5, BesideValid DEF Placed
  <2>4. ManyPlaced(w, c)'
    BY <2>2, <2>3, <1>3 DEF ManyPlaced
  <2>5. PinsHeld'
    BY <2>2, <1>1, <1>2, <1>5, BlockParts, ManyPins DEF SamePage, At
  <2>6. cons[c].pc = "try_busy" /\ cons'[c].pc \in {"begin", "move"}
    BY <2>2, <1>1 DEF At
  <2>7. ConsumerFrame(w, w, 0, c)
    BY <2>1, <2>2, <2>4, <2>5, <2>6, <1>1, ManyCalm
  <2> QED
    BY <2>7
<1>8. CASE m_next[b] = n
  <2>1. m_next[w.at[i]] = n /\ ~IsDead(n) /\ ~IsEnd(n)
    BY <1>2, <1>4, <1>5, <1>6, <1>8, BlockParts DEF Consumable, IsDead, IsEnd
  <2>2. i \in Written(w)
    <3>1. i >= w.head
      <4> SUFFICES ASSUME i < w.head PROVE FALSE
        BY <1>4
      <4>1. i \in 1 .. (w.head - 1)
        BY <1>4
      <4>2. PassedWord(w, i)
        BY <4>1, <1>0, <1>4 DEF WordsTrail
      <4> QED
        BY <4>2, <2>1 DEF PassedWord, Zero, IsEnd
    <3> QED
      BY <3>1, <1>4 DEF Written
  <2>3. Continues(w, i)
    BY <2>1, <2>2, <1>0 DEF WordsTrail, WrittenWord, IsDead
  <2>4. PICK m : m = [n EXCEPT !.flags = @ \cup {"busy"}]
    OBVIOUS
  <2>5. m_next' = [m_next EXCEPT ![w.at[i]] = m]
    <3>1. m_next' = [m_next EXCEPT ![b].flags = @ \cup {"busy"}]
      BY <1>5, <1>6, <1>8 DEF TryBusy
    <3> QED
      BY <3>1, <2>4, <1>0, <1>2, <1>4, <1>5, <1>8
  <2>6. cons' = [cons EXCEPT ![c].pc = "consuming", ![c].next.flags = @ \cup {"dead"}]
    BY <1>5, <1>6, <1>8 DEF TryBusy
  <2>7. /\ ConsumerMoved(c) /\ cons'[c].pc = "consuming" /\ cons'[c].control = b
        /\ cons'[c].next = [n EXCEPT !.flags = @ \cup {"dead"}]
    BY <2>6, <1>0, <1>5, <1>6 DEF ConsumerMoved, Consume
  <2>8. m.to = w.at[i + 1] /\ m = NextWord(n.to, n.flags \cup {"busy"}) /\ n \in NextPtr
    BY <2>4, <1>2, <1>4, <1>6 DEF NextWord, NextPtr
  <2>9. /\ cons'[c].next.to = n.to /\ cons'[c].next.flags = n.flags \cup {"dead"}
    BY <2>7, <2>8 DEF NextPtr
  <2>10. "busy" \notin n.flags /\ "dead" \notin n.flags
    BY <1>2, <1>6 DEF Consumable
  <2>11. m_next'[b] = m
    BY <2>5, <1>0, <1>2, <1>4, <1>5
  <2>12. TakenWord(c)' = m
    <3>1. (cons'[c].next.flags \ {"dead"}) \cup {"busy"} = n.flags \cup {"busy"}
      BY <2>9, <2>10
    <3>2. TakenWord(c)' = NextWord(n.to, n.flags \cup {"busy"})
      BY <3>1, <2>9 DEF TakenWord, NextWord
    <3> QED
      BY <3>2, <2>8
  <2>13. TakerOK(w, c)'
    <3>1. w.at[i] = cons'[c].control /\ cons'[c].next.to = w.at[i + 1]
      BY <1>4, <1>5, <1>6, <2>7, <2>9
    <3>2. m_next'[cons'[c].control] = TakenWord(c)'
      BY <2>7, <2>11, <2>12
    <3>3. "dead" \in cons'[c].next.flags /\ "busy" \notin cons'[c].next.flags
      BY <2>9, <2>10
    <3> QED
      BY <3>1, <3>2, <3>3, <2>2, <2>3 DEF TakerOK
  <2>14. ManyPlaced(w, c)'
    BY <2>7 DEF ManyPlaced
  <2> QED
    BY <2>1, <2>2, <2>3, <2>5, <2>7, <2>8, <2>10, <2>13, <2>14, <1>1, <1>4, <1>5, ManyWrites DEF At
<1> QED
  BY <1>7, <1>8

\* The element is done with, or left for another operation.
LEMMA ManyEnds ==
    ASSUME NEW w, NEW c \in Consumers, Many(w, c), CommitConsume(c) \/ CancelConsume(c)
    PROVE  \E k : ConsumerFrame(w, w, k, c)
<1>0. /\ cons \in [Consumers -> Consume] /\ cons' \in [Consumers -> Consume] /\ Shape(w) /\ TakerOK(w, c)
      /\ m_next \in [Block -> NextPtr] /\ Beside /\ consume = "multiple"
  BY ManyKnown DEF Many
<1>1. At(c, "consuming") /\ UNCHANGED <<content, pool, pinners, m_initial_page, m_head>>
  BY DEF CommitConsume, CancelConsume
<1>2. Takes(c)
  BY <1>1 DEF Takes
<1>3. PICK i \in Written(w) :
        /\ w.at[i] = cons[c].control /\ cons[c].next.to = w.at[i + 1] /\ Continues(w, i)
        /\ m_next[cons[c].control] = TakenWord(c)
        /\ "dead" \in cons[c].next.flags /\ "busy" \notin cons[c].next.flags
  BY <1>0, <1>2 DEF TakerOK
<1>4. ~IsDead(m_next[w.at[i]]) /\ w.at[i] \in Block /\ Valid(w, i) /\ i \in Index(w) /\ i < w.last
  <2>1. /\ i \in 1 .. (w.last - 1) /\ Valid(w, i) /\ w.at[i] \in Block
    BY <1>0, <1>3, InnerBlock
  <2>2. "busy" \in m_next[w.at[i]].flags
    BY <1>3 DEF TakenWord, NextWord
  <2> QED
    BY <2>1, <2>2, <1>0, TrailFacts DEF IsDead, Index
<1>5. CASE CommitConsume(c)
  <2>1. PICK n : n = cons[c].next
    OBVIOUS
  <2>2. m_next' = [m_next EXCEPT ![w.at[i]] = n]
    BY <1>3, <1>5, <2>1 DEF CommitConsume
  <2>3. /\ ConsumerMoved(c) /\ cons'[c].pc = "advance" /\ cons'[c].control = cons[c].control /\ cons'[c].next = n
    BY <1>0, <1>5, <2>1 DEF CommitConsume, ConsumerMoved, Consume
  <2>4. Placed(w, c, i)'
    BY <2>1, <2>3, <1>0, <1>3, <1>4, BesideValid DEF Placed
  <2>5. m_next'[cons'[c].control] = n /\ IsDead(n)
    BY <2>1, <2>2, <2>3, <1>0, <1>3, <1>4 DEF IsDead
  <2>6. ManyPlaced(w, c)'
    BY <2>3, <2>4, <2>5, <1>4 DEF ManyPlaced
  <2>7. TakerOK(w, c)' /\ ~Takes(c)'
    BY <2>3 DEF TakerOK, Takes, At
  <2>8. n.to = w.at[i + 1]
    BY <2>1, <1>3
  <2> QED
    BY <2>2, <2>3, <2>6, <2>7, <2>8, <1>1, <1>2, <1>3, <1>4, ManyWrites DEF At
<1>6. CASE CancelConsume(c)
  <2>1. PICK n : n = NextWord(cons[c].next.to, cons[c].next.flags \ {"dead"})
    OBVIOUS
  <2>2. m_next' = [m_next EXCEPT ![w.at[i]] = n]
    BY <1>3, <1>6, <2>1 DEF CancelConsume
  <2>3. ConsumerMoved(c) /\ cons'[c].pc = "idle" /\ cons'[c].control = cons[c].control
    BY <1>0, <1>6 DEF CancelConsume, ConsumerMoved, Consume
  <2>6. ManyPlaced(w, c)'
    BY <2>3 DEF ManyPlaced
  <2>7. TakerOK(w, c)' /\ ~Takes(c)'
    BY <2>3 DEF TakerOK, Takes, At
  <2>8. n.to = w.at[i + 1]
    BY <2>1, <1>3 DEF NextWord
  <2> QED
    BY <2>2, <2>3, <2>6, <2>7, <2>8, <1>1, <1>2, <1>3, <1>4, ManyWrites DEF At
<1> QED
  BY <1>5, <1>6

\* The head goes to the next block; the consumer that moves it has left the
\* page if that is in another one.
LEMMA PagesAdvance ==
    ASSUME NEW w, Core(w), NEW c \in Consumers, ConsumerMoved(c), Beside, UNCHANGED pool, w.head < w.last,
           NEW v, v = Advanced(w), ~Leaves(c), Leaves(c)' <=> ~Continues(w, w.head),
           cons'[c].control = w.at[w.head],
           \A d \in Consumers \ {c} : Leaves(d) => ~SamePage(cons[d].control, w.at[w.head])
    PROVE  PagesHeld(v)'
<1>0. /\ Shape(w) /\ w.head \in Nat /\ w.last \in Nat /\ v.head = w.head + 1 /\ v.last = w.last /\ v.at = w.at
      /\ PagesHeld(w) /\ w.head > 0
  BY TrailFacts, AdvancedFacts DEF Core, Shape
<1>1. \A x : New(x)' <=> New(x)
  BY BesideNew
<1>2. \A d \in Consumers \ {c} : (Leaves(d)' <=> Leaves(d)) /\ cons'[d].control = cons[d].control
  BY DEF ConsumerMoved, Leaves
<1>3. \A i : i \in Live(w) <=> i = w.head \/ i \in Live(v)
  BY <1>0 DEF Live
<1>4. \A x, i : In(v, i, x) <=> In(w, i, x)
  BY <1>0 DEF In
<1>5. w.head + 1 \in Live(v) /\ (Continues(w, w.head) => \A x : In(w, w.head, x) => In(w, w.head + 1, x))
  BY <1>0 DEF Live, Continues, In, SamePage
<1>6. \A x \in Pages : pool'[x] = "queue" <=>
           \/ \E i \in Live(v) : In(v, i, x)
           \/ New(x)'
           \/ \E d \in Consumers : Leaves(d)' /\ PageOf(cons'[d].control) = x
  <2> SUFFICES ASSUME NEW x \in Pages
               PROVE pool[x] = "queue" <=>
                       \/ \E i \in Live(v) : In(v, i, x)
                       \/ New(x)
                       \/ \E d \in Consumers : Leaves(d)' /\ PageOf(cons'[d].control) = x
    BY <1>1
  <2>1. pool[x] = "queue" <=>
           \/ \E i \in Live(w) : In(w, i, x)
           \/ New(x)
           \/ \E d \in Consumers : Leaves(d) /\ PageOf(cons[d].control) = x
    BY <1>0 DEF PagesHeld
  <2>2. (\E i \in Live(w) : In(w, i, x)) <=> In(w, w.head, x) \/ \E i \in Live(v) : In(v, i, x)
    BY <1>3, <1>4
  <2>3. (\E d \in Consumers : Leaves(d)' /\ PageOf(cons'[d].control) = x) <=>
           \/ \E d \in Consumers : Leaves(d) /\ PageOf(cons[d].control) = x
           \/ ~Continues(w, w.head) /\ In(w, w.head, x)
    BY <1>2 DEF In
  <2>4. Continues(w, w.head) /\ In(w, w.head, x) => \E i \in Live(v) : In(v, i, x)
    BY <1>4, <1>5
  <2> QED
    BY <2>1, <2>2, <2>3, <2>4
<1>7. \A d, e \in Consumers : Leaves(d)' /\ Leaves(e)' /\ d # e => ~SamePage(cons'[d].control, cons'[e].control)
  <2>1. \A d, e \in Consumers \ {c} : Leaves(d)' /\ Leaves(e)' /\ d # e => ~SamePage(cons'[d].control, cons'[e].control)
    BY <1>0, <1>2 DEF PagesHeld
  <2>2. \A d \in Consumers \ {c} : Leaves(d)' => ~SamePage(cons'[d].control, cons'[c].control)
    BY <1>2
  <2> QED
    BY <2>1, <2>2 DEF SamePage
<1> QED
  BY <1>6, <1>7 DEF PagesHeld

\* The page that a consumer has left is given back.
LEMMA PagesFreed ==
    ASSUME NEW w, Core(w), NEW c \in Consumers, ConsumerMoved(c), Beside, Leaves(c), ~Leaves(c)',
           NEW y \in Pages, y = PageOf(cons[c].control), pool' = [pool EXCEPT ![y] = "uninitialized"],
           \A i \in Live(w) : PageOf(w.at[i]) # y, ~New(y)
    PROVE  PagesHeld(w)'
<1>0. PagesHeld(w) /\ pool \in [Pages -> {"zeroed", "uninitialized", "queue"}]
  BY DEF Core, Shape, TypesTrail, TypeOK, BaseTypeOK
<1>1. \A x : New(x)' <=> New(x)
  BY BesideNew
<1>2. \A d \in Consumers \ {c} : (Leaves(d)' <=> Leaves(d)) /\ cons'[d].control = cons[d].control
  BY DEF ConsumerMoved, Leaves
<1>3. \A d \in Consumers \ {c} : Leaves(d) => PageOf(cons[d].control) # y
  BY <1>0 DEF PagesHeld, SamePage
<1>4. \A x \in Pages : pool'[x] = "queue" <=>
           \/ \E i \in Live(w) : In(w, i, x)
           \/ New(x)'
           \/ \E d \in Consumers : Leaves(d)' /\ PageOf(cons'[d].control) = x
  <2> SUFFICES ASSUME NEW x \in Pages
               PROVE pool'[x] = "queue" <=>
                       \/ \E i \in Live(w) : In(w, i, x)
                       \/ New(x)
                       \/ \E d \in Consumers \ {c} : Leaves(d) /\ PageOf(cons[d].control) = x
    BY <1>1, <1>2
  <2>1. CASE x = y
    <3>1. pool'[x] # "queue"
      BY <1>0, <2>1
    <3> QED
      BY <3>1, <2>1, <1>3 DEF In
  <2>2. CASE x # y
    <3>1. pool'[x] = pool[x]
      BY <1>0, <2>2
    <3> QED
      BY <3>1, <2>2, <1>0 DEF PagesHeld
  <2> QED
    BY <2>1, <2>2
<1>5. \A d, e \in Consumers : Leaves(d)' /\ Leaves(e)' /\ d # e => ~SamePage(cons'[d].control, cons'[e].control)
  BY <1>0, <1>2 DEF PagesHeld
<1> QED
  BY <1>4, <1>5 DEF PagesHeld

\* The page of a block that is the last of its life, with the head beyond.
LEMMA LeftBehind ==
    ASSUME NEW w, Shape(w), NEW i, Valid(w, i), i < w.last, ~Continues(w, i)
    PROVE  /\ \A j \in Nat : i < j /\ j <= w.last => ~SamePage(w.at[i], w.at[j])
           /\ PageOf(w.at[i]) \in Pages /\ ~New(PageOf(w.at[i]))
<1>1. i \in Nat /\ w.last \in Nat /\ w.at[i] \in Block
  BY SameLife, TrailFacts
<1>2. \A j \in i + 1 .. w.last : ~SamePage(w.at[i], w.at[j])
  BY SameLife
<1>3. \A j \in Nat : i < j /\ j <= w.last => j \in i + 1 .. w.last
  BY <1>1
<1>4. PageOf(w.at[i]) \in Pages
  BY <1>1, BlockParts
<1> QED
  BY <1>2, <1>3, <1>4 DEF Valid

\* The pages that the other consumers have left.
LEMMA ManyLeft ==
    ASSUME NEW w, Core(w), consume = "multiple", NEW d \in Consumers, Leaves(d)
    PROVE  /\ \A j \in Live(w) : ~SamePage(cons[d].control, w.at[j])
           /\ PageOf(cons[d].control) \in Pages /\ ~New(PageOf(cons[d].control))
           /\ \E i \in Index(w) : Placed(w, d, i) /\ i < w.head /\ ~Continues(w, i)
<1>1. Shape(w) /\ ManyPlaced(w, d)
  BY DEF Core, TakersOK
<1>2. PICK i \in Index(w) : Placed(w, d, i) /\ i < w.head /\ ~Continues(w, i)
  BY <1>1 DEF ManyPlaced, Leaves
<1>3. /\ \A j \in Nat : i < j /\ j <= w.last => ~SamePage(w.at[i], w.at[j])
      /\ PageOf(w.at[i]) \in Pages /\ ~New(PageOf(w.at[i]))
  BY <1>1, <1>2, LeftBehind DEF Placed
<1>4. \A j \in Live(w) : j \in Nat /\ i < j /\ j <= w.last
  BY <1>1, <1>2, TrailFacts DEF Live, Index
<1> QED
  BY <1>2, <1>3, <1>4 DEF Placed

\* The head goes past a dead block.
LEMMA HeadMoves ==
    ASSUME NEW w, Core(w), TypesTrail', Beside, w.head < w.last, m_head # NoBlock, m_head' = w.at[w.head + 1],
           UNCHANGED <<m_next, m_initial_page>>, IsDead(m_next[w.at[w.head]]), NEW v, v = Advanced(w)
    PROVE  /\ Frame(w, v, {}, 0) /\ v.last = w.last /\ v.head = w.head + 1 /\ v.at = w.at /\ v.base = w.base
           /\ \A i : Valid(v, i)' <=> Valid(w, i)
<1>1. (\A x : New(x)' <=> New(x)) /\ m_tail' = m_tail /\ Shape(w)
  BY BesideNew DEF Core
<1>2. Shape(v)' /\ Keeps(w, v, {})
  BY <1>1, TrailAdvances
<1>3. v.last = w.last /\ v.head = w.head + 1 /\ v.at = w.at /\ v.base = w.base
  BY <1>1, AdvancedFacts DEF Shape
<1>4. \A i : Valid(v, i)' <=> Valid(w, i)
  BY <1>1, <1>3 DEF Valid, Index
<1> QED
  BY <1>1, <1>2, <1>3, <1>4 DEF Frame, Change, Beside

\* The compare and exchange of the head, in advance_head.
LEMMA ManyAdvances ==
    ASSUME NEW w, NEW c \in Consumers, Many(w, c), AdvanceHead(c)
    PROVE  \E v : ConsumerFrame(w, v, 0, c)
<1>0. /\ cons \in [Consumers -> Consume] /\ cons' \in [Consumers -> Consume] /\ ConsumerOK(c) /\ Shape(w) /\ WordsTrail(w)
      /\ consume = "multiple" /\ ManyPlaced(w, c) /\ Core(w) /\ Beside /\ TypesTrail'
  BY ManyKnown DEF Many
<1>1. At(c, "advance") /\ UNCHANGED baseVars
  BY DEF AdvanceHead
<1>2. cons[c].control \in Block /\ cons[c].next.to \in Block /\ IsDead(cons[c].next)
  BY <1>0, <1>1 DEF ConsumerOK, At, ManyPlaced
<1>3. PICK i \in Index(w) : Placed(w, c, i) /\ (i >= w.head => m_next[cons[c].control] = cons[c].next)
  BY <1>0, <1>1 DEF ManyPlaced, At
<1>4. /\ Valid(w, i) /\ w.at[i] = cons[c].control /\ cons[c].next.to = w.at[i + 1] /\ i < w.last
      /\ i \in Nat /\ i > 0 /\ w.head \in Nat /\ w.last \in Nat
  BY <1>0, <1>3, TrailFacts DEF Placed, Index
<1>5. UNCHANGED pinners /\ cons[c].control # NoBlock
  BY <1>1, <1>2, BlockParts DEF baseVars
<1>6. CASE m_head # cons[c].control
  <2>1. Goto(c, "move") /\ m_head' = m_head
    BY <1>6 DEF AdvanceHead
  <2>2. ConsumerMoved(c) /\ cons'[c].pc = "move" /\ cons'[c].control = cons[c].control /\ cons'[c].next = cons[c].next
    BY <2>1, <1>0, ConsumerGoes
  <2>3. Placed(w, c, i)'
    BY <2>2, <1>0, <1>4, BesideValid DEF Placed
  <2>4. ManyPlaced(w, c)'
    BY <2>2, <2>3, <1>3 DEF ManyPlaced
  <2>5. PinsHeld'
    BY <2>2, <1>1, <1>5, ManyPins DEF SamePage, At
  <2>6. ConsumerFrame(w, w, 0, c)
    BY <2>1, <2>2, <2>4, <2>5, <1>1, ManyCalm DEF At, baseVars
  <2> QED
    BY <2>6
<1>7. CASE m_head = cons[c].control
  <2>1. m_head # NoBlock /\ m_head = w.at[w.head] /\ w.last > 0
    BY <1>0, <1>5, <1>7, HeadPlace
  <2>2. Valid(w, w.head)
    BY <2>1, <1>0, TrailFacts
  <2>3. i = w.head
    <3>1. PICK j : j = w.head
      OBVIOUS
    <3>2. Valid(w, j) /\ w.at[i] = w.at[j]
      BY <2>1, <2>2, <3>1, <1>4, <1>7
    <3> QED
      BY <3>1, <3>2, <1>0, <1>4, OnePlace
  <2>4. m_head' = w.at[w.head + 1] /\ w.head < w.last /\ m_next[w.at[w.head]] = cons[c].next
    BY <2>3, <1>3, <1>4, <1>7 DEF AdvanceHead
  <2>5. ~Continues(w, i) => cons[c].next.flags = {"dead"}
    <3>1. i \in Written(w)
      BY <2>3, <1>4 DEF Written
    <3> QED
      BY <3>1, <2>3, <2>4, <1>0 DEF WordsTrail, WrittenWord
  <2>6. SamePage(cons[c].control, cons[c].next.to) <=> Continues(w, i)
    BY <1>4 DEF Continues
  <2>7. PICK pc : /\ Goto(c, pc) /\ pc = IF "external" \in cons[c].next.flags THEN "free_external"
                                       ELSE AfterAdvance(cons[c].control, cons[c].next)
    BY <1>7 DEF AdvanceHead
  <2>8. IF Continues(w, i) THEN pc \in {"free_external", "move"} ELSE pc = "zero"
    BY <2>5, <2>6, <2>7, LayersAssumption DEF AfterAdvance
  <2>9. ConsumerMoved(c) /\ cons'[c].pc = pc /\ cons'[c].control = cons[c].control /\ cons'[c].next = cons[c].next
    BY <2>7, <1>0, ConsumerGoes
  <2>10. PICK v : v = Advanced(w)
    OBVIOUS
  <2>11. /\ Frame(w, v, {}, 0) /\ v.last = w.last /\ v.head = w.head + 1 /\ v.at = w.at /\ v.base = w.base
         /\ \A j : Valid(v, j)' <=> Valid(w, j)
    BY <2>1, <2>4, <2>10, <1>0, <1>1, <1>2, HeadMoves DEF baseVars
  <2>12. Placed(v, c, i)' /\ i \in Index(v) /\ i < v.head /\ (Continues(v, i) <=> Continues(w, i))
    BY <2>3, <2>9, <2>11, <1>4, <1>3 DEF Placed, Continues, Index
  <2>13. ManyPlaced(v, c)'
    BY <2>8, <2>9, <2>12 DEF ManyPlaced
  <2>14. PinsHeld'
    BY <2>9, <1>1, <1>5, ManyPins DEF SamePage, At
  <2>15. ~Leaves(c) /\ (Leaves(c)' <=> ~Continues(w, w.head))
    BY <2>3, <2>6, <2>8, <2>9, <1>1 DEF Leaves, At
  <2>16. \A d \in Consumers \ {c} : Leaves(d) => ~SamePage(cons[d].control, w.at[w.head])
    <3>1. w.head \in Live(w)
      BY <2>4, <1>4 DEF Live
    <3> QED
      BY <3>1, <1>0, ManyLeft
  <2>17. PagesHeld(v)'
    BY <2>3, <2>4, <2>9, <2>10, <2>15, <2>16, <1>0, <1>1, <1>4, PagesAdvance DEF baseVars
  <2>18. TakerOK(v, c)' /\ ~Takes(c)'
    BY <2>8, <2>9 DEF TakerOK, Takes, At
  <2>19. m_next' = m_next /\ UNCHANGED <<content, m_initial_page>>
    BY <1>1 DEF baseVars
  <2>20. ConsumerFrame(w, v, 0, c)
    BY <2>9, <2>11, <2>13, <2>14, <2>17, <2>18, <2>19, <1>0 DEF ConsumerFrame, Writes, Beside
  <2> QED
    BY <2>20
<1> QED
  BY <1>6, <1>7

\* The external block of the element that was passed is freed.
LEMMA ManyFrees ==
    ASSUME NEW w, NEW c \in Consumers, Many(w, c), FreeExternal(c)
    PROVE  ConsumerFrame(w, w, 0, c)
<1>0. /\ cons \in [Consumers -> Consume] /\ cons' \in [Consumers -> Consume] /\ ConsumerOK(c) /\ Shape(w)
      /\ ManyPlaced(w, c) /\ Beside
  BY ManyKnown DEF Many
<1>1. At(c, "free_external") /\ UNCHANGED <<m_next, content, pool, pinners, m_initial_page, m_head>>
  BY DEF FreeExternal
<1>2. cons[c].control \in Block /\ cons[c].control # NoBlock
  BY <1>0, <1>1, BlockParts DEF ConsumerOK, At
<1>3. PICK i \in Index(w) : Placed(w, c, i) /\ Continues(w, i)
  BY <1>0, <1>1 DEF ManyPlaced, At
<1>4. SamePage(cons[c].control, cons[c].next.to)
  BY <1>3 DEF Placed, Continues
<1>5. Goto(c, "move")
  BY <1>4, LayersAssumption DEF FreeExternal, AfterAdvance
<1>6. ConsumerMoved(c) /\ cons'[c].pc = "move" /\ cons'[c].control = cons[c].control /\ cons'[c].next = cons[c].next
  BY <1>5, <1>0, ConsumerGoes
<1>7. Placed(w, c, i)'
  BY <1>6, <1>0, <1>3, BesideValid DEF Placed
<1>8. ManyPlaced(w, c)'
  BY <1>6, <1>7, <1>3 DEF ManyPlaced
<1>9. PinsHeld'
  BY <1>6, <1>1, <1>2, ManyPins DEF SamePage, At
<1> QED
  BY <1>1, <1>6, <1>8, <1>9, ManyCalm DEF At

\* The end of the page that has been left is zeroed.
LEMMA ManyZeroes ==
    ASSUME NEW w, NEW c \in Consumers, Many(w, c), ZeroControl(c)
    PROVE  \E k : ConsumerFrame(w, w, k, c)
<1>0. /\ cons \in [Consumers -> Consume] /\ cons' \in [Consumers -> Consume] /\ ConsumerOK(c) /\ Shape(w)
      /\ ManyPlaced(w, c) /\ Beside /\ TypesTrail' /\ Core(w) /\ consume = "multiple" /\ m_next \in [Block -> NextPtr]
  BY ManyKnown DEF Many
<1>1. At(c, "zero") /\ UNCHANGED <<content, pool, pinners, m_initial_page, m_head>>
  BY DEF ZeroControl
<1>2. cons[c].control \in Block /\ cons[c].control # NoBlock
  BY <1>0, <1>1, BlockParts DEF ConsumerOK, At
<1>3. PICK i \in Index(w) : Placed(w, c, i) /\ i < w.head /\ ~Continues(w, i)
  BY <1>0, <1>1 DEF ManyPlaced, At
<1>4. w.at[i] = cons[c].control /\ Valid(w, i) /\ i \in 1 .. (w.head - 1) /\ w.last \in Nat /\ w.head \in Nat
      /\ ~SamePage(cons[c].control, cons[c].next.to)
  BY <1>0, <1>3, TrailFacts DEF Placed, Index, Continues
<1>5. Goto(c, "free_page") /\ m_next' = [m_next EXCEPT ![w.at[i]] = Zero]
  BY <1>4 DEF ZeroControl
<1>6. ConsumerMoved(c) /\ cons'[c].pc = "free_page" /\ cons'[c].control = cons[c].control /\ cons'[c].next = cons[c].next
  BY <1>5, <1>0, ConsumerGoes
<1>7. Placed(w, c, i)'
  BY <1>6, <1>0, <1>3, BesideValid DEF Placed
<1>8. ManyPlaced(w, c)'
  BY <1>6, <1>7, <1>3 DEF ManyPlaced
<1>9. PinsHeld'
  BY <1>6, <1>1, <1>2, ManyPins DEF SamePage, At
<1>10. PagesHeld(w)'
  BY <1>0, <1>1, <1>4, <1>6, PagesStay DEF Leaves, At
<1>11. Shape(w)' /\ Keeps(w, w, {})
  BY <1>0, <1>1, SameTrail
<1>12. \A j \in 1 .. (w.last - 1) : Valid(w, j) /\ j # i => m_next'[w.at[j]] = m_next[w.at[j]]
  <2> SUFFICES ASSUME NEW j \in 1 .. (w.last - 1), Valid(w, j), j # i PROVE m_next'[w.at[j]] = m_next[w.at[j]]
    OBVIOUS
  <2>1. w.at[j] # w.at[i]
    BY <1>0, <1>4, OnePlace
  <2> QED
    BY <2>1, <1>0, <1>4, <1>5, SameLife
<1>13. m_next'[w.at[i]] = Zero
  BY <1>0, <1>2, <1>4, <1>5
<1>14. Frame(w, w, {}, i)
  BY <1>0, <1>3, <1>4, <1>11, <1>12, <1>13 DEF Frame, Change, Beside
<1>15. TakerOK(w, c)' /\ ~Takes(c)'
  BY <1>6 DEF TakerOK, Takes, At
<1>16. ConsumerFrame(w, w, i, c)
  BY <1>0, <1>1, <1>4, <1>5, <1>6, <1>8, <1>9, <1>10, <1>14, <1>15 DEF ConsumerFrame, Writes, Beside
<1> QED
  BY <1>16

\* And the page is given back.
LEMMA ManyGives ==
    ASSUME NEW w, NEW c \in Consumers, Many(w, c), DeallocatePage(c)
    PROVE  ConsumerFrame(w, w, 0, c)
<1>0. /\ cons \in [Consumers -> Consume] /\ cons' \in [Consumers -> Consume] /\ ConsumerOK(c) /\ Shape(w)
      /\ ManyPlaced(w, c) /\ Beside /\ TypesTrail' /\ Core(w) /\ consume = "multiple"
  BY ManyKnown DEF Many
<1>1. At(c, "free_page") /\ UNCHANGED <<m_next, content, pinners, m_initial_page, m_head>> /\ Goto(c, "move")
  BY DEF DeallocatePage
<1>2. cons[c].control \in Block /\ cons[c].control # NoBlock
  BY <1>0, <1>1, BlockParts DEF ConsumerOK, At
<1>3. PICK i \in Index(w) : Placed(w, c, i) /\ i < w.head /\ ~Continues(w, i)
  BY <1>0, <1>1 DEF ManyPlaced, At
<1>4. Leaves(c)
  BY <1>1, <1>3 DEF Leaves, At, Placed, Continues
<1>5. ConsumerMoved(c) /\ cons'[c].pc = "move" /\ cons'[c].control = cons[c].control /\ cons'[c].next = cons[c].next
  BY <1>1, <1>0, ConsumerGoes
<1>6. ~Leaves(c)'
  BY <1>5 DEF Leaves
<1>7. Placed(w, c, i)'
  BY <1>5, <1>0, <1>3, BesideValid DEF Placed
<1>8. ManyPlaced(w, c)'
  BY <1>5, <1>7, <1>3 DEF ManyPlaced
<1>9. PinsHeld'
  BY <1>5, <1>1, <1>2, ManyPins DEF SamePage, At
<1>10. PICK y : y = PageOf(cons[c].control)
  OBVIOUS
<1>11. y \in Pages /\ ~New(y) /\ \A j \in Live(w) : PageOf(w.at[j]) # y
  BY <1>0, <1>4, <1>10, ManyLeft DEF SamePage
<1>12. pool' = [pool EXCEPT ![y] = "uninitialized"]
  BY <1>10, LayersAssumption DEF DeallocatePage
<1>13. PagesHeld(w)'
  BY <1>0, <1>4, <1>5, <1>6, <1>10, <1>11, <1>12, PagesFreed
<1> QED
  BY <1>0, <1>1, <1>5, <1>8, <1>9, <1>13, CalmConsumer DEF Takes, At

\* Every step of one of many consumers.
LEMMA ManyFrame ==
    ASSUME NEW w, NEW c \in Consumers, Many(w, c)
    PROVE  \E v, k : ConsumerFrame(w, v, k, c)
<1>1. /\ ~Memset(c)
  <2>1. ManyPlaced(w, c)
    BY ManyKnown
  <2> QED
    BY <2>1 DEF Memset, At, ManyPlaced
<1>2. CASE \/ Start(c, "consume") \/ Start(c, "empty") \/ Return(c) \/ LoadHead(c) \/ ReloadHead(c)
           \/ LoadInitialPage(c) \/ InitHead(c) \/ LoadHeadNext(c) \/ LoadNext(c)
  <2>1. ConsumerFrame(w, w, 0, c)
    BY <1>2, ManyStarts, ManyReadsHead, ManyReadsPage, ManyInitHead, ManyReads
  <2> QED
    BY <2>1
<1>3. CASE PinHead(c) \/ UnpinOld(c) \/ UnpinLeft(c) \/ DestroyConsume(c) \/ MoveNext(c) \/ Reread(c)
           \/ FreeExternal(c) \/ DeallocatePage(c)
  <2>1. ConsumerFrame(w, w, 0, c)
    BY <1>3, ManyPinsHead, ManyUnpins, ManyMoves, ManyRereads, ManyFrees, ManyGives
  <2> QED
    BY <2>1
<1>4. CASE TryBusy(c) \/ CommitConsume(c) \/ CancelConsume(c) \/ ZeroControl(c)
  BY <1>4, ManyTries, ManyEnds, ManyZeroes
<1>5. CASE AdvanceHead(c)
  BY <1>5, ManyAdvances
<1> QED
  BY <1>1, <1>2, <1>3, <1>4, <1>5 DEF Many, ConsumerNext, ConsumerStep

\* A step of the single consumer.
One(w, c) == Core(w) /\ consume = "single" /\ SingleConsumeNext(c) /\ Beside

\* What is known of the single consumer, and of its Consume.
LEMMA OneKnown ==
    ASSUME NEW w, NEW c \in Consumers, One(w, c)
    PROVE  /\ Shape(w) /\ Core(w) /\ cons \in [Consumers -> Consume] /\ cons[c] \in Consume /\ Beside /\ consume = "single"
           /\ OnePlaced(w, c) /\ TakerOK(w, c) /\ PinsHeld /\ WordsTrail(w) /\ OnlyConsume(c) /\ TypesTrail
           /\ BaseTypeOK /\ HeadTypeOK /\ WordsOK
           /\ m_next \in [Block -> NextPtr] /\ EndsOK(w) /\ StepsOK(w)
<1>1. TakersOK(w) /\ consume = "single" /\ Shape(w) /\ cons \in [Consumers -> Consume]
  BY DEF One, Core, Shape, TypesTrail, TypeOK, HeadTypeOK
<1>2. OnlyConsume(c)
  <2>1. CASE \/ StartSingle(c, "consume") \/ StartSingle(c, "empty")
             \/ OnlyConsume(c) /\ (CommitConsume(c) \/ CancelPlain(c))
    BY <2>1 DEF StartSingle
  <2>2. CASE SingleConsumeStep(c)
    <3>1. cons[c].pc \notin {"idle", "consuming"}
      BY <2>2 DEF SingleConsumeStep, InitHeadPlain, EnterHead, Take, ReturnPlain, AdvancePlain, DeallocatePage,
                  MoveNextPlain, At
    <3> QED
      BY <3>1, <1>1 DEF TakersOK, OnlyConsume
  <2> QED
    BY <2>1, <2>2 DEF One, SingleConsumeNext
<1> QED
  BY <1>1, <1>2 DEF One, Core, Shape, TakersOK, TypesTrail, TypeOK, BaseTypeOK

\* Under the layer for one consumer, nobody else is in a page it has left.
LEMMA OneLeaves ==
    ASSUME NEW c \in Consumers, OnlyConsume(c)
    PROVE  \A d \in Consumers \ {c} : ~Leaves(d)
  BY DEF OnlyConsume, Leaves

\* The types after a step that only moves the Consume, or the head.
LEMMA OneMoved ==
    ASSUME NEW w, NEW c \in Consumers, One(w, c), cons' \in [Consumers -> Consume], m_head' \in BlockOrNull,
           BaseTypeOK', WordsOK', sawEmpty' \subseteq Consumers, waiting' \in [Consumers -> SUBSET Element]
    PROVE  TypesTrail'
<1>1. HeadTypeOK'
  BY DEF HeadTypeOK
<1> QED
  BY <1>1, OneKnown, OneTypes

\* Nothing is written, and the consumer does not come to take an element.
LEMMA OneCalm ==
    ASSUME NEW w, NEW c \in Consumers, One(w, c), NEW r \in Consume, cons' = [cons EXCEPT ![c] = r],
           UNCHANGED baseVars,
           sawEmpty' \subseteq Consumers, waiting' \in [Consumers -> SUBSET Element],
           \/ m_head' = m_head
           \/ m_head = NoBlock /\ m_initial_page # NoPage /\ m_head' = FirstBlock(m_initial_page),
           OnePlaced(w, c)', ~Leaves(c), r.pc \notin {"zero", "free_page", "consuming"}
    PROVE  ConsumerFrame(w, w, 0, c)
<1>0. /\ Core(w) /\ cons \in [Consumers -> Consume] /\ Beside /\ consume = "single" /\ OnlyConsume(c)
      /\ BaseTypeOK /\ WordsOK /\ HeadTypeOK /\ PinsHeld
  BY OneKnown
<1>1. ConsumerMoved(c) /\ cons'[c] = r
  BY <1>0, ConsumerSet
<1>2. BaseTypeOK' /\ WordsOK'
  BY <1>0 DEF BaseTypeOK, WordsOK, baseVars
<1>3. m_head' \in BlockOrNull
  BY <1>0, BlockParts DEF HeadTypeOK, BaseTypeOK, BlockOrNull
<1>4. TypesTrail'
  BY <1>1, <1>2, <1>3, OneMoved DEF ConsumerMoved
<1>5. ~Leaves(c)' /\ ~Takes(c)'
  BY <1>1 DEF Leaves, Takes, At
<1>6. PagesHeld(w)'
  BY <1>0, <1>1, <1>5, PagesStay DEF baseVars
<1>7. PinsHeld'
  BY <1>0, <1>1, PinsStay DEF baseVars
<1>8. UNCHANGED <<m_next, content, m_initial_page>>
  BY DEF baseVars
<1> QED
  BY <1>0, <1>1, <1>4, <1>5, <1>6, <1>7, <1>8, CalmConsumer

\* The record of a Consume that has read the word n of the block b.
PlainConsume(m, b, n) ==
    LET to == AfterLoad(m, n)
    IN IF to = "idle" THEN NewConsume
       ELSE [NewConsume EXCEPT !.pc = to, !.mode = m, !.control = b, !.next = n]

\* What that record is.
LEMMA PlainRecord ==
    ASSUME NEW m \in Mode, NEW b \in BlockOrNull, NEW n \in NextPtr, NEW to, to = AfterLoad(m, n),
           NEW r, r = PlainConsume(m, b, n)
    PROVE  /\ r \in Consume /\ r.pc = to /\ (to # "idle" => r.control = b /\ r.next = n)
           /\ to = "idle" => r.control = NoBlock
           /\ to \in {"nothing", "found", "try_busy", "advance", "move", "idle"}
           /\ to \in {"try_busy", "advance", "move"} => ~IsEnd(n) \/ IsDead(n)
           /\ to = "try_busy" => Consumable(n)
           /\ to = "advance" => IsDead(n)
           /\ NewConsume \in Consume
<1>1. m \in {"consume", "empty", "clean"}
  BY DEF Mode
<1>2. /\ to \in {"nothing", "found", "try_busy", "advance", "move", "idle"}
      /\ to \in {"try_busy", "advance", "move"} => ~IsEnd(n) \/ IsDead(n)
      /\ to = "try_busy" => Consumable(n)
      /\ to = "advance" => IsDead(n)
  BY <1>1 DEF AfterLoad
<1>3. to \in ConsumerPC /\ "idle" \in ConsumerPC /\ "consume" \in Mode
  BY <1>2 DEF ConsumerPC, Mode
<1>4. NewConsume = [pc |-> "idle", mode |-> "consume", control |-> NoBlock, next |-> Zero, target |-> NoBlock]
  BY DEF NewConsume
<1>5. NewConsume \in Consume
  BY <1>3, <1>4, Nulls DEF Consume
<1>6. to # "idle" => r = [pc |-> to, mode |-> m, control |-> b, next |-> n, target |-> NoBlock]
  BY <1>4 DEF PlainConsume
<1>7. r \in Consume
  BY <1>3, <1>5, <1>6, Nulls DEF Consume, PlainConsume
<1>8. to # "idle" => r.pc = to /\ r.control = b /\ r.next = n
  BY <1>6
<1>9. to = "idle" => r.pc = to /\ r.control = NoBlock
  BY <1>4 DEF PlainConsume
<1> QED
  BY <1>2, <1>5, <1>7, <1>8, <1>9

\* The single consumer has read the word of a block.
LEMMA OneEntered ==
    ASSUME NEW w, NEW c \in Consumers, One(w, c), NEW i \in Live(w), NEW b, b = w.at[i], NEW n, n = m_next[b],
           EnterPlain(c, b, n), UNCHANGED <<baseVars, m_head, history>>, ~Leaves(c)
    PROVE  ConsumerFrame(w, w, 0, c)
<1>0. /\ Shape(w) /\ Core(w) /\ cons \in [Consumers -> Consume] /\ cons[c] \in Consume /\ Beside /\ HeadTypeOK
  BY OneKnown
<1>1. Valid(w, i) /\ w.head \in Nat /\ w.last \in Nat /\ w.head > 0 /\ i >= w.head
  BY <1>0, TrailFacts DEF Live
<1>2. /\ IsEnd(n) \/ (i < w.last /\ n.to = w.at[i + 1])
      /\ b \in Block /\ n \in NextPtr /\ i \in Nat /\ i > 0 /\ i <= w.last
      /\ IsDead(n) => ~IsEnd(n)
  BY <1>0, <1>1, ReadWord
<1>3. PICK m \in Mode : m = cons[c].mode
  BY <1>0 DEF Consume
<1>4. PICK to : to = AfterLoad(m, n)
  OBVIOUS
<1>5. PICK r : r = PlainConsume(m, b, n)
  OBVIOUS
<1>6. b \in BlockOrNull
  BY <1>2 DEF BlockOrNull
<1>7. /\ r \in Consume /\ r.pc = to /\ (to # "idle" => r.control = b /\ r.next = n)
      /\ to = "idle" => r.control = NoBlock
      /\ to \in {"nothing", "found", "try_busy", "advance", "move", "idle"}
      /\ to \in {"try_busy", "advance", "move"} => ~IsEnd(n)
      /\ to = "try_busy" => Consumable(n)
      /\ to = "advance" => IsDead(n)
  BY <1>2, <1>4, <1>5, <1>6, PlainRecord
<1>8. cons' = [cons EXCEPT ![c] = r]
  BY <1>3, <1>5 DEF EnterPlain, PlainConsume
<1>9. cons'[c] = r
  BY <1>0, <1>7, <1>8, ConsumerSet
<1>10. to \in {"try_busy", "advance", "move"} =>
          /\ i \in Written(w) /\ Placed(w, c, i)' /\ m_next'[r.control] = r.next
          /\ i + 1 \in Live(w) /\ r.next.to = w.at[i + 1]
  <2> SUFFICES ASSUME to \in {"try_busy", "advance", "move"}
               PROVE  /\ i \in Written(w) /\ Placed(w, c, i)' /\ m_next'[r.control] = r.next
                      /\ i + 1 \in Live(w) /\ r.next.to = w.at[i + 1]
    OBVIOUS
  <2>1. i < w.last /\ n.to = w.at[i + 1] /\ r.control = b /\ r.next = n
    BY <1>2, <1>7
  <2>2. i \in Written(w) /\ i + 1 \in Live(w)
    BY <2>1, <1>1, <1>2 DEF Written, Live
  <2>3. Valid(w, i)'
    BY <1>0, <1>1, BesideValid
  <2> QED
    BY <2>1, <2>2, <2>3, <1>9 DEF Placed, baseVars
<1>11. OnePlaced(w, c)'
  BY <1>7, <1>9, <1>10 DEF OnePlaced
<1> QED
  BY <1>0, <1>7, <1>8, <1>11, OneCalm DEF history, HeadTypeOK

\* A call starts or ends.
LEMMA OneStarts ==
    ASSUME NEW w, NEW c \in Consumers, One(w, c), StartSingle(c, "consume") \/ StartSingle(c, "empty") \/ ReturnPlain(c)
    PROVE  ConsumerFrame(w, w, 0, c)
<1>0. cons \in [Consumers -> Consume] /\ cons[c] \in Consume /\ HeadTypeOK
  BY OneKnown
<1>1. CASE ReturnPlain(c)
  <2>1. NewConsume \in Consume /\ cons' = [cons EXCEPT ![c] = NewConsume] /\ cons[c].pc \in {"nothing", "found"}
        /\ NewConsume.pc = "idle" /\ NewConsume.control = NoBlock
    BY <1>1, Nulls DEF ReturnPlain, NewConsume, Consume, ConsumerPC, Mode
  <2>2. OnePlaced(w, c)'
    BY <1>0, <2>1, ConsumerSet DEF OnePlaced
  <2>3. sawEmpty' \subseteq Consumers /\ waiting' \in [Consumers -> SUBSET Element] /\ UNCHANGED <<baseVars, m_head>>
    BY <1>0, <1>1 DEF ReturnPlain, HeadTypeOK
  <2> QED
    BY <2>1, <2>2, <2>3, OneCalm DEF Leaves
<1>2. ASSUME NEW mode \in {"consume", "empty"}, Start(c, mode) PROVE ConsumerFrame(w, w, 0, c)
  <2>1. PICK r : r = [cons[c] EXCEPT !.pc = "begin", !.mode = mode]
    OBVIOUS
  <2>2. r \in Consume /\ r.pc = "begin" /\ cons' = [cons EXCEPT ![c] = r] /\ At(c, "idle")
    BY <2>1, <1>0, <1>2 DEF Start, Consume, ConsumerPC, Mode
  <2>3. OnePlaced(w, c)'
    BY <1>0, <2>2, ConsumerSet DEF OnePlaced
  <2>4. sawEmpty' \subseteq Consumers /\ waiting' \in [Consumers -> SUBSET Element] /\ UNCHANGED <<baseVars, m_head>>
    BY <1>0, <1>2 DEF Start, HeadTypeOK, Ready
  <2> QED
    BY <2>2, <2>3, <2>4, OneCalm DEF Leaves, At
<1> QED
  BY <1>1, <1>2 DEF StartSingle

\* begin_iteration.
LEMMA OneBegins ==
    ASSUME NEW w, NEW c \in Consumers, One(w, c), InitHeadPlain(c) \/ EnterHead(c)
    PROVE  ConsumerFrame(w, w, 0, c)
<1>0. /\ cons \in [Consumers -> Consume] /\ cons[c] \in Consume /\ HeadTypeOK /\ Shape(w) /\ BaseTypeOK
  BY OneKnown
<1>1. At(c, "begin") /\ UNCHANGED <<baseVars, history>> /\ ~Leaves(c)
  BY DEF InitHeadPlain, EnterHead, Leaves, At
<1>2. sawEmpty' \subseteq Consumers /\ waiting' \in [Consumers -> SUBSET Element]
  BY <1>0, <1>1 DEF history, HeadTypeOK
<1>3. CASE EnterHead(c)
  <2>1. m_head # NoBlock /\ UNCHANGED m_head
    BY <1>3 DEF EnterHead
  <2>2. PICK b, n : b = m_head /\ n = m_next[b]
    OBVIOUS
  <2>3. EnterPlain(c, b, n)
    BY <1>3, <2>2 DEF EnterHead
  <2>4. PICK i : i = w.head
    OBVIOUS
  <2>5. i \in Live(w) /\ b = w.at[i]
    BY <2>1, <2>2, <2>4, <1>0, HeadPlace, TrailFacts DEF Live
  <2> QED
    BY <2>1, <2>2, <2>3, <2>5, <1>1, OneEntered
<1>4. CASE InitHeadPlain(c) /\ m_initial_page # NoPage
  <2>1. m_head = NoBlock /\ m_head' = FirstBlock(m_initial_page) /\ FirstBlock(m_initial_page) # NoBlock
    BY <1>0, <1>4, BlockParts DEF InitHeadPlain, BaseTypeOK
  <2>2. UNCHANGED cons
    BY <2>1, <1>4 DEF InitHeadPlain
  <2>3. PICK r : r = cons[c]
    OBVIOUS
  <2>4. r \in Consume /\ r.pc = "begin" /\ cons' = [cons EXCEPT ![c] = r]
    BY <2>2, <2>3, <1>0, <1>1 DEF At
  <2>5. OnePlaced(w, c)'
    BY <1>0, <2>4, ConsumerSet DEF OnePlaced
  <2> QED
    BY <2>1, <2>4, <2>5, <1>1, <1>2, <1>4, OneCalm
<1>5. CASE InitHeadPlain(c) /\ m_initial_page = NoPage
  <2>1. m_head = NoBlock /\ m_head' = NoBlock
    BY <1>5, BlockParts DEF InitHeadPlain
  <2>2. EnterPlain(c, NoBlock, Zero)
    BY <2>1, <1>5 DEF InitHeadPlain
  <2>3. PICK m \in Mode : m = cons[c].mode
    BY <1>0 DEF Consume
  <2>4. PICK to, r : to = AfterLoad(m, Zero) /\ r = PlainConsume(m, NoBlock, Zero)
    OBVIOUS
  <2>5. NoBlock \in BlockOrNull /\ Zero \in NextPtr /\ IsEnd(Zero) /\ ~IsDead(Zero)
    BY Nulls DEF IsEnd, IsDead, Zero
  <2>6. r \in Consume /\ r.pc = to /\ (to = "idle" => r.control = NoBlock) /\ to \in {"nothing", "found", "idle"}
    BY <2>4, <2>5, PlainRecord
  <2>7. cons' = [cons EXCEPT ![c] = r]
    BY <2>2, <2>3, <2>4 DEF EnterPlain, PlainConsume
  <2>8. OnePlaced(w, c)'
    BY <1>0, <2>6, <2>7, ConsumerSet DEF OnePlaced
  <2> QED
    BY <2>1, <2>6, <2>7, <2>8, <1>1, <1>2, OneCalm
<1> QED
  BY <1>3, <1>4, <1>5

\* move_next.
LEMMA OneMoves ==
    ASSUME NEW w, NEW c \in Consumers, One(w, c), MoveNextPlain(c)
    PROVE  ConsumerFrame(w, w, 0, c)
<1>1. At(c, "move") /\ UNCHANGED <<baseVars, m_head, history>> /\ OnePlaced(w, c)
  BY OneKnown DEF MoveNextPlain
<1>2. PICK i \in Live(w) : cons[c].next.to = w.at[i]
  BY <1>1 DEF OnePlaced, At
<1>3. PICK b, n : b = cons[c].next.to /\ n = m_next[b]
  OBVIOUS
<1>4. EnterPlain(c, b, n)
  BY <1>3 DEF MoveNextPlain
<1> QED
  BY <1>1, <1>2, <1>3, <1>4, OneEntered DEF Leaves, At

\* The page that has been left is given back.
LEMMA OneGives ==
    ASSUME NEW w, NEW c \in Consumers, One(w, c), DeallocatePage(c)
    PROVE  ConsumerFrame(w, w, 0, c)
<1>0. /\ cons \in [Consumers -> Consume] /\ cons[c] \in Consume /\ HeadTypeOK /\ Shape(w) /\ BaseTypeOK
      /\ OnePlaced(w, c) /\ Beside /\ OnlyConsume(c) /\ consume = "single" /\ Core(w) /\ WordsOK /\ PinsHeld
  BY OneKnown
<1>1. At(c, "free_page") /\ UNCHANGED <<m_next, content, pinners, heap, m_initial_page, status, m_head, history>>
      /\ Goto(c, "move")
  BY DEF DeallocatePage
<1>2. Placed(w, c, w.head - 1) /\ ~Continues(w, w.head - 1)
  BY <1>0, <1>1 DEF OnePlaced, At
<1>3. w.head \in Nat /\ w.last \in Nat /\ w.head > 0 /\ w.head - 1 \in Nat
  BY <1>0, TrailFacts
<1>4. PICK i : i = w.head - 1
  OBVIOUS
<1>5. /\ Valid(w, i) /\ i < w.last /\ w.at[i] = cons[c].control /\ cons[c].next.to = w.at[i + 1] /\ ~Continues(w, i)
      /\ i + 1 = w.head /\ w.head \in Live(w)
  BY <1>2, <1>3, <1>4 DEF Placed, Live
<1>6. Leaves(c)
  BY <1>1, <1>5 DEF Leaves, At, Continues
<1>7. PICK r : r = [cons[c] EXCEPT !.pc = "move"]
  OBVIOUS
<1>8. r \in Consume /\ cons' = [cons EXCEPT ![c] = r] /\ r.pc = "move" /\ r.next = cons[c].next
  BY <1>0, <1>1, <1>7 DEF Goto, Consume, ConsumerPC
<1>9. ConsumerMoved(c) /\ cons'[c] = r
  BY <1>0, <1>8, ConsumerSet
<1>10. OnePlaced(w, c)'
  BY <1>5, <1>8, <1>9 DEF OnePlaced
<1>11. PICK y : y = PageOf(cons[c].control)
  OBVIOUS
<1>12. y \in Pages /\ ~New(y) /\ \A j \in Live(w) : PageOf(w.at[j]) # y
  <2>1. /\ \A j \in Nat : i < j /\ j <= w.last => ~SamePage(w.at[i], w.at[j])
        /\ PageOf(w.at[i]) \in Pages /\ ~New(PageOf(w.at[i]))
    BY <1>0, <1>5, LeftBehind
  <2>2. \A j \in Live(w) : j \in Nat /\ i < j /\ j <= w.last
    BY <1>3, <1>4 DEF Live
  <2> QED
    BY <2>1, <2>2, <1>5, <1>11 DEF SamePage
<1>13. pool' = [pool EXCEPT ![y] = "uninitialized"]
  BY <1>11, LayersAssumption DEF DeallocatePage
<1>14. ~Leaves(c)' /\ ~Takes(c)'
  BY <1>8, <1>9 DEF Leaves, Takes, At
<1>15. PagesHeld(w)'
  BY <1>0, <1>6, <1>9, <1>11, <1>12, <1>13, <1>14, PagesFreed
<1>16. BaseTypeOK' /\ WordsOK'
  BY <1>0, <1>1, <1>12, <1>13 DEF BaseTypeOK, WordsOK
<1>17. m_head' \in BlockOrNull /\ sawEmpty' \subseteq Consumers /\ waiting' \in [Consumers -> SUBSET Element]
  BY <1>0, <1>1 DEF HeadTypeOK, history
<1>18. TypesTrail'
  BY <1>9, <1>16, <1>17, OneMoved DEF ConsumerMoved
<1>19. PinsHeld'
  BY <1>0, <1>1, <1>9, PinsStay
<1> QED
  BY <1>0, <1>1, <1>9, <1>10, <1>14, <1>15, <1>18, <1>19, CalmConsumer

\* A word is written: what the types need.
LEMMA OneWriteTypes ==
    ASSUME NEW w, NEW c \in Consumers, One(w, c), cons' \in [Consumers -> Consume], NEW b \in Block, NEW n \in NextPtr,
           m_next' = [m_next EXCEPT ![b] = n], n.flags \cap {"busy", "dead"} # {} => n.to \in Block,
           UNCHANGED <<content, pool, pinners, heap, m_initial_page, m_head>>, status' \in [Element -> Status],
           sawEmpty' \subseteq Consumers, waiting' \in [Consumers -> SUBSET Element]
    PROVE  TypesTrail'
<1>1. BaseTypeOK /\ WordsOK /\ HeadTypeOK
  BY OneKnown
<1>2. m_next' \in [Block -> NextPtr] /\ WordsOK'
  BY <1>1, WordTyped
<1>3. BaseTypeOK'
  BY <1>1, <1>2 DEF BaseTypeOK
<1>4. m_head' \in BlockOrNull
  BY <1>1 DEF HeadTypeOK
<1> QED
  BY <1>2, <1>3, <1>4, OneMoved

\* The frame of a step that writes the word of a live block.
LEMMA OneWrites ==
    ASSUME NEW w, NEW c \in Consumers, One(w, c), NEW r \in Consume, cons' = [cons EXCEPT ![c] = r],
           NEW k \in Written(w), NEW n \in NextPtr, Continues(w, k), ~IsDead(m_next[w.at[k]]), n.to = w.at[k + 1],
           m_next' = [m_next EXCEPT ![w.at[k]] = n],
           UNCHANGED <<content, pool, pinners, heap, m_initial_page, m_head>>, status' \in [Element -> Status],
           sawEmpty' \subseteq Consumers, waiting' \in [Consumers -> SUBSET Element],
           "busy" \notin m_next[w.at[k]].flags \/ (Takes(c) /\ cons[c].control = w.at[k] /\ r.pc # "consuming"),
           r.pc = "consuming" => r.control = w.at[k],
           TakerOK(w, c)', OnePlaced(w, c)', ~Leaves(c), r.pc \notin {"zero", "free_page"}
    PROVE  ConsumerFrame(w, w, k, c)
<1>0. /\ cons \in [Consumers -> Consume] /\ Shape(w) /\ Beside /\ OnlyConsume(c) /\ consume = "single" /\ Core(w) /\ PinsHeld
  BY OneKnown
<1>1. ConsumerMoved(c) /\ cons'[c] = r
  BY <1>0, ConsumerSet
<1>2. w.at[k] \in Block /\ n.to \in Block
  <2>1. k \in Nat /\ k + 1 \in Nat
    BY <1>0, TrailFacts DEF Written
  <2> QED
    BY <2>1, <1>0, TrailFacts
<1>3. TypesTrail'
  BY <1>1, <1>2, OneWriteTypes DEF ConsumerMoved
<1>4. PagesHeld(w)'
  BY <1>0, <1>1, PagesStay DEF Leaves
<1>5. PinsHeld'
  BY <1>0, <1>1, PinsStay
<1>6. Takes(c)' => cons'[c].control = w.at[k] /\ "busy" \notin m_next[w.at[k]].flags
  BY <1>1 DEF Takes, At
<1> QED
  BY <1>0, <1>1, <1>3, <1>4, <1>5, <1>6, WriteConsumer

\* An element is taken.
LEMMA OneTakes ==
    ASSUME NEW w, NEW c \in Consumers, One(w, c), Take(c)
    PROVE  \E k : ConsumerFrame(w, w, k, c)
<1>0. /\ cons \in [Consumers -> Consume] /\ cons[c] \in Consume /\ HeadTypeOK /\ Shape(w) /\ BaseTypeOK
      /\ OnePlaced(w, c) /\ WordsTrail(w) /\ m_next \in [Block -> NextPtr]
  BY OneKnown
<1>1. At(c, "try_busy") /\ UNCHANGED <<content, pool, pinners, heap, m_initial_page, m_head>>
  BY DEF Take
<1>2. /\ Consumable(cons[c].next) /\ m_next[cons[c].control] = cons[c].next
      /\ \E i \in Written(w) : Placed(w, c, i)
  BY <1>0, <1>1 DEF OnePlaced, At
<1>3. PICK i \in Written(w) : Placed(w, c, i)
  BY <1>2
<1>4. PICK b, n : b = cons[c].control /\ n = cons[c].next
  OBVIOUS
<1>5. /\ w.at[i] = b /\ n.to = w.at[i + 1] /\ i \in Nat /\ w.at[i] \in Block /\ m_next[w.at[i]] = n /\ i < w.last
      /\ n \in NextPtr /\ "busy" \notin n.flags /\ "dead" \notin n.flags
  BY <1>0, <1>2, <1>3, <1>4, TrailFacts DEF Placed, Consumable, Consume, Written
<1>6. Continues(w, i) /\ ~IsDead(n)
  BY <1>0, <1>3, <1>5 DEF WordsTrail, WrittenWord, IsDead
<1>7. PICK m : m = [n EXCEPT !.flags = @ \cup {"busy"}]
  OBVIOUS
<1>8. m \in NextPtr /\ m = NextWord(n.to, n.flags \cup {"busy"}) /\ m.to = n.to
  BY <1>5, <1>7 DEF NextPtr, NextWord, Flag
<1>9. m_next' = [m_next EXCEPT ![w.at[i]] = m]
  BY <1>4, <1>5, <1>7 DEF Take
<1>10. PICK r : r = [cons[c] EXCEPT !.pc = "consuming", !.next.flags = @ \cup {"dead"}]
  OBVIOUS
<1>11. r.next = [n EXCEPT !.flags = @ \cup {"dead"}] /\ r.pc = "consuming" /\ r.control = b
       /\ cons' = [cons EXCEPT ![c] = r]
  BY <1>0, <1>4, <1>10 DEF Take, Consume
<1>12. r \in Consume
  <2>1. [n EXCEPT !.flags = @ \cup {"dead"}] \in NextPtr
    BY <1>5 DEF NextPtr, Flag
  <2>2. r = [cons[c] EXCEPT !.pc = "consuming", !.next = [n EXCEPT !.flags = @ \cup {"dead"}]]
    BY <1>0, <1>4, <1>10 DEF Consume
  <2> QED
    BY <2>1, <2>2, <1>0 DEF Consume, ConsumerPC
<1>13. ConsumerMoved(c) /\ cons'[c] = r
  BY <1>0, <1>11, <1>12, ConsumerSet
<1>14. r.next.to = n.to /\ r.next.flags = n.flags \cup {"dead"}
  BY <1>5, <1>11 DEF NextPtr
<1>15. TakerOK(w, c)'
  <2>1. (r.next.flags \ {"dead"}) \cup {"busy"} = n.flags \cup {"busy"}
    BY <1>5, <1>14
  <2>2. TakenWord(c)' = m
    <3>1. cons'[c].next.to = n.to /\ (cons'[c].next.flags \ {"dead"}) \cup {"busy"} = n.flags \cup {"busy"}
      BY <2>1, <1>13, <1>14
    <3>2. TakenWord(c)' = NextWord(n.to, n.flags \cup {"busy"})
      BY <3>1 DEF TakenWord, NextWord
    <3> QED
      BY <3>2, <1>8
  <2>3. m_next'[cons'[c].control] = TakenWord(c)'
    <3>1. cons'[c].control = w.at[i]
      BY <1>5, <1>11, <1>13
    <3>2. m_next'[w.at[i]] = m
      BY <1>0, <1>5, <1>9
    <3> QED
      BY <3>1, <3>2, <2>2
  <2>4. w.at[i] = cons'[c].control /\ cons'[c].next.to = w.at[i + 1]
    BY <1>5, <1>11, <1>13, <1>14
  <2>5. "dead" \in cons'[c].next.flags /\ "busy" \notin cons'[c].next.flags
    BY <1>5, <1>13, <1>14
  <2> QED
    BY <2>3, <2>4, <2>5, <1>3, <1>6 DEF TakerOK
<1>16. OnePlaced(w, c)'
  BY <1>11, <1>13 DEF OnePlaced
<1>17. /\ status' \in [Element -> Status] /\ sawEmpty' \subseteq Consumers /\ waiting' \in [Consumers -> SUBSET Element]
  BY <1>0 DEF Take, BaseTypeOK, HeadTypeOK, Status, Searching, Ready
<1>18. ~Leaves(c) /\ "busy" \notin m_next[w.at[i]].flags /\ ~IsDead(m_next[w.at[i]]) /\ m.to = w.at[i + 1]
  BY <1>1, <1>5, <1>6, <1>8 DEF Leaves, At
<1>19. r.control = w.at[i]
  BY <1>5, <1>11
<1>20. ConsumerFrame(w, w, i, c)
  BY <1>1, <1>3, <1>6, <1>8, <1>9, <1>11, <1>12, <1>15, <1>16, <1>17, <1>18, <1>19, OneWrites
<1> QED
  BY <1>20

\* The element is done with, or left for another operation.
LEMMA OneEnds ==
    ASSUME NEW w, NEW c \in Consumers, One(w, c), CommitConsume(c) \/ CancelPlain(c)
    PROVE  \E k : ConsumerFrame(w, w, k, c)
<1>0. /\ cons \in [Consumers -> Consume] /\ cons[c] \in Consume /\ HeadTypeOK /\ Shape(w) /\ BaseTypeOK
      /\ TakerOK(w, c) /\ m_next \in [Block -> NextPtr] /\ Beside
  BY OneKnown
<1>1. /\ At(c, "consuming") /\ Takes(c) /\ UNCHANGED <<content, pool, pinners, heap, m_initial_page, m_head>>
      /\ ~Leaves(c)
  BY DEF CommitConsume, CancelPlain, Takes, Leaves, At
<1>2. /\ status' \in [Element -> Status] /\ sawEmpty' \subseteq Consumers /\ waiting' \in [Consumers -> SUBSET Element]
  BY <1>0 DEF CommitConsume, CancelPlain, BaseTypeOK, HeadTypeOK, Status, history
<1>3. PICK i \in Written(w) :
        /\ w.at[i] = cons[c].control /\ cons[c].next.to = w.at[i + 1] /\ Continues(w, i)
        /\ m_next[cons[c].control] = TakenWord(c)
        /\ "dead" \in cons[c].next.flags /\ "busy" \notin cons[c].next.flags
  BY <1>0, <1>1 DEF TakerOK
<1>4. ~IsDead(m_next[w.at[i]]) /\ w.at[i] \in Block /\ Valid(w, i) /\ i \in Index(w) /\ i < w.last
  <2>1. /\ i \in 1 .. (w.last - 1) /\ Valid(w, i) /\ w.at[i] \in Block
    BY <1>0, <1>3, InnerBlock
  <2>2. "busy" \in m_next[w.at[i]].flags
    BY <1>3 DEF TakenWord, NextWord
  <2> QED
    BY <2>1, <2>2, <1>0, TrailFacts DEF IsDead, Index
<1>5. PICK o : o = cons[c].next
  OBVIOUS
<1>6. o \in NextPtr /\ o.to = w.at[i + 1] /\ "dead" \in o.flags /\ "busy" \notin o.flags
  BY <1>0, <1>3, <1>5 DEF Consume
<1>7. CASE CommitConsume(c)
  <2>1. PICK r : r = [cons[c] EXCEPT !.pc = "advance", !.mode = "clean"]
    OBVIOUS
  <2>2. r \in Consume /\ r.pc = "advance" /\ r.control = cons[c].control /\ r.next = o
        /\ cons' = [cons EXCEPT ![c] = r]
    BY <2>1, <1>0, <1>5, <1>7 DEF CommitConsume, Consume, ConsumerPC, Mode
  <2>3. m_next' = [m_next EXCEPT ![w.at[i]] = o]
    BY <1>3, <1>5, <1>7 DEF CommitConsume
  <2>4. cons'[c] = r
    BY <2>2, <1>0, ConsumerSet
  <2>5. Placed(w, c, i)'
    BY <2>2, <2>4, <1>0, <1>3, <1>4, <1>6, BesideValid DEF Placed
  <2>6. m_next'[w.at[i]] = o /\ IsDead(o)
    BY <2>3, <1>0, <1>4, <1>6 DEF IsDead
  <2>7. OnePlaced(w, c)'
    BY <2>2, <2>4, <2>5, <2>6, <1>3 DEF OnePlaced
  <2>8. TakerOK(w, c)' /\ r.pc # "consuming" /\ r.pc \notin {"zero", "free_page"}
    BY <2>2, <2>4 DEF TakerOK, Takes, At
  <2>9. ConsumerFrame(w, w, i, c)
    BY <2>2, <2>3, <2>7, <2>8, <1>1, <1>2, <1>3, <1>4, <1>6, OneWrites
  <2> QED
    BY <2>9
<1>8. CASE CancelPlain(c)
  <2>1. NewConsume \in Consume /\ NewConsume.pc = "idle" /\ NewConsume.control = NoBlock
        /\ cons' = [cons EXCEPT ![c] = NewConsume]
    BY <1>8, Nulls DEF CancelPlain, NewConsume, Consume, ConsumerPC, Mode
  <2>2. PICK n : n = NextWord(o.to, o.flags \ {"dead"})
    OBVIOUS
  <2>3. m_next' = [m_next EXCEPT ![w.at[i]] = n]
    BY <1>3, <1>5, <1>8, <2>2 DEF CancelPlain
  <2>4. n \in NextPtr /\ n.to = w.at[i + 1]
    BY <2>2, <1>6 DEF NextWord, NextPtr
  <2>5. cons'[c] = NewConsume
    BY <2>1, <1>0, ConsumerSet
  <2>6. OnePlaced(w, c)'
    BY <2>1, <2>5 DEF OnePlaced
  <2>7. TakerOK(w, c)'
    BY <2>1, <2>5 DEF TakerOK, Takes, At
  <2>8. ConsumerFrame(w, w, i, c)
    BY <2>1, <2>3, <2>4, <2>6, <2>7, <1>1, <1>2, <1>3, <1>4, OneWrites
  <2> QED
    BY <2>8
<1> QED
  BY <1>7, <1>8

\* advance_head.
LEMMA OneAdvances ==
    ASSUME NEW w, NEW c \in Consumers, One(w, c), AdvancePlain(c)
    PROVE  \E v : ConsumerFrame(w, v, 0, c)
<1>0. /\ cons \in [Consumers -> Consume] /\ cons[c] \in Consume /\ HeadTypeOK /\ Shape(w) /\ BaseTypeOK
      /\ OnePlaced(w, c) /\ WordsTrail(w) /\ WordsOK /\ Beside /\ consume = "single" /\ OnlyConsume(c) /\ Core(w) /\ PinsHeld
  BY OneKnown
<1>1. At(c, "advance") /\ UNCHANGED <<m_next, content, pool, pinners, m_initial_page, status, history>>
  BY DEF AdvancePlain
<1>2. /\ IsDead(cons[c].next) /\ m_next[cons[c].control] = cons[c].next
      /\ \E i \in Written(w) : Placed(w, c, i)
  BY <1>0, <1>1 DEF OnePlaced, At
<1>3. PICK i \in Written(w) : Placed(w, c, i)
  BY <1>2
<1>4. /\ Valid(w, i) /\ w.at[i] = cons[c].control /\ cons[c].next.to = w.at[i + 1] /\ i < w.last /\ i >= w.head
      /\ i \in Nat /\ i > 0 /\ w.head \in Nat /\ w.last \in Nat /\ cons[c].next.to \in Block
      /\ i + 1 \in Live(w) /\ w.at[i] \in Block
  BY <1>0, <1>3, TrailFacts DEF Placed, Written, Live
<1>5. SamePage(cons[c].control, cons[c].next.to) <=> Continues(w, i)
  BY <1>4 DEF Continues
<1>6. ~Leaves(c)
  BY <1>1 DEF Leaves, At
<1>7. PICK pc \in {"move", "free_page"} :
        /\ Goto(c, pc)
        /\ IF m_head = cons[c].control THEN m_head' = cons[c].next.to /\ (pc = "move" <=> Continues(w, i))
           ELSE m_head' = m_head /\ pc = "move"
  BY <1>5 DEF AdvancePlain
<1>8. PICK r : r = [cons[c] EXCEPT !.pc = pc]
  OBVIOUS
<1>9. r \in Consume /\ cons' = [cons EXCEPT ![c] = r] /\ r.pc = pc /\ r.next = cons[c].next /\ r.control = cons[c].control
  BY <1>0, <1>7, <1>8 DEF Goto, Consume, ConsumerPC
<1>10. ConsumerMoved(c) /\ cons'[c] = r
  BY <1>0, <1>9, ConsumerSet
<1>11. BaseTypeOK' /\ WordsOK'
  BY <1>0, <1>1 DEF AdvancePlain, BaseTypeOK, WordsOK
<1>12. m_head' \in BlockOrNull /\ sawEmpty' \subseteq Consumers /\ waiting' \in [Consumers -> SUBSET Element]
  BY <1>0, <1>1, <1>4, <1>7 DEF HeadTypeOK, history, BlockOrNull
<1>13. TypesTrail'
  BY <1>10, <1>11, <1>12, OneMoved DEF ConsumerMoved
<1>14. PinsHeld'
  BY <1>0, <1>1, <1>10, PinsStay
<1>15. ~Takes(c)'
  BY <1>9, <1>10 DEF Takes, At
<1>16. CASE m_head # cons[c].control
  <2>1. m_head' = m_head /\ pc = "move"
    BY <1>7, <1>16
  <2>2. OnePlaced(w, c)'
    BY <2>1, <1>4, <1>9, <1>10 DEF OnePlaced
  <2>3. ~Leaves(c)'
    BY <2>1, <1>9, <1>10 DEF Leaves
  <2>4. PagesHeld(w)'
    BY <2>3, <1>0, <1>1, <1>6, <1>10, PagesStay
  <2>5. ConsumerFrame(w, w, 0, c)
    BY <2>1, <2>2, <2>4, <1>0, <1>1, <1>10, <1>13, <1>14, <1>15, CalmConsumer
  <2> QED
    BY <2>5
<1>17. CASE m_head = cons[c].control
  <2>1. m_head # NoBlock
    BY <1>4, <1>17, BlockParts
  <2>2. m_head = w.at[w.head] /\ w.last > 0 /\ Valid(w, w.head)
    BY <2>1, <1>0, HeadPlace, TrailFacts
  <2>3. i = w.head
    <3>1. PICK j : j = w.head
      OBVIOUS
    <3>2. Valid(w, j) /\ w.at[i] = w.at[j]
      BY <2>2, <3>1, <1>4, <1>17
    <3> QED
      BY <3>1, <3>2, <1>0, <1>4, OnePlace
  <2>4. m_head' = w.at[w.head + 1] /\ w.head < w.last /\ IsDead(m_next[w.at[w.head]])
    BY <2>3, <1>2, <1>4, <1>7, <1>17
  <2>5. PICK v : v = Advanced(w)
    OBVIOUS
  <2>6. /\ Frame(w, v, {}, 0) /\ v.last = w.last /\ v.head = w.head + 1 /\ v.at = w.at /\ v.base = w.base
        /\ \A j : Valid(v, j)' <=> Valid(w, j)
    BY <2>1, <2>4, <2>5, <1>0, <1>1, <1>13, HeadMoves
  <2>7. pc = "move" <=> Continues(w, i)
    BY <1>7, <1>17
  <2>8. v.head - 1 = i /\ i + 1 \in Live(v) /\ (Continues(v, i) <=> Continues(w, i))
    BY <2>3, <2>6, <1>4 DEF Live, Continues
  <2>9. Placed(v, c, i)'
    BY <2>6, <1>4, <1>9, <1>10 DEF Placed
  <2>10. r.next.to = v.at[i + 1]
    BY <2>6, <1>4, <1>9
  <2>11. OnePlaced(v, c)'
    BY <2>7, <2>8, <2>9, <2>10, <1>7, <1>9, <1>10 DEF OnePlaced
  <2>12. Leaves(c)' <=> ~Continues(w, w.head)
    BY <2>3, <2>7, <1>5, <1>9, <1>10 DEF Leaves
  <2>13. \A d \in Consumers \ {c} : ~Leaves(d)
    BY <1>0, OneLeaves
  <2>14. cons'[c].control = w.at[w.head]
    BY <2>3, <1>4, <1>9, <1>10
  <2>15. PagesHeld(v)'
    BY <2>4, <2>5, <2>12, <2>13, <2>14, <1>0, <1>1, <1>6, <1>10, PagesAdvance
  <2>16. TakerOK(v, c)'
    BY <1>15 DEF TakerOK
  <2>17. ConsumerFrame(w, v, 0, c)
    BY <2>6, <2>11, <2>15, <2>16, <1>0, <1>1, <1>10, <1>14, <1>15 DEF ConsumerFrame, Writes, Beside
  <2> QED
    BY <2>17
<1> QED
  BY <1>16, <1>17

\* Every step of the single consumer.
LEMMA OneFrame ==
    ASSUME NEW w, NEW c \in Consumers, One(w, c)
    PROVE  \E v, k : ConsumerFrame(w, v, k, c)
<1>1. CASE \/ StartSingle(c, "consume") \/ StartSingle(c, "empty") \/ ReturnPlain(c) \/ InitHeadPlain(c) \/ EnterHead(c)
           \/ MoveNextPlain(c) \/ DeallocatePage(c)
  <2>1. ConsumerFrame(w, w, 0, c)
    BY <1>1, OneStarts, OneBegins, OneMoves, OneGives
  <2> QED
    BY <2>1
<1>2. CASE Take(c) \/ CommitConsume(c) \/ CancelPlain(c)
  BY <1>2, OneTakes, OneEnds
<1>3. CASE AdvancePlain(c)
  BY <1>3, OneAdvances
<1> QED
  BY <1>1, <1>2, <1>3 DEF One, SingleConsumeNext, SingleConsumeStep

\* The blocks of a queue that has not been destroyed form a trail.
OrderKept == alive => \E w : Core(w)

\* At the start nothing has been appended.
LEMMA InitOrder ==
    ASSUME QueueInit
    PROVE  \E w : Core(w)
<1>1. PICK b : b \in Block
  <2>1. PICK x : x \in Pages
    BY ChainAssumption
  <2>2. <<x, 0>> \in Block
    BY <2>1, BaseAssumption DEF Block, Slots
  <2> QED
    BY <2>2
<1> DEFINE w == [at |-> [i \in Nat |-> b], base |-> [x \in Pages |-> 0], head |-> 1, last |-> 0]
<1>2. w \in Trail /\ w.last = 0 /\ w.head = 1
  BY <1>1 DEF Trail
<1> HIDE DEF w
<1>3. IInv
  BY InitIInv DEF QueueInit
<1>4. TypesTrail
  BY <1>3, LayersAssumption DEF IInv, TypesTrail, QueueInit
<1>5. /\ m_tail = InvalidBlock /\ m_initial_page = NoPage /\ m_head = NoBlock
      /\ m_next = [x \in Block |-> Zero] /\ pool = [x \in Pages |-> "zeroed"] /\ pinners = [x \in Pages |-> {}]
      /\ prod = [p \in Producers |-> NewProducer] /\ cons = [c \in Consumers |-> NewConsume]
  BY DEF QueueInit, Init, BaseInit, HeadInit, TailInit
<1>6. \A p \in Producers : prod[p] = NewProducer
  BY <1>5
<1>7. \A c \in Consumers : cons[c] = NewConsume
  BY <1>5
<1>8. EndsOK(w)
  BY <1>2, <1>5 DEF EndsOK
<1>9. StepsOK(w) /\ LivesOK(w)
  BY <1>2 DEF StepsOK, LivesOK, Live, Index
<1>10. \A x : ~New(x)
  BY <1>6 DEF New, NewProducer
<1>11. WordsTrail(w)
  BY <1>2, <1>10 DEF WordsTrail, Written
<1>12. \A c \in Consumers : ~Leaves(c)
  BY <1>7 DEF Leaves, NewConsume
<1>13. PagesHeld(w)
  BY <1>2, <1>5, <1>10, <1>12 DEF PagesHeld, Live
<1>14. PinsHeld
  BY <1>5 DEF PinsHeld
<1>15. AloneInside
  BY <1>6, SpinAssumption DEF AloneInside, LockHeldInside, Inside, Outside, NewProducer, QueueInit, SpinInit
<1>16. PuttersOK(w)
  <2>1. \A p \in Producers : ~Putting(p)
    BY <1>6 DEF Putting, NewProducer
  <2>2. \A p \in Producers : AllocationOK(p)
    BY <1>6, <2>1 DEF AllocationOK, NewProducer
  <2> QED
    BY <2>1, <2>2 DEF PuttersOK, PutterOK
<1>17. TakersOK(w)
  <2>1. \A c \in Consumers : ~Takes(c)
    BY <1>7 DEF Takes, At, NewConsume
  <2>2. \A c \in Consumers : ManyPlaced(w, c) /\ OnePlaced(w, c)
    BY <1>7 DEF ManyPlaced, OnePlaced, NewConsume
  <2>3. \A c \in Consumers : cons[c].pc = "idle"
    BY <1>7 DEF NewConsume
  <2> QED
    BY <2>1, <2>2, <2>3 DEF TakersOK, TakerOK
<1> QED
  BY <1>2, <1>4, <1>8, <1>9, <1>11, <1>13, <1>14, <1>15, <1>16, <1>17 DEF Core, Shape

\* A step of the queue keeps its order.
LEMMA NextOrder ==
    ASSUME OrderKept, LockHeldInside', Next
    PROVE  OrderKept'
<1>1. PICK w : Core(w)
  BY DEF OrderKept, Next
<1>2. CASE PutNext /\ UNCHANGED <<headVars, layers, alive>>
  <2>1. put \in {"single", "spin"}
    BY <1>1 DEF Core, Shape, TypesTrail
  <2>2. PICK p \in Producers : Puts(p)
    BY <1>2, <2>1, PutCases
  <2>3. PICK v, Z, k : ProducerFrame(w, v, Z, k, p)
    BY <1>1, <1>2, <2>2, PutsFrame
  <2>4. Core(v)'
    BY <1>1, <2>3, ProducerCore
  <2> QED
    BY <2>4 DEF OrderKept
<1>3. CASE ConsumeNext /\ UNCHANGED <<tailVars, m_mutex, layers, alive>>
  <2>1. PICK c \in Consumers : \/ consume = "single" /\ SingleConsumeNext(c)
                               \/ consume = "multiple" /\ ConsumerNext(c)
    BY <1>3 DEF ConsumeNext
  <2>2. Many(w, c) \/ One(w, c)
    BY <1>1, <1>3, <2>1 DEF Many, One, Beside
  <2>3. PICK v, k : ConsumerFrame(w, v, k, c)
    BY <2>2, ManyFrame, OneFrame
  <2>4. Core(v)'
    BY <1>1, <2>3, ConsumerCore
  <2> QED
    BY <2>4 DEF OrderKept
<1>4. CASE Destroy
  BY <1>4 DEF Destroy, OrderKept
<1> QED
  BY <1>2, <1>3, <1>4 DEF Next

\* The order of the trail is a formula of these variables.
LEMMA OrderStays ==
    ASSUME OrderKept, UNCHANGED queueVars
    PROVE  OrderKept'
<1> USE DEF queueVars, vars, baseVars, headVars, tailVars, layers
<1>1. CASE ~alive
  BY <1>1 DEF OrderKept
<1>2. CASE alive
  <2>1. PICK w : Core(w)
    BY <1>2 DEF OrderKept
  <2>2. TypesTrail'
    <3>1. TypesTrail
      BY <2>1 DEF Core, Shape
    <3>2. BaseTypeOK' /\ WordsOK'
      BY <3>1 DEF TypesTrail, TypeOK, WordsOK, BaseTypeOK
    <3>3. HeadTypeOK' /\ TailTypeOK'
      <4>1. HeadTypeOK'
        BY <3>1 DEF TypesTrail, TypeOK, HeadTypeOK, history
      <4>2. TailTypeOK'
        BY <3>1 DEF TypesTrail, TypeOK, TailTypeOK
      <4> QED
        BY <4>1, <4>2
    <3>4. consume = "multiple" => ConsumersOK' /\ ControlPinned'
      BY <3>1 DEF TypesTrail, ConsumersOK, ConsumerOK, ControlPinned
    <3> QED
      BY <3>1, <3>2, <3>3, <3>4 DEF TypesTrail, TypeOK
  <2>3. \A x : New(x)' <=> New(x)
    BY DEF New
  <2>4. \A i : Valid(w, i)' <=> Valid(w, i)
    BY <2>3 DEF Valid, Index
  <2>5. Shape(w)'
    BY <2>1, <2>2, <2>4 DEF Core, Shape, EndsOK, StepsOK, LivesOK
  <2>6. WordsTrail(w)'
    BY <2>1, <2>3, <2>4 DEF Core, WordsTrail, WrittenWord, PassedWord, EndClear
  <2>7. \A c \in Consumers : Leaves(c)' <=> Leaves(c)
    BY DEF Leaves
  <2>8. PagesHeld(w)' /\ PinsHeld'
    <3>1. PagesHeld(w)'
      BY <2>1, <2>3, <2>7, PagesSame
    <3> QED
      BY <2>1, <3>1 DEF Core, PinsHeld
  <2>9. AloneInside'
    BY <2>1 DEF Core, AloneInside, LockHeldInside, Inside, Outside
  <2>10. PuttersOK(w)'
    <3>1. \A p : AllocationOK(p)' <=> AllocationOK(p)
      BY DEF AllocationOK, ReservedEnd, Putting, PAt
    <3>2. \A p : PutterOK(w, p)' <=> PutterOK(w, p)
      BY DEF PutterOK, Putting
    <3>3. \A p : Putting(p)' <=> Putting(p)
      BY DEF Putting
    <3> QED
      BY <2>1, <3>1, <3>2, <3>3 DEF Core, PuttersOK
  <2>11. TakersOK(w)'
    <3>1. \A c \in Consumers : (Takes(c)' <=> Takes(c)) /\ (TakerOK(w, c)' <=> TakerOK(w, c))
      BY DEF Takes, At, TakerOK, TakenWord
    <3>2. \A c : ManyPlaced(w, c)' <=> ManyPlaced(w, c)
      BY <2>4 DEF ManyPlaced, Placed
    <3>3. \A c : OnePlaced(w, c)' <=> OnePlaced(w, c)
      BY <2>4 DEF OnePlaced, Placed
    <3>4. \A p : Putting(p)' <=> Putting(p)
      BY DEF Putting
    <3> QED
      BY <2>1, <3>1, <3>2, <3>3, <3>4 DEF Core, TakersOK
  <2>12. Core(w)'
    BY <2>5, <2>6, <2>8, <2>9, <2>10, <2>11 DEF Core
  <2> QED
    BY <2>12 DEF OrderKept
<1> QED
  BY <1>1, <1>2

---------------------------------------------------------------------------
(* Least numbers *)

\* A set of numbers has a least one.
LEMMA LeastNumber == ASSUME NEW T \in SUBSET Nat, T # {} PROVE \E x \in T : \A y \in T : x <= y
<1> DEFINE F == {0 .. n : n \in T}
<1>1. F \subseteq FiniteSubsetsOf(Nat) /\ F # {}
  <2>1. \A n \in T : 0 .. n \in SUBSET Nat /\ IsFiniteSet(0 .. n)
    BY FS_Interval
  <2> QED
    BY <2>1 DEF FiniteSubsetsOf
<1>2. PICK s \in F : \A u \in F : <<u, s>> \notin StrictSubsetOrdering(Nat)
  BY <1>1, FS_StrictSubsetOrderingWellFounded, WFMin
<1>3. PICK x \in T : s = 0 .. x
  BY <1>2
<1>4. \A y \in T : ~ (y < x)
  <2> SUFFICES ASSUME NEW y \in T, y < x PROVE FALSE
    OBVIOUS
  <2>1. 0 .. y \in F /\ 0 .. y \in SUBSET Nat /\ s \in SUBSET Nat
    BY <1>3
  <2>2. (0 .. y) \subseteq s /\ (0 .. y) # s
    BY <1>3
  <2> QED
    BY <1>2, <2>1, <2>2 DEF StrictSubsetOrdering
<1> QED
  BY <1>4

\* What holds of 0, and of every number if it holds of the one before, holds
\* up to any bound.
LEMMA UpTo ==
    ASSUME NEW N \in Nat, NEW S, 0 \in S, \A n \in 0 .. N - 1 : n \in S => n + 1 \in S
    PROVE  0 .. N \subseteq S
<1> SUFFICES ASSUME NEW k \in 0 .. N, k \notin S PROVE FALSE
  OBVIOUS
<1> DEFINE T == {n \in 0 .. N : n \notin S}
<1>1. PICK n \in T : \A m \in T : n <= m
  <2>1. T \in SUBSET Nat /\ k \in T
    OBVIOUS
  <2> QED
    BY <2>1, LeastNumber
<1>2. n \in 1 .. N /\ n - 1 \in 0 .. N - 1 /\ n - 1 \notin T
  BY <1>1
<1> QED
  BY <1>1, <1>2

---------------------------------------------------------------------------
(* The recursive function that Chain is made of *)

\* f gives the block after each number of steps from the head, up to n.
Steps(f, n) == f = [k \in 0 .. n |-> IF k = 0 THEN First ELSE After(f[k - 1])]
Step == CHOOSE f : Steps(f, Cardinality(Block))

\* There is such a function for every bound, hence the one that Chain takes.
LEMMA StepsExist == ASSUME NEW N \in Nat PROVE \E f : Steps(f, N)
<1> DEFINE S == {n \in Nat : \E f : Steps(f, n)}
<1>1. 0 \in S
  <2> DEFINE f == [k \in 0 .. 0 |-> First]
  <2>1. Steps(f, 0)
    BY DEF Steps
  <2> QED
    BY <2>1
<1>2. ASSUME NEW n \in Nat, n \in S PROVE n + 1 \in S
  <2>1. PICK f : Steps(f, n)
    BY <1>2
  <2> DEFINE g == [k \in 0 .. n + 1 |-> IF k = 0 THEN First ELSE After(f[k - 1])]
  <2>2. \A k \in 0 .. n : g[k] = f[k]
    BY <2>1 DEF Steps
  <2>3. \A k \in 0 .. n + 1 : k # 0 => k - 1 \in 0 .. n
    OBVIOUS
  <2>4. g = [k \in 0 .. n + 1 |-> IF k = 0 THEN First ELSE After(g[k - 1])]
    BY <2>2, <2>3, Zenon
  <2>5. Steps(g, n + 1)
    BY <2>4 DEF Steps
  <2> HIDE DEF g
  <2> QED
    BY <2>5
<1>3. \A n \in 0 .. N - 1 : n \in S => n + 1 \in S
  BY <1>2
<1> HIDE DEF S
<1>4. 0 .. N \subseteq S
  BY <1>1, <1>3, UpTo
<1> QED
  BY <1>4 DEF S

\* The memory is finite.
LEMMA FiniteMemory == IsFiniteSet(Block) /\ Cardinality(Block) \in Nat
<1>1. IsFiniteSet(Slots)
  BY FS_Interval, BaseAssumption DEF Slots
<1>2. IsFiniteSet(Block)
  BY <1>1, ChainAssumption, FS_Product DEF Block
<1> QED
  BY <1>2, FS_CardinalityType

\* The chain, step by step.
LEMMA ChainSteps ==
    /\ Chain = {Step[n] : n \in 0 .. Cardinality(Block) - 1} \ {NoBlock}
    /\ Step[0] = First
    /\ \A n \in 0 .. Cardinality(Block) - 1 : Step[n + 1] = After(Step[n])
<1>1. Chain = {Step[n] : n \in 0 .. Cardinality(Block) - 1} \ {NoBlock}
  BY DEF Chain, Step, Steps
<1>2. Steps(Step, Cardinality(Block))
  BY StepsExist, FiniteMemory DEF Step
<1>3. \A n \in 0 .. Cardinality(Block) : Step[n] = IF n = 0 THEN First ELSE After(Step[n - 1])
  BY <1>2 DEF Steps
<1> QED
  BY <1>1, <1>3, FiniteMemory

---------------------------------------------------------------------------
(* The chain is the trail from the head to the tail *)

\* No trail is longer than the memory.
LEMMA TrailBound ==
    ASSUME NEW w, Core(w), w.last > 0
    PROVE  w.last - w.head \in 0 .. Cardinality(Block) - 1
<1>1. w.head \in Nat /\ w.last \in Nat /\ w.head <= w.last /\ \A i \in Nat : w.at[i] \in Block
  BY TrailFacts DEF Core
<1>2. \A i \in Live(w) : Valid(w, i)
  BY TrailFacts DEF Core
<1>3. \A i, j \in Live(w) : w.at[i] = w.at[j] => i = j
  BY <1>2, OnePlace DEF Core
<1> DEFINE f == [i \in Live(w) |-> w.at[i]]
<1>4. f \in Injection(Live(w), Block)
  <2>1. f \in [Live(w) -> Block]
    BY <1>1 DEF Live
  <2>2. \A i, j \in Live(w) : f[i] = f[j] => i = j
    BY <1>3
  <2> HIDE DEF f
  <2> QED
    BY <2>1, <2>2 DEF Injection, IsInjective
<1> HIDE DEF f
<1>5. IsFiniteSet(Live(w)) /\ Cardinality(Live(w)) <= Cardinality(Block)
  BY <1>4, FiniteMemory, FS_Injection
<1>6. Cardinality(Live(w)) = w.last - w.head + 1
  BY <1>1, FS_Interval DEF Live
<1> QED
  BY <1>1, <1>5, <1>6, FiniteMemory

\* What the block after a block is.
LEMMA AfterTrail ==
    ASSUME NEW w, Core(w), w.last > 0
    PROVE  /\ First = w.at[w.head]
           /\ \A i \in Written(w) : After(w.at[i]) = w.at[i + 1]
           /\ \/ After(m_tail) = NoBlock
              \/ \E p \in Producers : PAt(p, "store") /\ After(m_tail) = ReservedEnd(p)
<1>1. w.head \in Nat /\ w.last \in Nat /\ w.head <= w.last /\ \A i \in Nat : w.at[i] \in Block
  BY TrailFacts DEF Core
<1>2. EndsOK(w) /\ WordsTrail(w)
  BY DEF Core, Shape
<1>3. First = w.at[w.head]
  BY <1>1, <1>2 DEF EndsOK, First
<1>4. ASSUME NEW i \in Written(w) PROVE After(w.at[i]) = w.at[i + 1]
  <2>1. i \in Nat /\ w.at[i] \in Block /\ w.at[i + 1] \in Block
    BY <1>1 DEF Written
  <2>2. m_next[w.at[i]].to = w.at[i + 1]
    BY <1>2 DEF WordsTrail, WrittenWord
  <2> QED
    BY <2>1, <2>2, BlockParts DEF After, IsEnd, NoBlock, Block, PageOf
<1>5. \/ After(m_tail) = NoBlock
      \/ \E p \in Producers : PAt(p, "store") /\ After(m_tail) = ReservedEnd(p)
  <2>1. IsEnd(m_next[m_tail])
    BY <1>2 DEF WordsTrail
  <2>2. \A p \in Reserving(m_tail) : PAt(p, "store")
    BY ProducerKnown DEF Reserving, AllocationOK, PAt
  <2>3. CASE Reserving(m_tail) = {}
    BY <2>1, <2>3 DEF After
  <2>4. CASE Reserving(m_tail) # {}
    <3>1. PICK p : p = (CHOOSE q \in Reserving(m_tail) : TRUE)
      OBVIOUS
    <3>2. p \in Reserving(m_tail)
      BY <2>4, <3>1
    <3>3. After(m_tail) = NoBlock \/ After(m_tail) = ReservedEnd(p)
      BY <2>1, <2>4, <3>1 DEF After
    <3> QED
      BY <2>2, <3>2, <3>3 DEF Reserving
  <2> QED
    BY <2>3, <2>4
<1> QED
  BY <1>3, <1>4, <1>5

\* A block that a producer has reserved after the tail ends the chain.
LEMMA AfterReserved ==
    ASSUME NEW w, Core(w), NEW p \in Producers, PAt(p, "store")
    PROVE  After(ReservedEnd(p)) = NoBlock /\ m_next[ReservedEnd(p)] = Zero
<1>1. ReservedEnd(p) \in Block /\ m_tail[2] < ReservedEnd(p)[2] /\ m_next[ReservedEnd(p)] = Zero
  BY ProducerKnown DEF AllocationOK, PAt
<1>2. m_tail # ReservedEnd(p)
  <2>1. m_tail \in Block
    BY ProducerKnown DEF AllocationOK, PAt
  <2> QED
    BY <1>1, <2>1, BlockParts
<1>3. \A q \in Reserving(ReservedEnd(p)) : PAt(q, "store") /\ prod[q].tail = m_tail
  BY ProducerKnown DEF Reserving, AllocationOK, PAt
<1>4. Reserving(ReservedEnd(p)) = {}
  BY <1>2, <1>3 DEF Reserving
<1> QED
  BY <1>1, <1>4 DEF After, IsEnd, Zero

\* The block that a producer has reserved after the tail.
Reserved == {ReservedEnd(p) : p \in {q \in Producers : PAt(q, "store")}}

\* The chain: the live blocks, and at most a block after the tail.
LEMMA ChainTrail ==
    ASSUME NEW w, Core(w), w.last > 0
    PROVE  /\ \A i \in Live(w) : w.at[i] \in Chain
           /\ \A b \in Chain : b \in Reserved \/ \E i \in Live(w) : b = w.at[i]
<1>1. w.head \in Nat /\ w.last \in Nat /\ w.head <= w.last /\ \A i \in Nat : w.at[i] \in Block
  BY TrailFacts DEF Core
<1>2. m_tail = w.at[w.last]
  BY TrailFacts DEF Core
<1>3. \A b \in Block : b # NoBlock
  BY BlockParts
<1> DEFINE S == {n \in Nat : Step[n] = w.at[w.head + n]}
           N == w.last - w.head
<1>4. N \in Nat /\ N <= Cardinality(Block) - 1 /\ Cardinality(Block) \in Nat
  BY TrailBound, FiniteMemory
<1>5. 0 \in S
  BY <1>1, ChainSteps, AfterTrail
<1>6. ASSUME NEW n \in 0 .. N - 1, n \in S PROVE n + 1 \in S
  <2>1. w.head + n \in Written(w) /\ n \in 0 .. Cardinality(Block) - 1 /\ n \in Nat
    BY <1>1, <1>4 DEF Written
  <2>2. Step[n + 1] = After(Step[n])
    BY <2>1, ChainSteps
  <2>3. Step[n + 1] = w.at[w.head + n + 1]
    BY <1>6, <2>1, <2>2, AfterTrail
  <2>4. w.head + n + 1 = w.head + (n + 1)
    BY <1>1, <2>1
  <2> QED
    BY <2>1, <2>3, <2>4
<1>7. 0 .. N \subseteq S
  <2> HIDE DEF S, N
  <2> QED
    BY <1>4, <1>5, <1>6, UpTo
<1>8. ASSUME NEW i \in Live(w) PROVE w.at[i] \in Chain
  <2>1. i - w.head \in 0 .. N /\ i - w.head \in 0 .. Cardinality(Block) - 1 /\ w.head + (i - w.head) = i /\ i \in Nat
    BY <1>1, <1>4 DEF Live
  <2>2. Step[i - w.head] = w.at[i]
    BY <1>7, <2>1
  <2> QED
    BY <1>1, <1>3, <2>1, <2>2, ChainSteps
<1> HIDE DEF S, N
<1> DEFINE Q == {w.at[i] : i \in Live(w)} \cup Reserved \cup {NoBlock}
           T == {n \in Nat : Step[n] \in Q}
<1>9. 0 \in T
  <2>1. w.head \in Live(w)
    BY <1>1 DEF Live
  <2> QED
    BY <2>1, ChainSteps, AfterTrail
<1>10. \A b \in Q : After(b) \in Q
  <2> SUFFICES ASSUME NEW b \in Q PROVE After(b) \in Q
    OBVIOUS
  <2>1. CASE b = NoBlock
    BY <2>1 DEF After
  <2>2. CASE b \in Reserved
    BY <2>2, AfterReserved DEF Reserved
  <2>3. CASE b = m_tail
    BY <2>3, AfterTrail DEF Reserved
  <2>4. ASSUME NEW i \in Live(w), b = w.at[i], b # m_tail PROVE After(b) \in Q
    <3>1. i \in Written(w) /\ i + 1 \in Live(w)
      BY <1>1, <1>2, <2>4 DEF Live, Written
    <3> QED
      BY <2>4, <3>1, AfterTrail
  <2> QED
    BY <2>1, <2>2, <2>3, <2>4
<1> DEFINE M == Cardinality(Block) - 1
<1>11. M \in Nat
  BY <1>4
<1>12. ASSUME NEW n \in 0 .. M - 1, n \in T PROVE n + 1 \in T
  <2>1. Step[n + 1] = After(Step[n]) /\ n \in Nat
    BY <1>4, ChainSteps
  <2> QED
    BY <1>10, <1>12, <2>1
<1>13. 0 .. M \subseteq T
  <2> HIDE DEF T, M
  <2> QED
    BY <1>9, <1>11, <1>12, UpTo
<1>14. ASSUME NEW b \in Chain PROVE b \in Reserved \/ \E i \in Live(w) : b = w.at[i]
  <2>1. b # NoBlock /\ \E n \in 0 .. M : b = Step[n]
    BY ChainSteps
  <2> QED
    BY <1>13, <2>1
<1> QED
  BY <1>8, <1>14

\* A queue to which nothing was put has no block.
LEMMA ChainEmpty ==
    ASSUME NEW w, Core(w), w.last = 0
    PROVE  Chain = {}
<1>1. First = NoBlock
  BY BlockParts DEF First, Core, Shape, EndsOK
<1> DEFINE T == {n \in Nat : Step[n] = NoBlock}
           M == Cardinality(Block) - 1
<1>2. 0 \in T
  BY <1>1, ChainSteps
<1>3. ASSUME NEW n \in 0 .. M - 1, n \in T PROVE n + 1 \in T
  <2>1. Step[n + 1] = After(Step[n]) /\ n \in Nat
    BY ChainSteps, FiniteMemory
  <2> QED
    BY <1>3, <2>1 DEF After
<1>4. \A n \in 0 .. M : Step[n] = NoBlock
  <2>1. CASE M \in Nat
    <3>1. 0 .. M \subseteq T
      <4> HIDE DEF T, M
      <4> QED
        BY <2>1, <1>2, <1>3, UpTo
    <3> QED
      BY <3>1
  <2>2. CASE M \notin Nat
    <3>1. 0 .. M = {}
      BY <2>2, FiniteMemory
    <3> QED
      BY <3>1
  <2> QED
    BY <2>1, <2>2
<1> QED
  BY <1>4, ChainSteps

\* EndsAtTail, of a queue whose blocks form a trail.
LEMMA TrailEndsAtTail == OrderKept => EndsAtTail
<1> SUFFICES ASSUME OrderKept, alive, m_tail # InvalidBlock PROVE m_tail \in Chain /\ IsEnd(m_next[m_tail])
  BY DEF EndsAtTail
<1>1. PICK w : Core(w)
  BY DEF OrderKept
<1>2. w.last > 0 /\ m_tail = w.at[w.last] /\ w.last \in Live(w)
  <2>1. w.last > 0 /\ w.last \in Nat /\ w.head \in Nat /\ w.head <= w.last /\ m_tail = w.at[w.last]
    BY <1>1, TrailFacts DEF Core
  <2> QED
    BY <2>1 DEF Live
<1>3. IsEnd(m_next[m_tail])
  BY <1>1, <1>2 DEF Core, WordsTrail
<1> QED
  BY <1>1, <1>2, <1>3, ChainTrail

\* The words of the chain end at the tail (m_tail, after each push): EndsAtTail
\* holds of the queues with a single or a spin-locking side.
THEOREM ChainEndsAtTail == Spec => []EndsAtTail
<1>1. QueueInit => OrderKept
  BY InitOrder DEF OrderKept
<1>2. LockHeldInside' /\ OrderKept /\ [Next]_queueVars => OrderKept'
  BY NextOrder, OrderStays
<1>3. Spec => []LockHeldInside
  BY SpinLockHeld
<1>4. OrderKept => EndsAtTail
  BY TrailEndsAtTail
<1> QED
  BY <1>1, <1>2, <1>3, <1>4, PTL DEF Spec

---------------------------------------------------------------------------
(* The elements: who has which *)

\* The word of a block whose element can be consumed.
ReadyWord(n) == ~IsEnd(n) /\ n.flags \cap {"busy", "dead"} = {}

\* The blocks of the elements that are ready, and of those being consumed.
Readies == {b \in Chain : b \in Block /\ ReadyWord(m_next[b])}
Taken == {cons[c].control : c \in {d \in Consumers : Takes(d)}}

\* In terms of the trail.
ReadiesAre(w) ==
    \A b : b \in Readies <=> \E i \in Written(w) : b = w.at[i] /\ m_next[b].flags \cap {"busy", "dead"} = {}

\* Which they are.
LEMMA ReadiesTrail == \A w : Core(w) => ReadiesAre(w)
<1> SUFFICES ASSUME NEW w, Core(w), NEW b
             PROVE  b \in Readies <=> \E i \in Written(w) : b = w.at[i] /\ m_next[b].flags \cap {"busy", "dead"} = {}
  BY DEF ReadiesAre
<1>1. w.head \in Nat /\ w.last \in Nat /\ w.head > 0 /\ \A i \in Nat : w.at[i] \in Block
  BY TrailFacts DEF Core
<1>2. CASE w.last = 0
  BY <1>1, <1>2, ChainEmpty DEF Readies, Written
<1>3. CASE w.last > 0
  <2>1. w.head <= w.last /\ m_tail = w.at[w.last]
    BY <1>3, TrailFacts DEF Core
  <2>2. ASSUME NEW i \in Written(w), b = w.at[i], m_next[b].flags \cap {"busy", "dead"} = {} PROVE b \in Readies
    <3>1. i \in Live(w) /\ i \in Nat /\ i + 1 \in Nat
      BY <1>1 DEF Written, Live
    <3>2. m_next[b].to = w.at[i + 1]
      BY <2>2 DEF Core, WordsTrail, WrittenWord
    <3>3. m_next[b].to \in Block
      BY <1>1, <3>1, <3>2
    <3> QED
      BY <1>1, <1>3, <2>2, <3>1, <3>3, ChainTrail, BlockParts DEF Readies, ReadyWord, IsEnd
  <2>3. ASSUME b \in Readies PROVE \E i \in Written(w) : b = w.at[i] /\ m_next[b].flags \cap {"busy", "dead"} = {}
    <3>1. b \notin Reserved
      BY <2>3, AfterReserved DEF Readies, ReadyWord, Reserved, IsEnd, Zero
    <3>2. PICK i \in Live(w) : b = w.at[i]
      BY <1>3, <2>3, <3>1, ChainTrail DEF Readies
    <3>3. b # m_tail
      BY <1>3, <2>3 DEF Readies, ReadyWord, Core, WordsTrail
    <3>4. i \in Written(w)
      BY <1>1, <2>1, <3>2, <3>3 DEF Live, Written
    <3> QED
      BY <2>3, <3>2, <3>4 DEF Readies, ReadyWord
  <2> QED
    BY <2>2, <2>3
<1> QED
  BY <1>1, <1>2, <1>3

\* And after the step.
LEMMA ReadiesTrailNext == (\A w : Core(w) => ReadiesAre(w))'
  BY ReadiesTrail, PTL

\* Only a block whose word is written becomes ready, or is not any more.
LEMMA ReadiesStep ==
    ASSUME NEW w, Core(w), NEW v, Core(v)', NEW Z, NEW k, Frame(w, v, Z, k)
    PROVE  /\ \A b \in Readies : ReadyWord(m_next'[b]) => b \in Readies'
           /\ \A b \in Readies' : b \in Block /\ ReadyWord(m_next'[b]) /\ (b \in Readies \/ m_next'[b] # m_next[b])
           /\ \A i \in Written(w) : v.head = w.head /\ ReadyWord(m_next'[w.at[i]]) => w.at[i] \in Readies'
<1>1. ReadiesAre(w) /\ ReadiesAre(v)'
  BY ReadiesTrail, ReadiesTrailNext
<1>2. /\ w.head \in Nat /\ w.last \in Nat /\ w.head > 0 /\ v.head \in Nat /\ v.last \in Nat
      /\ \A i \in Written(w) : v.at[i] = w.at[i] /\ w.at[i] \in Block /\ (i # w.head \/ v.head = w.head => i \in Written(v))
  BY FramePlaces
<1>3. v.last \in {w.last, w.last + 1} /\ v.head \in {w.head, w.head + 1} /\ (v.head # w.head => IsDead(m_next[w.at[w.head]]))
  BY DEF Frame
<1>4. ASSUME NEW i \in Written(w), i # w.head \/ v.head = w.head, ReadyWord(m_next'[w.at[i]])
      PROVE  w.at[i] \in Readies'
  <2>1. i \in Written(v) /\ v.at[i] = w.at[i]
    BY <1>2, <1>4
  <2> QED
    BY <1>1, <1>4, <2>1 DEF ReadiesAre, ReadyWord
<1>5. ASSUME NEW b \in Readies, ReadyWord(m_next'[b]) PROVE b \in Readies'
  <2>1. PICK i \in Written(w) : b = w.at[i]
    BY <1>1, <1>5 DEF ReadiesAre
  <2>2. i # w.head \/ v.head = w.head
    BY <1>3, <1>5, <2>1 DEF Readies, ReadyWord, IsDead
  <2> QED
    BY <1>4, <1>5, <2>1, <2>2
<1>6. ASSUME NEW b \in Readies' PROVE b \in Block /\ ReadyWord(m_next'[b]) /\ (b \in Readies \/ m_next'[b] # m_next[b])
  <2>1. b \in Block /\ ReadyWord(m_next'[b])
    BY <1>6 DEF Readies
  <2>2. PICK i \in Written(v) : b = v.at[i]
    BY <1>1, <1>6 DEF ReadiesAre
  <2>3. CASE i \in Written(w)
    BY <1>1, <1>2, <2>1, <2>2, <2>3 DEF ReadiesAre, ReadyWord
  <2>4. CASE i \notin Written(w)
    <3>1. i = w.last /\ v.last = w.last + 1
      BY <1>2, <1>3, <2>2, <2>4 DEF Written
    <3>2. i > 0
      BY <1>2, <1>3, <2>2 DEF Written
    <3>3. b = m_tail /\ IsEnd(m_next[m_tail])
      <4>1. w.at[w.last] = m_tail /\ IsEnd(m_next[m_tail])
        BY <3>1, <3>2, TrailFacts DEF Core, WordsTrail
      <4>2. v.at[w.last] = w.at[w.last]
        BY <1>2, <3>1, <3>2 DEF Frame, Keeps, Index
      <4> QED
        BY <2>2, <3>1, <4>1, <4>2
    <3> QED
      BY <2>1, <3>3 DEF ReadyWord
  <2> QED
    BY <2>3, <2>4
<1> QED
  BY <1>4, <1>5, <1>6

\* If no word becomes or ceases to be ready, the same blocks are ready.
LEMMA ReadiesSame ==
    ASSUME NEW w, Core(w), NEW v, Core(v)', NEW Z, NEW k, Frame(w, v, Z, k),
           \A b \in Block : m_next'[b] # m_next[b] => b \notin Readies /\ ~ReadyWord(m_next'[b])
    PROVE  Readies' = Readies
<1>1. ASSUME NEW b \in Readies PROVE b \in Readies'
  <2>1. b \in Block /\ ReadyWord(m_next[b])
    BY DEF Readies
  <2> QED
    BY <2>1, ReadiesStep
<1>2. ASSUME NEW b \in Readies' PROVE b \in Readies
  BY ReadiesStep
<1> QED
  BY <1>1, <1>2

---------------------------------------------------------------------------
(* Blocks and statuses match *)

\* The content C matches the blocks B with the elements whose status, in S, is s.
Match(B, s, C, S) ==
    /\ \A b \in B : C[b] \in Item /\ C[b][3] = 0 /\ S[ElementOf(C[b])] = s
    /\ \A a, b \in B : C[a] = C[b] => a = b
    /\ \A e \in Element : S[e] = s => \E b \in B : C[b] = <<e[1], e[2], 0>>

\* The items and the elements.
LEMMA ItemElements ==
    /\ \A i \in Item : ElementOf(i) \in Element /\ (i[3] = 0 => i = <<ElementOf(i)[1], ElementOf(i)[2], 0>>)
    /\ \A e \in Element : <<e[1], e[2], 0>> \in Item /\ ElementOf(<<e[1], e[2], 0>>) = e
  BY BaseAssumption DEF Item, Element, ElementOf

\* They match as long as the contents and the statuses are the same.
LEMMA MatchSame ==
    ASSUME NEW B, NEW s, NEW C, NEW S, Match(B, s, C, S), NEW D, NEW T, \A b \in B : D[b] = C[b],
           \A e \in Element : T[e] = s <=> S[e] = s
    PROVE  Match(B, s, D, T)
<1>1. \A b \in B : D[b] \in Item /\ D[b][3] = 0 /\ T[ElementOf(D[b])] = s
  BY ItemElements DEF Match
<1> QED
  BY <1>1 DEF Match

\* An element comes to have the status, in a block b.
LEMMA MatchMore ==
    ASSUME NEW B, NEW s, NEW C, NEW S \in [Element -> Status], Match(B, s, C, S), NEW e \in Element, S[e] # s, NEW b,
           C[b] = <<e[1], e[2], 0>>, NEW T, T = [S EXCEPT ![e] = s]
    PROVE  Match(B \cup {b}, s, C, T)
<1>1. ASSUME NEW a \in B PROVE C[a] \in Item /\ C[a][3] = 0 /\ T[ElementOf(C[a])] = s /\ C[a] # C[b]
  <2>1. C[a] \in Item /\ C[a][3] = 0 /\ S[ElementOf(C[a])] = s
    BY DEF Match
  <2>2. ElementOf(C[a]) \in Element /\ ElementOf(C[a]) # e
    BY <2>1, ItemElements
  <2> QED
    BY <2>1, <2>2, ItemElements
<1>2. C[b] \in Item /\ C[b][3] = 0 /\ T[ElementOf(C[b])] = s
  BY ItemElements
<1>3. ASSUME NEW d \in Element, T[d] = s PROVE \E a \in B \cup {b} : C[a] = <<d[1], d[2], 0>>
  <2>1. CASE d = e
    BY <2>1
  <2>2. CASE d # e
    BY <1>3, <2>2 DEF Match
  <2> QED
    BY <2>1, <2>2
<1> QED
  BY <1>1, <1>2, <1>3 DEF Match

\* The element of the block b has another status.
LEMMA MatchLess ==
    ASSUME NEW B, NEW s, NEW C, NEW S \in [Element -> Status], Match(B, s, C, S), NEW b \in B, NEW e, e = ElementOf(C[b]),
           NEW T, T[e] # s, \A d \in Element : d # e => T[d] = S[d]
    PROVE  Match(B \ {b}, s, C, T) /\ e \in Element /\ S[e] = s /\ C[b] = <<e[1], e[2], 0>>
<1>1. C[b] \in Item /\ C[b][3] = 0 /\ S[e] = s
  BY DEF Match
<1>2. e \in Element /\ C[b] = <<e[1], e[2], 0>>
  BY <1>1, ItemElements
<1>3. ASSUME NEW a \in B, a # b PROVE C[a] \in Item /\ C[a][3] = 0 /\ T[ElementOf(C[a])] = s
  <2>1. C[a] \in Item /\ C[a][3] = 0 /\ S[ElementOf(C[a])] = s /\ C[a] # C[b]
    BY <1>3 DEF Match
  <2>2. ElementOf(C[a]) \in Element /\ ElementOf(C[a]) # e
    BY <1>1, <1>2, <2>1, ItemElements
  <2> QED
    BY <2>1, <2>2
<1>4. ASSUME NEW d \in Element, T[d] = s PROVE \E a \in B \ {b} : C[a] = <<d[1], d[2], 0>>
  <2>1. d # e /\ S[d] = s
    BY <1>4
  <2>2. PICK a \in B : C[a] = <<d[1], d[2], 0>>
    BY <2>1 DEF Match
  <2>3. a # b
    BY <2>1, <2>2, ItemElements
  <2> QED
    BY <2>2, <2>3
<1> QED
  BY <1>1, <1>2, <1>3, <1>4 DEF Match

\* Each element that is ready or being consumed has its block, and each such
\* block an element.
Elements ==
    /\ \A p \in Producers : PutElementOK(p)
    /\ Match(Readies, "ready", content, status)
    /\ Match(Taken, "consuming", content, status)

\* The blocks that have an element, or will.
LEMMA HeldBlocks ==
    ASSUME NEW w, Core(w)
    PROVE  /\ \A b \in Readies : \E i \in Written(w) : b = w.at[i] /\ m_next[b].flags \cap {"busy", "dead"} = {}
           /\ \A b \in Taken : \E i \in Written(w) : b = w.at[i] /\ "busy" \in m_next[b].flags
           /\ \A p \in Producers : Putting(p) => \E i \in Written(w) : /\ prod[p].control = w.at[i]
                                                                      /\ "busy" \in m_next[w.at[i]].flags
           /\ \A p \in Producers : Putting(p) => prod[p].control \notin Taken
           /\ \A i \in Written(w) : i \in Live(w) /\ Valid(w, i) /\ w.at[i] \in Block /\ w.at[i] # m_tail /\ pool[PageOf(w.at[i])] = "queue"
<1>1. \A b \in Readies : \E i \in Written(w) : b = w.at[i] /\ m_next[b].flags \cap {"busy", "dead"} = {}
  BY ReadiesTrail DEF ReadiesAre
<1>2. \A b \in Taken : \E i \in Written(w) : b = w.at[i] /\ "busy" \in m_next[b].flags
  <2> SUFFICES ASSUME NEW c \in Consumers, Takes(c)
               PROVE  \E i \in Written(w) : cons[c].control = w.at[i] /\ "busy" \in m_next[cons[c].control].flags
    BY DEF Taken
  <2>1. TakerOK(w, c)
    BY DEF Core, TakersOK
  <2> QED
    BY <2>1 DEF TakerOK, TakenWord, NextWord
<1>3. \A p \in Producers : Putting(p) => \E i \in Written(w) : /\ prod[p].control = w.at[i]
                                                              /\ "busy" \in m_next[w.at[i]].flags
  BY DEF Core, PuttersOK, PutterOK
<1>4. \A p \in Producers : Putting(p) => prod[p].control \notin Taken
  BY DEF Core, TakersOK, Taken
<1>5. ASSUME NEW i \in Written(w)
      PROVE  i \in Live(w) /\ Valid(w, i) /\ w.at[i] \in Block /\ w.at[i] # m_tail /\ pool[PageOf(w.at[i])] = "queue"
  <2>1. w.head \in Nat /\ w.last \in Nat /\ w.head > 0
    BY TrailFacts DEF Core
  <2>2. i \in Live(w) /\ i \in 1 .. (w.last - 1) /\ w.last > 0 /\ i \in Nat
    BY <2>1 DEF Written, Live
  <2>3. Valid(w, i) /\ w.at[i] \in Block /\ m_tail # InvalidBlock
    BY <2>2, TrailFacts, BlockParts DEF Core
  <2>4. w.at[i] # m_tail
    BY <2>2, <2>3, TailPlaces DEF Core
  <2>5. PageOf(w.at[i]) \in Pages /\ In(w, i, PageOf(w.at[i]))
    BY <2>3, BlockParts DEF In
  <2> QED
    BY <2>2, <2>3, <2>4, <2>5 DEF Core, PagesHeld
<1> QED
  BY <1>1, <1>2, <1>3, <1>4, <1>5

\* Nothing becomes ready or consumed.
LEMMA ElementsStay ==
    ASSUME Elements, Readies' = Readies, Taken' = Taken, \A b \in Readies \cup Taken : content'[b] = content[b],
           \A e \in Element : (status'[e] = "ready" <=> status[e] = "ready") /\ (status'[e] = "consuming" <=> status[e] = "consuming"),
           \A p \in Producers : PutElementOK(p)'
    PROVE  Elements'
<1>1. Match(Readies, "ready", content', status')
  BY MatchSame DEF Elements
<1>2. Match(Taken, "consuming", content', status')
  BY MatchSame DEF Elements
<1> QED
  BY <1>1, <1>2 DEF Elements

\* The elements of a producer that does not move.
LEMMA OtherElements ==
    ASSUME NEW q \in Producers, PutElementOK(q), prod'[q] = prod[q], prod[q] \in Producer,
           Putting(q) => content'[prod[q].control] = content[prod[q].control],
           \A k \in 1 .. MaxPuts : status[<<q, k>>] \in {"putting", "none"} => status'[<<q, k>>] = status[<<q, k>>],
           ~PAt(q, "idle") => prod[q].puts \in 1 .. MaxPuts, PAt(q, "idle") => ~Putting(q)
    PROVE  PutElementOK(q)'
<1>1. ~PAt(q, "idle") /\ status[Current(q)] \in {"putting", "none"} => status'[Current(q)] = status[Current(q)]
  BY DEF Current
<1>2. Putting(q)' <=> Putting(q)
  BY DEF Putting
<1>3. Current(q)' = Current(q) /\ (PAt(q, "idle")' <=> PAt(q, "idle"))
  BY DEF Current, PAt
<1>4. PutElementOK(q) => /\ Putting(q) => status[Current(q)] = "putting"
                         /\ ~PAt(q, "idle") /\ ~Putting(q) => status[Current(q)] = "none"
  BY DEF PutElementOK
<1>5. /\ Putting(q)' => status'[Current(q)'] = "putting"
      /\ ~PAt(q, "idle")' /\ ~Putting(q)' => status'[Current(q)'] = "none"
  BY <1>1, <1>2, <1>3, <1>4
<1>6. Putting(q)' /\ ~(prod'[q].pc \in {"settle", "fill"} /\ prod'[q].tail = prod'[q].control) =>
          content'[prod'[q].control] = <<q, prod'[q].puts, 0>>
  BY <1>2 DEF PutElementOK
<1>7. \A k \in 1 .. MaxPuts : k > prod'[q].puts => status'[<<q, k>>] = "none"
  BY DEF PutElementOK
<1> QED
  BY <1>5, <1>6, <1>7 DEF PutElementOK, Current

\* The elements of the producer that moves, which may go on with the same one.
LEMMA SameElement ==
    ASSUME NEW p \in Producers, PutElementOK(p), UNCHANGED status,
           prod'[p].control = prod[p].control, prod'[p].puts = prod[p].puts,
           PAt(p, "idle") => PAt(p, "idle")',
           Putting(p) => content'[prod[p].control] = content[prod[p].control],
           Putting(p) /\ prod[p].pc \in {"settle", "fill"} /\ prod[p].tail = prod[p].control =>
              prod'[p].pc \in {"settle", "fill"} /\ prod'[p].tail = prod[p].tail
    PROVE  PutElementOK(p)'
<1>1. (Putting(p)' <=> Putting(p)) /\ Current(p)' = Current(p)
  BY DEF Putting, Current
<1>2. /\ Putting(p)' => status'[Current(p)'] = "putting"
      /\ ~PAt(p, "idle")' /\ ~Putting(p)' => status'[Current(p)'] = "none"
  BY <1>1 DEF PutElementOK
<1>3. Putting(p)' /\ ~(prod'[p].pc \in {"settle", "fill"} /\ prod'[p].tail = prod'[p].control) =>
          content'[prod'[p].control] = <<p, prod'[p].puts, 0>>
  BY <1>1 DEF PutElementOK
<1>4. \A k \in 1 .. MaxPuts : k > prod'[p].puts => status'[<<p, k>>] = "none"
  BY DEF PutElementOK
<1> QED
  BY <1>2, <1>3, <1>4 DEF PutElementOK, Current

---------------------------------------------------------------------------
(* The steps of a producer *)

\* A step of producer p, and the trail after it.
Put(w, v, Z, k, p) ==
    /\ Core(w) /\ Core(v)' /\ ProducerFrame(w, v, Z, k, p) /\ Elements
    /\ UNCHANGED <<headVars, layers, alive>>

\* The other producers, and what consumers have.
LEMMA PutOthers ==
    ASSUME NEW w, NEW v, NEW Z, NEW k, NEW p \in Producers, Put(w, v, Z, k, p),
           \A i \in Written(w) : (w.at[i] = prod[p].tail /\ prod[p].pc = "fill") \/ content'[w.at[i]] = content[w.at[i]],
           \A e \in Element : e # Current(p) => status'[e] = status[e]
    PROVE  /\ Taken' = Taken
           /\ \A q \in Producers \ {p} : PutElementOK(q)'
           /\ \A b \in Readies \cup Taken : content'[b] = content[b]
<1>1. Taken' = Taken
  BY DEF Taken, Takes, At, Put, headVars
<1>2. Core(w) /\ Elements /\ Moved(p)
  BY DEF Put, ProducerFrame
<1>3. prod[p].pc = "fill" =>
        \E j \in Written(w) : /\ w.at[j] = prod[p].tail
                              /\ \/ prod[p].tail = prod[p].control /\ Putting(p)
                                 \/ IsDead(m_next[prod[p].tail])
  <2>1. PutterOK(w, p) /\ AllocationOK(p) /\ w.head \in Nat /\ w.last \in Nat
    BY <1>2, ProducerKnown, TrailFacts DEF Core
  <2> QED
    BY <2>1 DEF PutterOK, AllocationOK, Written
<1>4. \A b \in Readies : content'[b] = content[b]
  <2> SUFFICES ASSUME NEW b \in Readies PROVE content'[b] = content[b]
    OBVIOUS
  <2>1. PICK i \in Written(w) : b = w.at[i] /\ m_next[b].flags \cap {"busy", "dead"} = {}
    BY <1>2, HeldBlocks
  <2>2. Putting(p) => prod[p].control # b
    BY <1>2, <2>1, HeldBlocks
  <2>3. ~(w.at[i] = prod[p].tail /\ prod[p].pc = "fill")
    BY <1>3, <2>1, <2>2 DEF IsDead
  <2> QED
    BY <2>1, <2>3
<1>5. \A b \in Taken : content'[b] = content[b]
  <2> SUFFICES ASSUME NEW b \in Taken PROVE content'[b] = content[b]
    OBVIOUS
  <2>1. PICK i \in Written(w) : b = w.at[i] /\ "busy" \in m_next[b].flags
    BY <1>2, HeldBlocks
  <2>2. Putting(p) => prod[p].control # b
    BY <1>2, HeldBlocks
  <2>3. ~(w.at[i] = prod[p].tail /\ prod[p].pc = "fill")
    BY <1>3, <2>1, <2>2 DEF IsDead
  <2> QED
    BY <2>1, <2>3
<1>6. ASSUME NEW q \in Producers \ {p} PROVE PutElementOK(q)'
  <2>1. PutElementOK(q) /\ prod'[q] = prod[q] /\ prod[q] \in Producer /\ AllocationOK(q)
    BY <1>2, ProducerKnown DEF Elements, Moved
  <2>2. Putting(q) => content'[prod[q].control] = content[prod[q].control]
    <3> SUFFICES ASSUME Putting(q) PROVE content'[prod[q].control] = content[prod[q].control]
      OBVIOUS
    <3>1. PICK i \in Written(w) : prod[q].control = w.at[i] /\ "busy" \in m_next[w.at[i]].flags
      BY <1>2, HeldBlocks
    <3>2. Putting(p) => prod[p].control # prod[q].control
      BY <1>2 DEF Core, PuttersOK
    <3>3. ~(w.at[i] = prod[p].tail /\ prod[p].pc = "fill")
      BY <1>3, <3>1, <3>2 DEF IsDead
    <3> QED
      BY <3>1, <3>3
  <2>3. \A j \in 1 .. MaxPuts : status'[<<q, j>>] = status[<<q, j>>]
    BY DEF Element, Current
  <2> QED
    BY <2>1, <2>2, <2>3, OtherElements DEF AllocationOK, PAt
<1> QED
  BY <1>1, <1>4, <1>5, <1>6

\* What is ready stays so, and nothing else becomes ready.
LEMMA PutStays ==
    ASSUME NEW w, NEW v, NEW Z, NEW k, NEW p \in Producers, Put(w, v, Z, k, p),
           \A i \in Written(w) : (w.at[i] = prod[p].tail /\ prod[p].pc = "fill") \/ content'[w.at[i]] = content[w.at[i]],
           \/ status' = status
           \/ /\ status' = [status EXCEPT ![Current(p)] = "putting"] /\ status[Current(p)] = "none"
           \/ /\ status' = [status EXCEPT ![Current(p)] = "cancelled"] /\ status[Current(p)] = "putting",
           \A b \in Block : m_next'[b] # m_next[b] => b \notin Readies /\ ~ReadyWord(m_next'[b]),
           PutElementOK(p)'
    PROVE  Elements'
<1>1. Core(w) /\ Core(v)' /\ Frame(w, v, Z, k) /\ Elements
  BY DEF Put, ProducerFrame
<1>2. status \in [Element -> Status]
  BY <1>1 DEF Core, Shape, TypesTrail, TypeOK, BaseTypeOK
<1>3. \A e \in Element : e # Current(p) => status'[e] = status[e]
  BY <1>2
<1>4. \A e \in Element : (status'[e] = "ready" <=> status[e] = "ready") /\ (status'[e] = "consuming" <=> status[e] = "consuming")
  BY <1>2
<1>5. Readies' = Readies
  BY <1>1, ReadiesSame
<1>6. /\ Taken' = Taken /\ \A q \in Producers \ {p} : PutElementOK(q)'
      /\ \A b \in Readies \cup Taken : content'[b] = content[b]
  BY <1>3, PutOthers
<1> QED
  BY <1>1, <1>4, <1>5, <1>6, ElementsStay

\* What is known of the producer and of its element.
LEMMA PutKnown ==
    ASSUME NEW w, NEW v, NEW Z, NEW k, NEW p \in Producers, Put(w, v, Z, k, p)
    PROVE  /\ Core(w) /\ Core(v)' /\ Frame(w, v, Z, k) /\ Elements /\ PutElementOK(p) /\ AllocationOK(p) /\ PutterOK(w, p)
           /\ status \in [Element -> Status] /\ prod[p] \in Producer /\ prod'[p] \in Producer
           /\ m_next \in [Block -> NextPtr] /\ v.head = w.head
           /\ Putting(p) => prod[p].control \in Block /\ \E i \in Written(w) : prod[p].control = w.at[i]
           /\ ~PAt(p, "idle") => Current(p) \in Element
           /\ m_tail # InvalidBlock => m_tail \notin Readies /\ IsEnd(m_next[m_tail]) /\ m_tail \in Block
           /\ \A i \in Written(w) : w.at[i] \in Block /\ w.at[i] # m_tail
<1>1. Core(w) /\ Core(v)' /\ Frame(w, v, Z, k) /\ Elements /\ PutElementOK(p) /\ v.head = w.head /\ Moved(p)
  BY DEF Put, ProducerFrame, Elements
<1>2. /\ AllocationOK(p) /\ PutterOK(w, p) /\ prod[p] \in Producer
      /\ Putting(p) => prod[p].control \in Block
      /\ ~PAt(p, "idle") => Current(p) \in Element
  BY <1>1, ProducerKnown
<1>3. status \in [Element -> Status] /\ m_next \in [Block -> NextPtr]
  BY <1>1 DEF Core, Shape, TypesTrail, TypeOK, BaseTypeOK
<1>4. Putting(p) => \E i \in Written(w) : prod[p].control = w.at[i]
  BY <1>2 DEF PutterOK
<1>5. m_tail # InvalidBlock => m_tail \notin Readies /\ IsEnd(m_next[m_tail]) /\ m_tail \in Block
  BY <1>1, TrailFacts DEF Core, WordsTrail, Readies, ReadyWord
<1>6. \A i \in Written(w) : w.at[i] \in Block /\ w.at[i] # m_tail
  BY <1>1, HeldBlocks
<1>7. prod'[p] \in Producer
  BY <1>1 DEF Moved
<1> QED
  BY <1>1, <1>2, <1>3, <1>4, <1>5, <1>6, <1>7

\* The queue is asked for a block.
LEMMA AskingElements ==
    ASSUME NEW w, NEW v, NEW Z, NEW k, NEW p \in Producers, Put(w, v, Z, k, p), Asking(p)
    PROVE  Elements'
<1>1. /\ Quiet(p) /\ prod'[p].pc = "load_tail"
      /\ \/ PAt(p, "idle") /\ prod'[p].puts = prod[p].puts + 1
         \/ PAt(p, "pending") /\ prod'[p].puts = prod[p].puts
  BY AskingQuiet, PutKnown
<1>2. PutElementOK(p) /\ AllocationOK(p) /\ prod[p] \in Producer /\ prod'[p] \in Producer /\ AllocationOK(p)'
  BY <1>1, PutKnown DEF Quiet
<1>3. PutElementOK(p)'
  <2>1. CASE PAt(p, "pending") /\ prod'[p].puts = prod[p].puts
    BY <1>1, <1>2, <2>1, SameElement DEF Quiet, PAt
  <2>2. CASE PAt(p, "idle") /\ prod'[p].puts = prod[p].puts + 1
    <3>1. ~Putting(p) /\ ~Putting(p)'
      BY <1>1, <1>2, <2>2 DEF AllocationOK, PAt, Quiet, Putting
    <3>2. prod'[p].puts \in 1 .. MaxPuts /\ prod[p].puts \in Nat
      BY <1>1, <1>2, BaseAssumption DEF AllocationOK, Producer
    <3>3. \A j \in 1 .. MaxPuts : j > prod[p].puts => status'[<<p, j>>] = "none"
      BY <1>1, <1>2 DEF Quiet, PutElementOK
    <3>4. status'[Current(p)'] = "none"
      BY <2>2, <3>2, <3>3 DEF Current
    <3>5. \A j \in 1 .. MaxPuts : j > prod'[p].puts => j > prod[p].puts
      BY <2>2, <3>2, BaseAssumption
    <3> QED
      BY <3>1, <3>3, <3>4, <3>5 DEF PutElementOK
  <2> QED
    BY <1>1, <2>1, <2>2
<1> QED
  BY <1>1, <1>3, PutStays DEF Quiet

\* The allocation goes on, or ends with nothing.
LEMMA GoingElements ==
    ASSUME NEW w, NEW v, NEW Z, NEW k, NEW p \in Producers, Put(w, v, Z, k, p), Going(p)
    PROVE  Elements'
<1>1. Quiet(p) /\ prod'[p].puts = prod[p].puts /\ prod[p].pc \notin {"idle", "pending", "fill"}
  BY GoingQuiet, PutKnown
<1>2. PutElementOK(p)'
  <2>1. PutElementOK(p)
    BY PutKnown
  <2>2. prod[p].pc = "settle" => prod'[p].pc = "fill" /\ prod'[p].tail = prod[p].tail
    BY <1>1 DEF Quiet
  <2> QED
    BY <1>1, <2>1, <2>2, SameElement DEF Quiet, PAt
<1> QED
  BY <1>1, <1>2, PutStays DEF Quiet

\* The element, or the raw data, is constructed.
LEMMA FillElements ==
    ASSUME NEW w, NEW v, NEW Z, NEW k, NEW p \in Producers, Put(w, v, Z, k, p), Fill(p)
    PROVE  Elements'
<1>1. /\ PAt(p, "fill") /\ PAt(p, "pending")' /\ Putting(p)
      /\ content' = [a \in Block |->
           IF SamePage(a, prod[p].tail) /\ a[2] \in prod[p].tail[2] .. (prod[p].tail[2] + prod[p].size - 1)
           THEN Allocating(p) ELSE content[a]]
      /\ prod'[p].control = prod[p].control /\ prod'[p].puts = prod[p].puts
      /\ UNCHANGED <<m_next, status>>
  BY FillFacts, PutKnown
<1>2. Core(w) /\ AllocationOK(p) /\ PutterOK(w, p) /\ PutElementOK(p) /\ Shape(w)
  BY PutKnown DEF Core
<1>3. w.head \in Nat /\ w.last \in Nat /\ w.head > 0 /\ \A i \in Nat : w.at[i] \in Block
  BY <1>2, TrailFacts
<1>4. PICK i \in Written(w) :
          /\ w.at[i] = prod[p].control
          /\ \E j \in i .. (w.last - 1) :
                  /\ w.at[j] = prod[p].tail /\ w.at[j + 1] = NewTail(prod[p].tail, prod[p].size)
                  /\ j = i <=> "dead" \notin prod[p].flags
  BY <1>1, <1>2 DEF PutterOK, PAt
<1>5. PICK j \in i .. (w.last - 1) :
          /\ w.at[j] = prod[p].tail /\ w.at[j + 1] = NewTail(prod[p].tail, prod[p].size)
          /\ j = i <=> "dead" \notin prod[p].flags
  BY <1>4
<1>6. j \in Written(w) /\ j \in Nat /\ i \in Nat /\ j + 1 \in Index(w) /\ j < w.last /\ prod[p].size \in Nat
  <2>1. prod[p].size \in Nat
    BY PutKnown, BaseAssumption DEF Producer
  <2> QED
    BY <1>3, <1>4, <1>5, <2>1 DEF Written, Index
<1>7. prod[p].tail[2] \in Nat /\ prod[p].tail \in Block /\ w.at[j + 1][2] = prod[p].tail[2] + prod[p].size
      /\ SamePage(w.at[j], w.at[j + 1])
  BY <1>3, <1>5, <1>6, BlockParts DEF NewTail, SamePage, PageOf
\* No other block begins in this one.
<1>8. ASSUME NEW h \in Written(w), w.at[h] # prod[p].tail PROVE content'[w.at[h]] = content[w.at[h]]
  <2>1. Valid(w, h) /\ Valid(w, j) /\ h \in Nat /\ h \in Index(w) /\ j \in Index(w) /\ w.at[h] \in Block /\ h # j
    <3>1. Valid(w, h) /\ Valid(w, j) /\ w.at[h] \in Block
      BY <1>2, <1>6, <1>8, HeldBlocks
    <3> QED
      BY <1>3, <1>5, <1>6, <1>8, <3>1 DEF Written, Index
  <2>2. w.at[h][2] \in Nat
    BY <2>1, BlockParts
  <2>3. SUFFICES ASSUME SamePage(w.at[h], prod[p].tail)
                 PROVE  w.at[h][2] \notin prod[p].tail[2] .. (prod[p].tail[2] + prod[p].size - 1)
    BY <1>1, <2>1
  <2>4. CASE h < j
    <3>1. w.at[h][2] < w.at[j][2]
      BY <1>2, <1>5, <2>1, <2>3, <2>4, SameLife
    <3> QED
      BY <1>5, <1>6, <1>7, <2>2, <3>1
  <2>5. CASE j < h
    <3>1. Valid(w, j + 1) /\ h >= j + 1 /\ (h = j + 1 \/ j + 1 < h)
      BY <1>2, <1>6, <1>7, <2>1, <2>5, SameLife DEF Continues
    <3>2. w.at[j + 1][2] <= w.at[h][2]
      <4>1. CASE h = j + 1
        BY <2>2, <4>1
      <4>2. CASE j + 1 < h
        <5>1. SamePage(w.at[j + 1], w.at[h])
          BY <1>5, <1>7, <2>3 DEF SamePage
        <5>2. w.at[j + 1][2] < w.at[h][2]
          BY <1>2, <2>1, <3>1, <4>2, <5>1, SameLife
        <5> QED
          BY <1>6, <1>7, <2>2, <5>2
      <4> QED
        BY <3>1, <4>1, <4>2
    <3> QED
      BY <1>6, <1>7, <2>2, <3>2
  <2> QED
    BY <1>6, <2>1, <2>4, <2>5
<1>9. PutElementOK(p)'
  <2>1. (Putting(p)' <=> Putting(p)) /\ Current(p)' = Current(p)
    BY <1>1 DEF Putting, Current
  <2>2. /\ Putting(p)' => status'[Current(p)'] = "putting"
        /\ ~PAt(p, "idle")' /\ ~Putting(p)' => status'[Current(p)'] = "none"
    BY <1>1, <1>2, <2>1 DEF PutElementOK
  <2>3. content'[prod[p].control] = <<p, prod[p].puts, 0>>
    <3>1. CASE prod[p].tail = prod[p].control
      <4>1. i = j
        <5>1. Valid(w, i) /\ Valid(w, j)
          BY <1>2, <1>6, HeldBlocks
        <5> QED
          BY <1>2, <1>4, <1>5, <3>1, <5>1, OnePlace
      <4>2. "dead" \notin prod[p].flags
        BY <1>5, <4>1
      <4>3. prod[p].size > 0
        BY <1>1, <1>2 DEF AllocationOK, PAt
      <4>4. content'[prod[p].tail] = Allocating(p)
        BY <1>1, <1>6, <1>7, <4>3 DEF SamePage
      <4> QED
        BY <3>1, <4>2, <4>4 DEF Allocating
    <3>2. CASE prod[p].tail # prod[p].control
      BY <1>1, <1>2, <1>4, <1>8, <3>2 DEF PutElementOK
    <3> QED
      BY <3>1, <3>2
  <2>4. \A n \in 1 .. MaxPuts : n > prod'[p].puts => status'[<<p, n>>] = "none"
    BY <1>1, <1>2 DEF PutElementOK
  <2> QED
    BY <1>1, <2>2, <2>3, <2>4 DEF PutElementOK, Current
<1>10. \A h \in Written(w) : (w.at[h] = prod[p].tail /\ prod[p].pc = "fill") \/ content'[w.at[h]] = content[w.at[h]]
  BY <1>1, <1>8 DEF PAt
<1> QED
  BY <1>1, <1>9, <1>10, PutStays

\* The same element, and what is written is no ready word.
LEMMA PutSame ==
    ASSUME NEW w, NEW v, NEW Z, NEW k, NEW p \in Producers, Put(w, v, Z, k, p),
           prod'[p].control = prod[p].control, prod'[p].puts = prod[p].puts, UNCHANGED status,
           prod[p].pc \notin {"idle", "settle", "fill"},
           \A i \in Written(w) : content'[w.at[i]] = content[w.at[i]],
           \A b \in Block : m_next'[b] # m_next[b] => b \notin Readies /\ ~ReadyWord(m_next'[b])
    PROVE  Elements'
<1>1. PutElementOK(p)
  BY PutKnown
<1>2. Putting(p) => content'[prod[p].control] = content[prod[p].control]
  BY PutKnown
<1>3. PutElementOK(p)'
  BY <1>1, <1>2, SameElement DEF PAt
<1> QED
  BY <1>3, PutStays

\* The end of the new block.
LEMMA NullTerminateElements ==
    ASSUME NEW w, NEW v, NEW Z, NEW k, NEW p \in Producers, Put(w, v, Z, k, p), NullTerminate(p)
    PROVE  Elements'
<1>1. Core(w) /\ m_next \in [Block -> NextPtr]
  BY PutKnown
<1>2. /\ PAt(p, "try") /\ m_tail \in Block /\ prod'[p].control = prod[p].control /\ prod'[p].puts = prod[p].puts
      /\ UNCHANGED <<content, status>>
      /\ \E r \in Block : /\ SamePage(m_tail, r) /\ m_tail[2] < r[2] /\ m_next' = [m_next EXCEPT ![r] = Zero]
  BY <1>1, NullTerminateFacts
<1>3. PICK r \in Block : SamePage(m_tail, r) /\ m_tail[2] < r[2] /\ m_next' = [m_next EXCEPT ![r] = Zero]
  BY <1>2
<1>4. \A i \in Index(w) : Valid(w, i) => w.at[i] # r
  BY <1>1, <1>2, <1>3, TailPlaces, BlockParts DEF Core
<1>5. r \notin Readies
  <2>1. \A i \in Written(w) : Valid(w, i) /\ i \in Index(w)
    BY <1>1, HeldBlocks DEF Valid
  <2> QED
    BY <1>1, <1>4, <2>1, HeldBlocks
<1>6. \A b \in Block : m_next'[b] # m_next[b] => b = r /\ m_next'[b] = Zero
  BY <1>1, <1>3
<1>7. ~ReadyWord(Zero)
  BY DEF ReadyWord, IsEnd, Zero
<1> QED
  BY <1>2, <1>5, <1>6, <1>7, PutSame DEF PAt

\* The rest of the page is a dead block; or a page is linked, or the first.
LEMMA TailElements ==
    ASSUME NEW w, NEW v, NEW Z, NEW k, NEW p \in Producers, Put(w, v, Z, k, p),
           (SpinPad(p) /\ put = "spin") \/ LinkNextPage(p) \/ SetInitialPage(p)
    PROVE  Elements'
<1>1. Core(w) /\ m_next \in [Block -> NextPtr] /\ (m_tail # InvalidBlock => m_tail \notin Readies)
  BY PutKnown
<1>2. /\ prod[p].pc \in {"try", "link_page", "init_page"}
      /\ prod'[p].control = prod[p].control /\ prod'[p].puts = prod[p].puts
      /\ UNCHANGED <<content, status>>
      /\ \/ m_next' = m_next
         \/ m_tail \in Block /\ \E b : m_next' = [m_next EXCEPT ![m_tail] = NextWord(b, {"dead"})]
  <2>1. CASE SpinPad(p) /\ put = "spin"
    <3>1. /\ PAt(p, "try") /\ m_tail \in Block /\ m_next' = [m_next EXCEPT ![m_tail] = NextWord(m_tail', {"dead"})]
          /\ prod'[p].control = prod[p].control /\ prod'[p].puts = prod[p].puts /\ UNCHANGED <<content, status>>
      BY <1>1, <2>1, SpinPadFacts
    <3> QED
      BY <3>1 DEF PAt
  <2>2. CASE LinkNextPage(p)
    <3>1. /\ PAt(p, "link_page") /\ m_tail \in Block /\ EnterPage(p) /\ UNCHANGED <<content, status>>
          /\ m_next' = [m_next EXCEPT ![m_tail] = NextWord(FirstBlock(prod[p].new_page), {"dead"})]
      BY <1>1, <2>2, LinkFacts
    <3>2. prod'[p].control = prod[p].control /\ prod'[p].puts = prod[p].puts
      BY <1>1, <3>1, EnterPageMoved DEF PAt
    <3> QED
      BY <3>1, <3>2 DEF PAt
  <2>3. CASE SetInitialPage(p)
    <3>1. /\ PAt(p, "init_page") /\ EnterPage(p) /\ UNCHANGED <<m_next, content, status>>
      BY <1>1, <2>3, InitialFacts
    <3>2. prod'[p].control = prod[p].control /\ prod'[p].puts = prod[p].puts
      BY <1>1, <3>1, EnterPageMoved DEF PAt
    <3> QED
      BY <3>1, <3>2 DEF PAt
  <2> QED
    BY <2>1, <2>2, <2>3
<1>3. \A b \in Block : m_next'[b] # m_next[b] => b \notin Readies /\ ~ReadyWord(m_next'[b])
  <2>1. CASE m_next' = m_next
    BY <2>1
  <2>2. CASE m_tail \in Block /\ \E b : m_next' = [m_next EXCEPT ![m_tail] = NextWord(b, {"dead"})]
    <3>1. PICK b : m_next' = [m_next EXCEPT ![m_tail] = NextWord(b, {"dead"})]
      BY <2>2
    <3>2. \A a \in Block : m_next'[a] # m_next[a] => a = m_tail /\ m_next'[a] = NextWord(b, {"dead"})
      BY <1>1, <3>1
    <3>3. ~ReadyWord(NextWord(b, {"dead"}))
      BY DEF ReadyWord, NextWord
    <3>4. m_tail # InvalidBlock
      BY <2>2, BlockParts
    <3> QED
      BY <1>1, <3>2, <3>3, <3>4
  <2> QED
    BY <1>2, <2>1, <2>2
<1> QED
  BY <1>2, <1>3, PutSame

\* A page is created: the queue had nothing there.
LEMMA NewPageElements ==
    ASSUME NEW w, NEW v, NEW Z, NEW k, NEW p \in Producers, Put(w, v, Z, k, p), NEW q \in Pages, Creates(p, q)
    PROVE  Elements'
<1>1. Core(w) /\ m_next \in [Block -> NextPtr]
  BY PutKnown
<1>2. put' = put
  BY DEF Put, layers
<1>3. /\ PAt(p, "try") /\ pool[q] # "queue" /\ UNCHANGED status
      /\ \A a \in Block : PageOf(a) # q => m_next'[a] = m_next[a] /\ content'[a] = content[a]
      /\ prod'[p].control = prod[p].control /\ prod'[p].puts = prod[p].puts
  BY <1>1, <1>2, NewPageFacts
<1>4. \A i \in Written(w) : PageOf(w.at[i]) # q /\ w.at[i] \in Block
  BY <1>1, <1>3, HeldBlocks
<1>5. \A b \in Readies : PageOf(b) # q
  BY <1>1, <1>4, HeldBlocks
<1>6. \A b \in Block : m_next'[b] # m_next[b] => m_next'[b] \in {m_next[b], Zero, InvalidNextPage}
  BY <1>1 DEF Creates, NewPage
<1>7. ~ReadyWord(Zero) /\ ~ReadyWord(InvalidNextPage)
  BY DEF ReadyWord, IsEnd, Zero, InvalidNextPage
<1>8. \A b \in Block : m_next'[b] # m_next[b] => b \notin Readies /\ ~ReadyWord(m_next'[b])
  BY <1>3, <1>5, <1>6, <1>7
<1> QED
  BY <1>3, <1>4, <1>8, PutSame DEF PAt

\* The control word of the new block, which is busy or dead.
LEMMA StoreControlElements ==
    ASSUME NEW w, NEW v, NEW Z, NEW k, NEW p \in Producers, Put(w, v, Z, k, p), NEW pc \in {"settle", "fill"},
           StoreControl(p, pc), pc = "settle" => put = "spin"
    PROVE  Elements'
<1>1. Core(w) /\ m_next \in [Block -> NextPtr] /\ (m_tail # InvalidBlock => m_tail \notin Readies)
  BY PutKnown
<1>2. put' = put
  BY DEF Put, layers
<1>3. /\ PAt(p, "store") /\ prod'[p].pc = pc /\ m_tail \in Block
      /\ m_next' = [m_next EXCEPT ![m_tail] = NextWord(m_tail', prod[p].flags)]
      /\ prod'[p].tail = m_tail /\ prod'[p].puts = prod[p].puts
      /\ IF Putting(p)
              THEN prod'[p].control = prod[p].control /\ UNCHANGED status /\ "dead" \in prod[p].flags
              ELSE /\ prod'[p].control = m_tail /\ "busy" \in prod[p].flags
                   /\ status' = [status EXCEPT ![Current(p)] = "putting"]
      /\ UNCHANGED content
  BY <1>1, <1>2, StoreControlFacts
<1>4. \A b \in Block : m_next'[b] # m_next[b] => b \notin Readies /\ ~ReadyWord(m_next'[b])
  <2>1. \A b \in Block : m_next'[b] # m_next[b] => b = m_tail /\ m_next'[b] = NextWord(m_tail', prod[p].flags)
    BY <1>1, <1>3
  <2>2. "busy" \in prod[p].flags \/ "dead" \in prod[p].flags
    BY <1>3
  <2>3. NextWord(m_tail', prod[p].flags).flags = prod[p].flags
    BY DEF NextWord
  <2>4. ~ReadyWord(NextWord(m_tail', prod[p].flags))
    BY <2>2, <2>3 DEF ReadyWord
  <2>5. m_tail # InvalidBlock
    BY <1>3, BlockParts
  <2> QED
    BY <1>1, <2>1, <2>4, <2>5
<1>5. CASE Putting(p)
  BY <1>3, <1>4, <1>5, PutSame DEF PAt
<1>6. CASE ~Putting(p)
  <2>1. PutElementOK(p) /\ AllocationOK(p) /\ status \in [Element -> Status] /\ Current(p) \in Element
    BY <1>3, PutKnown DEF PAt
  <2>2. status[Current(p)] = "none"
    BY <1>3, <1>6, <2>1 DEF PutElementOK, PAt
  <2>3. PutElementOK(p)'
    <3>1. m_tail # NoBlock /\ Putting(p)'
      BY <1>3, <1>6, BlockParts DEF Putting
    <3>2. Current(p)' = Current(p) /\ status'[Current(p)] = "putting"
      BY <1>3, <1>6, <2>1 DEF Current
    <3>3. prod'[p].pc \in {"settle", "fill"} /\ prod'[p].tail = prod'[p].control
      BY <1>3, <1>6
    <3>4. \A j \in 1 .. MaxPuts : j > prod'[p].puts => status'[<<p, j>>] = "none"
      <4> SUFFICES ASSUME NEW j \in 1 .. MaxPuts, j > prod'[p].puts PROVE status'[<<p, j>>] = "none"
        OBVIOUS
      <4>1. <<p, j>> # Current(p) /\ <<p, j>> \in Element
        <5>1. prod[p].puts \in Nat
          BY PutKnown, BaseAssumption DEF Producer
        <5>2. j # prod[p].puts
          BY <1>3, <5>1
        <5> QED
          BY <5>2 DEF Current, Element
      <4> QED
        BY <1>3, <1>6, <2>1, <4>1 DEF PutElementOK
    <3> QED
      BY <3>1, <3>2, <3>3, <3>4 DEF PutElementOK
  <2> QED
    BY <1>3, <1>4, <1>6, <2>2, <2>3, PutStays
<1> QED
  BY <1>5, <1>6

\* The transaction is committed or cancelled.
LEMMA EndPutElements ==
    ASSUME NEW w, NEW v, NEW Z, NEW k, NEW p \in Producers, Put(w, v, Z, k, p), CommitPut(p) \/ CancelPut(p)
    PROVE  Elements'
<1>1. /\ Core(w) /\ Core(v)' /\ Frame(w, v, Z, k) /\ Elements /\ PutElementOK(p) /\ AllocationOK(p) /\ PutterOK(w, p)
      /\ m_next \in [Block -> NextPtr] /\ status \in [Element -> Status] /\ v.head = w.head /\ prod[p] \in Producer
  BY PutKnown
<1> DEFINE b == prod[p].control
<1>2. /\ PAt(p, "pending") /\ PAt(p, "idle")' /\ Putting(p) /\ b \in Block
      /\ prod'[p].control = NoBlock /\ prod'[p].puts = prod[p].puts /\ UNCHANGED content
      /\ \E f \in SUBSET Flag :
           /\ m_next' = [m_next EXCEPT ![b] = NextWord(prod[p].next.to, f)]
           /\ "busy" \notin f
           /\ \/ "dead" \notin f /\ status' = [status EXCEPT ![Current(p)] = "ready"]
              \/ "dead" \in f /\ status' = [status EXCEPT ![Current(p)] = "cancelled"]
  BY <1>1, EndPutFacts
<1>3. PICK f : /\ m_next' = [m_next EXCEPT ![b] = NextWord(prod[p].next.to, f)]
               /\ "busy" \notin f
               /\ \/ "dead" \notin f /\ status' = [status EXCEPT ![Current(p)] = "ready"]
                  \/ "dead" \in f /\ status' = [status EXCEPT ![Current(p)] = "cancelled"]
  BY <1>2
<1>4. PICK i \in Written(w) : b = w.at[i] /\ "busy" \in m_next[b].flags
  BY <1>1, <1>2, HeldBlocks
<1>5. b \notin Readies
  BY <1>4 DEF Readies, ReadyWord
<1>6. \A a \in Block : m_next'[a] # m_next[a] => a = b
  BY <1>1, <1>3
<1>7. NextWord(prod[p].next.to, f).flags = f /\ NextWord(prod[p].next.to, f).to = prod[p].next.to
      /\ m_next'[b] = NextWord(prod[p].next.to, f)
  BY <1>1, <1>2, <1>3 DEF NextWord
<1>8. Current(p) \in Element /\ status[Current(p)] = "putting" /\ content[b] = <<p, prod[p].puts, 0>>
  BY <1>1, <1>2, PutKnown DEF PutElementOK, PAt
<1>9. PutElementOK(p)'
  <2>1. \A j \in 1 .. MaxPuts : j > prod'[p].puts => status'[<<p, j>>] = "none"
    <3> SUFFICES ASSUME NEW j \in 1 .. MaxPuts, j > prod'[p].puts PROVE status'[<<p, j>>] = "none"
      OBVIOUS
    <3>1. <<p, j>> # Current(p) /\ <<p, j>> \in Element
      <4>1. prod[p].puts \in Nat
        BY <1>1, BaseAssumption DEF Producer
      <4>2. j # prod[p].puts
        BY <1>2, <4>1
      <4> QED
        BY <4>2 DEF Current, Element
    <3>2. status'[<<p, j>>] = status[<<p, j>>]
      BY <1>1, <1>3, <3>1
    <3> QED
      BY <1>1, <1>2, <3>2 DEF PutElementOK
  <2> QED
    BY <1>2, <2>1 DEF PutElementOK, Putting, PAt
<1>10. CASE "dead" \in f /\ status' = [status EXCEPT ![Current(p)] = "cancelled"]
  <2>1. ~ReadyWord(m_next'[b])
    BY <1>7, <1>10 DEF ReadyWord
  <2> HIDE DEF b
  <2>2. \A a \in Block : m_next'[a] # m_next[a] => a \notin Readies /\ ~ReadyWord(m_next'[a])
    BY <1>5, <1>6, <2>1
  <2> QED
    BY <1>2, <1>8, <1>9, <1>10, <2>2, PutStays
<1>11. CASE "dead" \notin f /\ status' = [status EXCEPT ![Current(p)] = "ready"]
  <2>1. /\ Taken' = Taken /\ \A q \in Producers \ {p} : PutElementOK(q)'
        /\ \A a \in Readies \cup Taken : content'[a] = content[a]
    BY <1>1, <1>2, <1>11, PutOthers
  <2>2. prod[p].next.to \in Block
    BY <1>1, <1>2, ProducerKnown
  <2>3. ReadyWord(m_next'[b])
    BY <1>3, <1>7, <1>11, <2>2, BlockParts DEF ReadyWord, IsEnd
  <2>4. Readies' = Readies \cup {b}
    <3> HIDE DEF b
    <3>1. b \in Readies'
      BY <1>1, <1>4, <2>3, ReadiesStep
    <3>2. \A a \in Readies : a \in Readies'
      <4> TAKE a \in Readies
      <4>1. a \in Block /\ ReadyWord(m_next[a]) /\ a # b
        BY <1>5 DEF Readies
      <4>2. m_next'[a] = m_next[a]
        BY <1>6, <4>1
      <4> QED
        BY <1>1, <4>1, <4>2, ReadiesStep
    <3>3. \A a \in Readies' : a \in Readies \/ a = b
      BY <1>1, <1>6, ReadiesStep
    <3> QED
      BY <3>1, <3>2, <3>3
  <2>5. Current(p)[1] = p /\ Current(p)[2] = prod[p].puts
    BY DEF Current
  <2>6. Match(Readies, "ready", content, status) /\ Match(Taken, "consuming", content, status)
    BY <1>1 DEF Elements
  <2>7. Match(Readies \cup {b}, "ready", content, status')
    <3> HIDE DEF b
    <3> QED
      BY <1>1, <1>8, <1>11, <2>5, <2>6, MatchMore
  <2>8. Match(Taken, "consuming", content, status')
    <3>1. \A e \in Element : status'[e] = "consuming" <=> status[e] = "consuming"
      BY <1>1, <1>8, <1>11
    <3> QED
      BY <2>6, <3>1, MatchSame
  <2> QED
    BY <1>2, <1>9, <2>1, <2>4, <2>7, <2>8 DEF Elements
<1> QED
  BY <1>3, <1>10, <1>11

\* Every step of a producer.
LEMMA PutElements ==
    ASSUME NEW w, NEW v, NEW Z, NEW k, NEW p \in Producers, Put(w, v, Z, k, p), Puts(p)
    PROVE  Elements'
BY AskingElements, GoingElements, FillElements, EndPutElements, NullTerminateElements, StoreControlElements,
   TailElements, NewPageElements DEF Puts

---------------------------------------------------------------------------
(* The steps of a consumer *)

\* A step of consumer c, and the trail after it.
Get(w, v, k, c) ==
    /\ Core(w) /\ Core(v)' /\ ConsumerFrame(w, v, k, c) /\ Elements
    /\ Many(w, c) \/ One(w, c)

\* What is known of the consumer, and of the elements.
LEMMA GetKnown ==
    ASSUME NEW w, NEW v, NEW k, NEW c \in Consumers, Get(w, v, k, c)
    PROVE  /\ Core(w) /\ Core(v)' /\ Frame(w, v, {}, k) /\ Elements /\ TakerOK(w, c) /\ UNCHANGED <<tailVars, content>>
           /\ status \in [Element -> Status] /\ m_next \in [Block -> NextPtr] /\ cons \in [Consumers -> Consume]
           /\ \A d \in Consumers \ {c} : cons'[d] = cons[d]
           /\ \A d \in Consumers \ {c} : Takes(d) /\ Takes(c) => cons[d].control # cons[c].control
           /\ m_next' # m_next => v.head = w.head
           /\ Match(Readies, "ready", content, status) /\ Match(Taken, "consuming", content, status)
<1>1. Core(w) /\ Core(v)' /\ ConsumerFrame(w, v, k, c) /\ Elements
  BY DEF Get
<1>2. /\ Frame(w, v, {}, k) /\ UNCHANGED <<tailVars, content>> /\ Writes(w, k, c)
      /\ \A d \in Consumers \ {c} : cons'[d] = cons[d]
  BY <1>1 DEF ConsumerFrame, ConsumerMoved
<1>3. status \in [Element -> Status] /\ m_next \in [Block -> NextPtr] /\ cons \in [Consumers -> Consume]
  BY <1>1 DEF Core, Shape, TypesTrail, TypeOK, BaseTypeOK, HeadTypeOK
<1>4. TakerOK(w, c) /\ \A d \in Consumers \ {c} : Takes(d) /\ Takes(c) => cons[d].control # cons[c].control
  BY <1>1 DEF Core, TakersOK
<1>5. m_next' # m_next => v.head = w.head
  <2> SUFFICES ASSUME m_next' # m_next PROVE v.head = w.head
    OBVIOUS
  <2>1. w.head \in Nat /\ w.last \in Nat /\ w.head > 0
    BY <1>1, TrailFacts DEF Core
  <2>2. k # 0
    BY <1>2, <2>1 DEF Writes, Written
  <2> QED
    BY <1>2, <2>2 DEF Frame
<1>6. Match(Readies, "ready", content, status) /\ Match(Taken, "consuming", content, status)
  BY <1>1 DEF Elements
<1> QED
  BY <1>1, <1>2, <1>3, <1>4, <1>5, <1>6

\* The elements that are being put.
LEMMA PutElementsStay ==
    ASSUME NEW w, NEW v, NEW k, NEW c \in Consumers, Get(w, v, k, c),
           \A e \in Element : status[e] \in {"putting", "none"} => status'[e] = status[e],
           NEW q \in Producers
    PROVE  PutElementOK(q)'
<1>1. PutElementOK(q) /\ prod[q] \in Producer /\ AllocationOK(q) /\ prod'[q] = prod[q] /\ content' = content
  BY GetKnown, ProducerKnown DEF Elements, tailVars
<1>2. \A j \in 1 .. MaxPuts : <<q, j>> \in Element
  BY DEF Element
<1> QED
  BY <1>1, <1>2, OtherElements DEF AllocationOK, PAt

\* Nothing is taken or given back.
LEMMA GetStays ==
    ASSUME NEW w, NEW v, NEW k, NEW c \in Consumers, Get(w, v, k, c), UNCHANGED status,
           cons[c].pc # "consuming", cons'[c].pc # "consuming",
           \A b \in Block : m_next'[b] # m_next[b] => b \notin Readies /\ ~ReadyWord(m_next'[b])
    PROVE  Elements'
<1>1. \A d \in Consumers : (Takes(d)' <=> Takes(d)) /\ (Takes(d) => cons'[d].control = cons[d].control)
  BY GetKnown DEF Takes, At
<1>2. Taken' = Taken
  BY <1>1 DEF Taken
<1>3. Readies' = Readies
  BY GetKnown, ReadiesSame
<1>4. \A q \in Producers : PutElementOK(q)'
  BY PutElementsStay
<1> QED
  BY <1>2, <1>3, <1>4, GetKnown, ElementsStay

\* A block that is not ready any more.
LEMMA ReadyLess ==
    ASSUME NEW b \in Readies, NEW e, e = ElementOf(content[b]), Match(Readies, "ready", content, status),
           status \in [Element -> Status], status'[e] # "ready",
           \A d \in Element : d # e => status'[d] = status[d]
    PROVE  Match(Readies \ {b}, "ready", content, status')
  BY MatchLess

\* A block that is not being consumed any more.
LEMMA TakenLess ==
    ASSUME NEW b \in Taken, NEW e, e = ElementOf(content[b]), Match(Taken, "consuming", content, status),
           status \in [Element -> Status], status'[e] # "consuming",
           \A d \in Element : d # e => status'[d] = status[d]
    PROVE  Match(Taken \ {b}, "consuming", content, status')
  BY MatchLess

\* A consumer takes the element of the block b, which is ready.
LEMMA GetTakes ==
    ASSUME NEW w, NEW v, NEW k, NEW c \in Consumers, Get(w, v, k, c), NEW b \in Readies, NEW n,
           m_next' = [m_next EXCEPT ![b] = n], "busy" \in n.flags,
           status' = [status EXCEPT ![ElementOf(content[b])] = "consuming"],
           ~Takes(c), Takes(c)', cons'[c].control = b
    PROVE  Elements'
<1>1. /\ status \in [Element -> Status] /\ m_next \in [Block -> NextPtr] /\ content' = content
      /\ \A d \in Consumers \ {c} : cons'[d] = cons[d]
      /\ Match(Readies, "ready", content, status) /\ Match(Taken, "consuming", content, status)
  BY GetKnown
<1>2. b \in Block
  BY DEF Readies
<1>3. Readies' = Readies \ {b}
  <2>1. \A a \in Block : a # b => m_next'[a] = m_next[a]
    BY <1>1
  <2>2. ~ReadyWord(m_next'[b])
    BY <1>1, <1>2 DEF ReadyWord
  <2>3. \A a \in Readies : a # b => a \in Readies'
    <3> SUFFICES ASSUME NEW a \in Readies, a # b PROVE a \in Readies'
      OBVIOUS
    <3>1. a \in Block /\ ReadyWord(m_next[a])
      BY DEF Readies
    <3> QED
      BY <2>1, <3>1, GetKnown, ReadiesStep
  <2>4. \A a \in Readies' : a \in Readies /\ a # b
    <3> SUFFICES ASSUME NEW a \in Readies' PROVE a \in Readies /\ a # b
      OBVIOUS
    <3>1. a \in Block /\ ReadyWord(m_next'[a]) /\ (a \in Readies \/ m_next'[a] # m_next[a])
      BY GetKnown, ReadiesStep
    <3> QED
      BY <2>1, <2>2, <3>1
  <2> QED
    BY <2>3, <2>4
<1>4. Taken' = Taken \cup {b}
  BY <1>1 DEF Taken, Takes, At
<1>5. PICK e : e = ElementOf(content[b])
  OBVIOUS
<1>6. Match(Readies \ {b}, "ready", content, status') /\ e \in Element /\ status[e] = "ready" /\ content[b] = <<e[1], e[2], 0>>
  <2>1. e \in Element /\ status[e] = "ready" /\ content[b] = <<e[1], e[2], 0>>
    BY <1>1, <1>5, ItemElements DEF Match
  <2>2. status'[e] # "ready" /\ \A d \in Element : d # e => status'[d] = status[d]
    BY <1>1, <1>5, <2>1
  <2>3. Match(Readies \ {b}, "ready", content, status')
    BY <1>1, <1>5, <2>2, ReadyLess
  <2> QED
    BY <2>1, <2>3
<1>7. Match(Taken \cup {b}, "consuming", content, status')
  BY <1>1, <1>5, <1>6, MatchMore
<1>8. \A q \in Producers : PutElementOK(q)'
  <2>1. \A d \in Element : status[d] \in {"putting", "none"} => status'[d] = status[d]
    BY <1>1, <1>5, <1>6
  <2> QED
    BY <2>1, PutElementsStay
<1>9. Match(Readies', "ready", content', status') /\ Match(Taken', "consuming", content', status')
  BY <1>1, <1>3, <1>4, <1>6, <1>7
<1> QED
  BY <1>8, <1>9 DEF Elements

\* What a consumer that has taken an element knows of its block.
LEMMA TakenKnown ==
    ASSUME NEW w, NEW v, NEW k, NEW c \in Consumers, Get(w, v, k, c), Takes(c), ~Takes(c)'
    PROVE  /\ Taken' = Taken \ {cons[c].control} /\ cons[c].control \in Taken /\ cons[c].control \in Block
           /\ cons[c].control \notin Readies /\ cons[c].next.to \in Block
           /\ "dead" \in cons[c].next.flags /\ "busy" \notin cons[c].next.flags
           /\ \E i \in Written(w) : w.at[i] = cons[c].control
           /\ "busy" \in m_next[cons[c].control].flags
<1>1. PICK i \in Written(w) :
        /\ w.at[i] = cons[c].control /\ cons[c].next.to = w.at[i + 1] /\ m_next[cons[c].control] = TakenWord(c)
        /\ "dead" \in cons[c].next.flags /\ "busy" \notin cons[c].next.flags
  BY GetKnown DEF TakerOK
<1>2. i \in Nat /\ w.at[i] \in Block /\ w.at[i + 1] \in Block
  BY <1>1, GetKnown, TrailFacts DEF Core, Written
<1>3. "busy" \in m_next[cons[c].control].flags
  BY <1>1 DEF TakenWord, NextWord
<1>4. cons[c].control \notin Readies
  BY <1>3 DEF Readies, ReadyWord
<1>5. Taken' = Taken \ {cons[c].control} /\ cons[c].control \in Taken
  <2>1. \A d \in Consumers \ {c} : /\ Takes(d)' <=> Takes(d)
                                   /\ Takes(d) => cons'[d].control = cons[d].control /\ cons[d].control # cons[c].control
    BY GetKnown DEF Takes, At
  <2> QED
    BY <2>1 DEF Taken
<1> QED
  BY <1>1, <1>2, <1>3, <1>4, <1>5

\* The element that consumer c has is consumed.
LEMMA GetConsumes ==
    ASSUME NEW w, NEW v, NEW k, NEW c \in Consumers, Get(w, v, k, c), Takes(c), ~Takes(c)', NEW b, b = cons[c].control,
           NEW n, m_next' = [m_next EXCEPT ![b] = n], n.flags \cap {"busy", "dead"} # {},
           status' = [status EXCEPT ![ElementOf(content[b])] = "consumed"]
    PROVE  Elements'
<1>1. /\ status \in [Element -> Status] /\ m_next \in [Block -> NextPtr] /\ content' = content
      /\ Match(Readies, "ready", content, status) /\ Match(Taken, "consuming", content, status)
  BY GetKnown
<1>2. Taken' = Taken \ {b} /\ b \in Taken /\ b \in Block /\ b \notin Readies
  BY TakenKnown
<1>3. Readies' = Readies
  <2>1. \A a \in Block : m_next'[a] # m_next[a] => a = b /\ m_next'[a] = n
    BY <1>1
  <2>2. ~ReadyWord(n)
    BY DEF ReadyWord
  <2> QED
    BY <1>2, <2>1, <2>2, GetKnown, ReadiesSame
<1>4. PICK e : e = ElementOf(content[b])
  OBVIOUS
<1>5. Match(Taken \ {b}, "consuming", content, status') /\ e \in Element /\ status[e] = "consuming"
  <2>1. e \in Element /\ status[e] = "consuming" /\ content[b] = <<e[1], e[2], 0>>
    BY <1>1, <1>2, <1>4, ItemElements DEF Match
  <2>2. status'[e] # "consuming" /\ \A d \in Element : d # e => status'[d] = status[d]
    BY <1>1, <1>4, <2>1
  <2>3. Match(Taken \ {b}, "consuming", content, status')
    BY <1>1, <1>2, <1>4, <2>2, TakenLess
  <2> QED
    BY <2>1, <2>3
<1>6. Match(Readies, "ready", content, status')
  <2>1. \A d \in Element : status'[d] = "ready" <=> status[d] = "ready"
    BY <1>1, <1>4, <1>5
  <2> QED
    BY <1>1, <2>1, MatchSame
<1>7. \A q \in Producers : PutElementOK(q)'
  <2>1. \A d \in Element : status[d] \in {"putting", "none"} => status'[d] = status[d]
    BY <1>1, <1>4, <1>5
  <2> QED
    BY <2>1, PutElementsStay
<1>8. Match(Readies', "ready", content', status') /\ Match(Taken', "consuming", content', status')
  BY <1>1, <1>2, <1>3, <1>5, <1>6
<1> QED
  BY <1>7, <1>8 DEF Elements

\* Or it is given back.
LEMMA GetCancels ==
    ASSUME NEW w, NEW v, NEW k, NEW c \in Consumers, Get(w, v, k, c), Takes(c), ~Takes(c)', NEW b, b = cons[c].control,
           m_next' = [m_next EXCEPT ![b] = NextWord(cons[c].next.to, cons[c].next.flags \ {"dead"})],
           status' = [status EXCEPT ![ElementOf(content[b])] = "ready"]
    PROVE  Elements'
<1>1. /\ status \in [Element -> Status] /\ m_next \in [Block -> NextPtr] /\ content' = content
      /\ Match(Readies, "ready", content, status) /\ Match(Taken, "consuming", content, status)
  BY GetKnown
<1>2. /\ Taken' = Taken \ {b} /\ b \in Taken /\ b \in Block /\ b \notin Readies /\ "busy" \in m_next[b].flags
      /\ cons[c].next.to \in Block /\ "busy" \notin cons[c].next.flags /\ \E i \in Written(w) : w.at[i] = b
  BY TakenKnown
<1>3. PICK n : n = NextWord(cons[c].next.to, cons[c].next.flags \ {"dead"})
  OBVIOUS
<1>4. n.to \in Block /\ n.flags \cap {"busy", "dead"} = {} /\ ReadyWord(n)
  BY <1>2, <1>3, BlockParts DEF NextWord, ReadyWord, IsEnd
<1>5. m_next'[b] = n /\ m_next' # m_next /\ \A a \in Block : a # b => m_next'[a] = m_next[a]
  BY <1>1, <1>2, <1>3, <1>4
<1>6. Readies' = Readies \cup {b}
  <2>1. b \in Readies'
    <3>1. PICK i \in Written(w) : w.at[i] = b
      BY <1>2
    <3>2. Core(w) /\ Core(v)' /\ Frame(w, v, {}, k) /\ v.head = w.head /\ ReadyWord(m_next'[w.at[i]])
      BY <1>4, <1>5, <3>1, GetKnown
    <3> QED
      BY <3>1, <3>2, ReadiesStep
  <2>2. \A a \in Readies : a \in Readies'
    <3> TAKE a \in Readies
    <3>1. a \in Block /\ ReadyWord(m_next[a]) /\ a # b
      BY <1>2 DEF Readies
    <3> QED
      BY <1>5, <3>1, GetKnown, ReadiesStep
  <2>3. \A a \in Readies' : a \in Readies \/ a = b
    BY <1>5, GetKnown, ReadiesStep
  <2> QED
    BY <2>1, <2>2, <2>3
<1>7. PICK e : e = ElementOf(content[b])
  OBVIOUS
<1>8. Match(Taken \ {b}, "consuming", content, status') /\ e \in Element /\ status[e] = "consuming" /\ content[b] = <<e[1], e[2], 0>>
  <2>1. e \in Element /\ status[e] = "consuming" /\ content[b] = <<e[1], e[2], 0>>
    BY <1>1, <1>2, <1>7, ItemElements DEF Match
  <2>2. status'[e] # "consuming" /\ \A d \in Element : d # e => status'[d] = status[d]
    BY <1>1, <1>7, <2>1
  <2>3. Match(Taken \ {b}, "consuming", content, status')
    BY <1>1, <1>2, <1>7, <2>2, TakenLess
  <2> QED
    BY <2>1, <2>3
<1>9. Match(Readies \cup {b}, "ready", content, status')
  BY <1>1, <1>7, <1>8, MatchMore
<1>10. \A q \in Producers : PutElementOK(q)'
  <2>1. \A d \in Element : status[d] \in {"putting", "none"} => status'[d] = status[d]
    BY <1>1, <1>7, <1>8
  <2> QED
    BY <2>1, PutElementsStay
<1>11. Match(Readies', "ready", content', status') /\ Match(Taken', "consuming", content', status')
  BY <1>1, <1>2, <1>6, <1>8, <1>9
<1> QED
  BY <1>10, <1>11 DEF Elements

\* The words and what has been put are as before.
LEMMA GetQuiet ==
    ASSUME NEW w, NEW v, NEW k, NEW c \in Consumers, Get(w, v, k, c), UNCHANGED <<m_next, status>>,
           cons[c].pc # "consuming", cons'[c].pc # "consuming"
    PROVE  Elements'
  BY GetStays

\* No loop takes an element by reading a word.
LEMMA LoopsRead ==
    ASSUME NEW c \in Consumers, cons[c].mode \in Mode, NEW b, NEW n, NEW f \in [Consumers -> Consume], cons = f,
           Enter(c, b, n) \/ EnterPlain(c, b, n)
    PROVE  cons'[c].pc # "consuming"
<1>1. AfterLoad(cons[c].mode, n) # "consuming"
  BY DEF AfterLoad, Mode
<1>2. CASE Enter(c, b, n)
  <2>1. cons'[c].pc = AfterLoad(cons[c].mode, n)
    BY <1>2 DEF Enter, Consume
  <2> QED
    BY <1>1, <2>1
<1>3. CASE EnterPlain(c, b, n)
  BY <1>1, <1>3 DEF EnterPlain, NewConsume, Consume
<1> QED
  BY <1>2, <1>3

\* The block that a consumer is about to take, if its word is the one that was read.
LEMMA TakesReady ==
    ASSUME NEW w, NEW v, NEW k, NEW c \in Consumers, Get(w, v, k, c), At(c, "try_busy"), m_next[cons[c].control] = cons[c].next
    PROVE  cons[c].control \in Readies
<1>1. Core(w) /\ consume \in {"single", "multiple"} /\ TakersOK(w) /\ ReadiesAre(w)
  BY GetKnown, ReadiesTrail DEF Core, Shape, TypesTrail
<1>2. PICK i \in Index(w) : Placed(w, c, i)
  <2>1. w.head \in Nat /\ w.last \in Nat /\ w.head > 0
    BY <1>1, TrailFacts DEF Core
  <2> QED
    BY <1>1, <2>1 DEF TakersOK, ManyPlaced, OnePlaced, At, Written, Index
<1>3. Consumable(cons[c].next)
  BY <1>1 DEF TakersOK, ManyPlaced, OnePlaced, At
<1>4. /\ w.head \in Nat /\ w.last \in Nat /\ w.head > 0 /\ i \in Nat /\ i > 0 /\ i < w.last /\ Valid(w, i)
      /\ w.at[i] = cons[c].control /\ w.at[i + 1] \in Block
  BY <1>1, <1>2, TrailFacts DEF Core, Placed, Index
<1>5. i >= w.head
  <2>1. CASE consume = "multiple"
    <3> SUFFICES ASSUME i < w.head PROVE FALSE
      BY <1>4
    <3>1. PassedWord(w, i)
      BY <1>1, <1>4, <2>1 DEF Core, WordsTrail
    <3> QED
      BY <1>2, <1>3, <1>4, <3>1, BlockParts DEF PassedWord, Placed, Consumable, IsDead, Zero
  <2>2. CASE consume = "single"
    <3>1. PICK j \in Written(w) : Placed(w, c, j)
      BY <1>1, <2>2 DEF TakersOK, OnePlaced, At
    <3>2. j \in Nat /\ j >= w.head /\ w.at[j] = cons[c].control /\ Valid(w, j) /\ j < w.last
      BY <1>4, <3>1 DEF Placed, Written
    <3>3. j = i
      BY <1>1, <1>4, <3>2, OnePlace DEF Core
    <3> QED
      BY <3>2, <3>3
  <2> QED
    BY <1>1, <2>1, <2>2
<1>6. i \in Written(w) /\ m_next[w.at[i]].flags \cap {"busy", "dead"} = {}
  BY <1>3, <1>4, <1>5 DEF Written, Consumable
<1> QED
  BY <1>1, <1>4, <1>6 DEF ReadiesAre

\* A consumer searches, or goes on with a Consume that has no element.
LEMMA ManyQuiet ==
    ASSUME NEW w, NEW v, NEW k, NEW c \in Consumers, Get(w, v, k, c),
           \/ Start(c, "consume") \/ Start(c, "empty") \/ Return(c) \/ LoadHead(c) \/ ReloadHead(c)
           \/ LoadInitialPage(c) \/ PinHead(c) \/ UnpinOld(c) \/ UnpinLeft(c) \/ DestroyConsume(c)
           \/ Reread(c) \/ FreeExternal(c) \/ DeallocatePage(c) \/ AdvanceHead(c)
    PROVE  Elements'
<1> USE DEF At
<1>0. cons \in [Consumers -> Consume]
  BY GetKnown
<1>1. CASE Start(c, "consume") \/ Start(c, "empty")
  <2>1. UNCHANGED <<m_next, status>> /\ cons[c].pc # "consuming" /\ cons'[c].pc # "consuming"
    BY <1>0, <1>1 DEF Start, baseVars, Consume
  <2> QED
    BY <2>1, GetQuiet
<1>2. CASE Return(c)
  <2>1. UNCHANGED <<m_next, status>> /\ cons[c].pc # "consuming" /\ cons'[c].pc # "consuming"
    BY <1>0, <1>2 DEF Return, baseVars, Consume
  <2> QED
    BY <2>1, GetQuiet
<1>3. CASE LoadHead(c) \/ ReloadHead(c) \/ LoadInitialPage(c)
  <2>1. UNCHANGED <<m_next, status>> /\ cons[c].pc # "consuming" /\ cons'[c].pc # "consuming"
    BY <1>0, <1>3 DEF LoadHead, ReloadHead, LoadInitialPage, FollowHead, Goto, baseVars, Consume
  <2> QED
    BY <2>1, GetQuiet
<1>4. CASE PinHead(c) \/ UnpinOld(c) \/ UnpinLeft(c)
  <2>1. UNCHANGED <<m_next, status>> /\ cons[c].pc # "consuming" /\ cons'[c].pc # "consuming"
    BY <1>0, <1>4 DEF PinHead, UnpinOld, UnpinLeft, Goto, Consume
  <2> QED
    BY <2>1, GetQuiet
<1>5. CASE DestroyConsume(c) \/ Reread(c)
  <2>1. UNCHANGED <<m_next, status>> /\ cons[c].pc # "consuming" /\ cons'[c].pc # "consuming"
    BY <1>0, <1>5 DEF DestroyConsume, Reread, Goto, baseVars, Consume
  <2> QED
    BY <2>1, GetQuiet
<1>6. CASE FreeExternal(c) \/ DeallocatePage(c) \/ AdvanceHead(c)
  <2>1. UNCHANGED <<m_next, status>> /\ cons[c].pc # "consuming" /\ cons'[c].pc # "consuming"
    BY <1>0, <1>6 DEF FreeExternal, DeallocatePage, AdvanceHead, AfterAdvance, Goto, baseVars, Consume
  <2> QED
    BY <2>1, GetQuiet
<1> QED
  BY <1>1, <1>2, <1>3, <1>4, <1>5, <1>6

\* The word of a block is read.
LEMMA ReadsQuiet ==
    ASSUME NEW w, NEW v, NEW k, NEW c \in Consumers, Get(w, v, k, c),
           \/ LoadHeadNext(c) \/ LoadNext(c) \/ MoveNext(c) \/ InitHead(c)
           \/ InitHeadPlain(c) \/ EnterHead(c) \/ MoveNextPlain(c)
    PROVE  Elements'
<1>0. cons \in [Consumers -> Consume] /\ cons[c].mode \in Mode
  BY GetKnown DEF Consume
<1>1. \A b, n : Enter(c, b, n) \/ EnterPlain(c, b, n) => cons'[c].pc # "consuming"
  BY <1>0, LoopsRead
<1>2. UNCHANGED <<m_next, status>> /\ cons[c].pc # "consuming"
  BY DEF LoadHeadNext, LoadNext, MoveNext, InitHead, InitHeadPlain, EnterHead, MoveNextPlain, baseVars, At
<1>3. cons'[c].pc # "consuming"
  <2>1. CASE LoadHeadNext(c) \/ LoadNext(c)
    BY <1>1, <2>1 DEF LoadHeadNext, LoadNext
  <2>2. CASE MoveNext(c)
    BY <1>0, <1>1, <2>2 DEF MoveNext, Consume
  <2>3. CASE InitHead(c)
    BY <1>0, <1>1, <2>3 DEF InitHead, FollowHead, Consume
  <2>4. CASE InitHeadPlain(c)
    BY <1>1, <1>2, <2>4 DEF InitHeadPlain
  <2>5. CASE EnterHead(c) \/ MoveNextPlain(c)
    BY <1>1, <2>5 DEF EnterHead, MoveNextPlain
  <2> QED
    BY <2>1, <2>2, <2>3, <2>4, <2>5
<1> QED
  BY <1>2, <1>3, GetQuiet

\* The compare and exchange that sets the busy flag.
LEMMA TryElements ==
    ASSUME NEW w, NEW v, NEW k, NEW c \in Consumers, Get(w, v, k, c), TryBusy(c)
    PROVE  Elements'
<1>0. cons \in [Consumers -> Consume] /\ At(c, "try_busy") /\ m_next \in [Block -> NextPtr]
  BY GetKnown DEF TryBusy
<1>1. CASE m_next[cons[c].control] # cons[c].next
  <2>1. UNCHANGED <<m_next, status>> /\ cons[c].pc # "consuming" /\ cons'[c].pc # "consuming"
    BY <1>0, <1>1 DEF TryBusy, Consume, At
  <2> QED
    BY <2>1, GetQuiet
<1>2. CASE m_next[cons[c].control] = cons[c].next
  <2>1. PICK b : b = cons[c].control
    OBVIOUS
  <2>2. b \in Readies /\ b \in Block
    BY <1>0, <1>2, <2>1, TakesReady DEF Readies
  <2>3. PICK n : n = [m_next[b] EXCEPT !.flags = @ \cup {"busy"}]
    OBVIOUS
  <2>4. m_next' = [m_next EXCEPT ![b] = n] /\ "busy" \in n.flags
    BY <1>0, <1>2, <2>1, <2>2, <2>3 DEF TryBusy, NextPtr
  <2>5. /\ status' = [status EXCEPT ![ElementOf(content[b])] = "consuming"]
        /\ cons' = [cons EXCEPT ![c].pc = "consuming", ![c].next.flags = @ \cup {"dead"}]
    BY <1>2, <2>1 DEF TryBusy
  <2>6. ~Takes(c) /\ Takes(c)' /\ cons'[c].control = b
    BY <1>0, <2>1, <2>5 DEF Takes, At, Consume
  <2> QED
    BY <2>2, <2>4, <2>5, <2>6, GetTakes
<1> QED
  BY <1>1, <1>2

\* The plain store of the single consumer.
LEMMA TakeElements ==
    ASSUME NEW w, NEW v, NEW k, NEW c \in Consumers, Get(w, v, k, c), Take(c), consume = "single"
    PROVE  Elements'
<1>0. cons \in [Consumers -> Consume] /\ At(c, "try_busy") /\ m_next \in [Block -> NextPtr]
  BY GetKnown DEF Take
<1>1. m_next[cons[c].control] = cons[c].next
  BY <1>0, GetKnown DEF Core, TakersOK, OnePlaced, At
<1>2. PICK b : b = cons[c].control
  OBVIOUS
<1>3. b \in Readies /\ b \in Block
  BY <1>0, <1>1, <1>2, TakesReady DEF Readies
<1>4. PICK n : n = [m_next[b] EXCEPT !.flags = @ \cup {"busy"}]
  OBVIOUS
<1>5. m_next' = [m_next EXCEPT ![b] = n] /\ "busy" \in n.flags
  BY <1>0, <1>1, <1>2, <1>3, <1>4 DEF Take, NextPtr
<1>6. /\ status' = [status EXCEPT ![ElementOf(content[b])] = "consuming"]
      /\ cons' = [cons EXCEPT ![c].pc = "consuming", ![c].next.flags = @ \cup {"dead"}]
  BY <1>2 DEF Take
<1>7. ~Takes(c) /\ Takes(c)' /\ cons'[c].control = b
  BY <1>0, <1>2, <1>6 DEF Takes, At, Consume
<1> QED
  BY <1>3, <1>5, <1>6, <1>7, GetTakes

\* The end of a consume operation.
LEMMA EndElements ==
    ASSUME NEW w, NEW v, NEW k, NEW c \in Consumers, Get(w, v, k, c),
           CommitConsume(c) \/ CancelConsume(c) \/ CancelPlain(c)
    PROVE  Elements'
<1>0. cons \in [Consumers -> Consume] /\ Takes(c) /\ TakerOK(w, c)
  BY GetKnown DEF CommitConsume, CancelConsume, CancelPlain, Takes
<1>1. PICK b : b = cons[c].control
  OBVIOUS
<1>2. CASE CommitConsume(c)
  <2>1. PICK n : n = cons[c].next
    OBVIOUS
  <2>2. n.flags \cap {"busy", "dead"} # {}
    BY <1>0, <2>1 DEF TakerOK
  <2>3. /\ m_next' = [m_next EXCEPT ![b] = n] /\ status' = [status EXCEPT ![ElementOf(content[b])] = "consumed"]
        /\ ~Takes(c)'
    BY <1>0, <1>1, <1>2, <2>1 DEF CommitConsume, Takes, At, Consume
  <2> QED
    BY <1>0, <1>1, <2>2, <2>3, GetConsumes
<1>3. CASE CancelConsume(c) \/ CancelPlain(c)
  <2>1. /\ m_next' = [m_next EXCEPT ![b] = NextWord(cons[c].next.to, cons[c].next.flags \ {"dead"})]
        /\ status' = [status EXCEPT ![ElementOf(content[b])] = "ready"]
    BY <1>1, <1>3 DEF CancelConsume, CancelPlain
  <2>2. ~Takes(c)'
    BY <1>0, <1>3 DEF CancelConsume, CancelPlain, Takes, At, Consume, NewConsume
  <2> QED
    BY <1>0, <1>1, <2>1, <2>2, GetCancels
<1> QED
  BY <1>2, <1>3

\* The word that is zeroed is one that the head has passed.
LEMMA ZeroElements ==
    ASSUME NEW w, NEW v, NEW k, NEW c \in Consumers, Get(w, v, k, c), ZeroControl(c), consume = "multiple"
    PROVE  Elements'
<1>0. cons \in [Consumers -> Consume] /\ Core(w) /\ m_next \in [Block -> NextPtr] /\ cons[c].pc = "zero" /\ status' = status
  BY GetKnown DEF ZeroControl, At
<1>1. PICK i \in Index(w) : Placed(w, c, i) /\ i < w.head
  BY <1>0 DEF Core, TakersOK, ManyPlaced
<1>2. PICK b : b = cons[c].control
  OBVIOUS
<1>3. /\ m_next' = [m_next EXCEPT ![b] = Zero] /\ cons'[c].pc # "consuming"
  BY <1>0, <1>2 DEF ZeroControl, Goto, Consume
<1>4. b \notin Readies
  <2> SUFFICES ASSUME b \in Readies PROVE FALSE
    OBVIOUS
  <2>1. ReadiesAre(w)
    BY <1>0, ReadiesTrail
  <2>2. PICK j \in Written(w) : b = w.at[j]
    BY <2>1 DEF ReadiesAre
  <2>3. Valid(w, j)
    BY <1>0, <2>2, HeldBlocks
  <2>4. j = i
    BY <1>0, <1>1, <1>2, <2>2, <2>3, OnePlace DEF Core, Placed
  <2>5. w.head \in Nat /\ w.last \in Nat
    BY <1>0, TrailFacts DEF Core
  <2> QED
    BY <1>1, <2>4, <2>5 DEF Written, Index
<1>5. ~ReadyWord(Zero)
  BY DEF ReadyWord, IsEnd, Zero
<1>6. \A a \in Block : m_next'[a] # m_next[a] => a = b /\ m_next'[a] = Zero
  BY <1>0, <1>3
<1>7. \A a \in Block : m_next'[a] # m_next[a] => a \notin Readies /\ ~ReadyWord(m_next'[a])
  BY <1>4, <1>5, <1>6
<1> QED
  BY <1>0, <1>3, <1>7, GetStays

\* Every step of a consumer.
LEMMA GetElements ==
    ASSUME NEW w, NEW v, NEW k, NEW c \in Consumers, Get(w, v, k, c)
    PROVE  Elements'
<1>1. CASE Many(w, c)
  <2>1. ConsumerNext(c) /\ consume = "multiple"
    BY <1>1 DEF Many
  <2>2. ~Memset(c)
    BY <1>1, ManyKnown DEF Memset, At, ManyPlaced
  <2> QED
    BY <2>1, <2>2, ManyQuiet, ReadsQuiet, TryElements, EndElements, ZeroElements DEF ConsumerNext, ConsumerStep
<1>2. CASE One(w, c)
  <2>1. SingleConsumeNext(c) /\ consume = "single" /\ cons \in [Consumers -> Consume]
    BY <1>2, GetKnown DEF One
  <2>2. CASE StartSingle(c, "consume") \/ StartSingle(c, "empty") \/ DeallocatePage(c)
    BY <2>2, ManyQuiet DEF StartSingle
  <2>3. CASE ReturnPlain(c) \/ AdvancePlain(c)
    <3>1. UNCHANGED <<m_next, status>> /\ cons[c].pc # "consuming" /\ cons'[c].pc # "consuming"
      BY <2>1, <2>3 DEF ReturnPlain, AdvancePlain, Goto, At, baseVars, NewConsume, Consume
    <3> QED
      BY <3>1, GetQuiet
  <2> QED
    BY <2>1, <2>2, <2>3, ReadsQuiet, TakeElements, EndElements DEF SingleConsumeNext, SingleConsumeStep
<1> QED
  BY <1>1, <1>2 DEF Get

\* The invariant: a trail, and the elements of its blocks.
ElementsKept ==
    /\ OrderKept
    /\ alive => Elements
    /\ ~alive => \A c \in Consumers : At(c, "idle")

\* It holds at the start.
LEMMA InitElements ==
    ASSUME QueueInit
    PROVE  ElementsKept
<1>1. PICK w : Core(w)
  BY InitOrder
<1>2. /\ m_tail = InvalidBlock /\ status = [e \in Element |-> "none"] /\ alive = TRUE
      /\ prod = [p \in Producers |-> NewProducer] /\ cons = [c \in Consumers |-> NewConsume]
  BY DEF QueueInit, Init, BaseInit, HeadInit, TailInit
<1>3. Readies = {}
  <2>1. w.last = 0
    BY <1>1, <1>2, TrailFacts, BlockParts DEF Core, Shape, EndsOK
  <2> QED
    BY <1>1, <2>1, ChainEmpty DEF Readies
<1>4. Taken = {}
  BY <1>2 DEF Taken, Takes, At, NewConsume
<1>5. \A e \in Element : status[e] = "none"
  BY <1>2
<1>6. \A p \in Producers : PutElementOK(p)
  <2> TAKE p \in Producers
  <2>1. prod[p] = NewProducer
    BY <1>2
  <2>2. \A j \in 1 .. MaxPuts : <<p, j>> \in Element
    BY DEF Element
  <2> QED
    BY <1>5, <2>1, <2>2 DEF PutElementOK, NewProducer, Putting, PAt
<1>7. Match(Readies, "ready", content, status) /\ Match(Taken, "consuming", content, status)
  BY <1>3, <1>4, <1>5 DEF Match
<1> QED
  BY <1>1, <1>2, <1>6, <1>7 DEF ElementsKept, OrderKept, Elements

\* A step of the queue keeps the elements.
LEMMA NextElements ==
    ASSUME ElementsKept, LockHeldInside', Next
    PROVE  ElementsKept'
<1>0. OrderKept'
  BY NextOrder DEF ElementsKept
<1>1. alive /\ Elements
  BY DEF ElementsKept, Next
<1>2. PICK w : Core(w)
  BY <1>1 DEF ElementsKept, OrderKept
<1>3. CASE PutNext /\ UNCHANGED <<headVars, layers, alive>>
  <2>1. put \in {"single", "spin"}
    BY <1>2 DEF Core, Shape, TypesTrail
  <2>2. PICK p \in Producers : Puts(p)
    BY <1>3, <2>1, PutCases
  <2>3. PICK v, Z, k : ProducerFrame(w, v, Z, k, p)
    BY <1>2, <1>3, <2>2, PutsFrame
  <2>4. Core(v)'
    BY <1>2, <2>3, ProducerCore
  <2>5. Put(w, v, Z, k, p)
    BY <1>1, <1>2, <1>3, <2>3, <2>4 DEF Put
  <2>6. Elements'
    BY <2>2, <2>5, PutElements
  <2> QED
    BY <1>0, <1>1, <1>3, <2>6 DEF ElementsKept
<1>4. CASE ConsumeNext /\ UNCHANGED <<tailVars, m_mutex, layers, alive>>
  <2>1. PICK c \in Consumers : \/ consume = "single" /\ SingleConsumeNext(c)
                               \/ consume = "multiple" /\ ConsumerNext(c)
    BY <1>4 DEF ConsumeNext
  <2>2. Many(w, c) \/ One(w, c)
    BY <1>2, <1>4, <2>1 DEF Many, One, Beside
  <2>3. PICK v, k : ConsumerFrame(w, v, k, c)
    BY <2>2, ManyFrame, OneFrame
  <2>4. Core(v)'
    BY <1>2, <2>3, ConsumerCore
  <2>5. Get(w, v, k, c)
    BY <1>1, <1>2, <2>2, <2>3, <2>4 DEF Get
  <2>6. Elements'
    BY <2>5, GetElements
  <2> QED
    BY <1>0, <1>1, <1>4, <2>6 DEF ElementsKept
<1>5. CASE Destroy
  BY <1>0, <1>5 DEF Destroy, ElementsKept, headVars, At
<1> QED
  BY <1>3, <1>4, <1>5 DEF Next

\* The chain, step by step, in the next state.
LEMMA ChainStepsNext == (Chain = {Step[n] : n \in 0 .. Cardinality(Block) - 1} \ {NoBlock})'
  BY ChainSteps, PTL

\* The chain is a formula of these variables.
LEMMA ChainSame ==
    ASSUME UNCHANGED <<m_next, m_head, m_initial_page, prod>>
    PROVE  Chain' = Chain
<1>1. First' = First /\ \A b : After(b)' = After(b)
  <2>1. \A b : Reserving(b)' = Reserving(b)
    BY DEF Reserving
  <2>2. \A p : ReservedEnd(p)' = ReservedEnd(p)
    BY DEF ReservedEnd, PAt
  <2>3. First' = First
    BY DEF First
  <2>4. ASSUME NEW b PROVE After(b)' = After(b)
    <3>1. PICK R : R = Reserving(b)
      OBVIOUS
    <3>2. PICK p : p = CHOOSE q \in R : TRUE
      OBVIOUS
    <3>3. After(b) = IF b = NoBlock THEN NoBlock ELSE IF ~IsEnd(m_next[b]) THEN m_next[b].to
                     ELSE IF R = {} THEN NoBlock ELSE ReservedEnd(p)
      BY <3>1, <3>2 DEF After
    <3>4. After(b)' = IF b = NoBlock THEN NoBlock ELSE IF ~IsEnd(m_next'[b]) THEN m_next'[b].to
                      ELSE IF R = {} THEN NoBlock ELSE ReservedEnd(p)'
      <4>1. Reserving(b)' = R
        BY <2>1, <3>1
      <4>2. p = CHOOSE q \in Reserving(b)' : TRUE
        BY <3>2, <4>1
      <4> QED
        BY <4>1, <4>2 DEF After
    <3> QED
      BY <2>2, <3>3, <3>4
  <2> QED
    BY <2>3, <2>4
<1>2. \A f, n : Steps(f, n)' <=> Steps(f, n)
  BY <1>1 DEF Steps
<1>3. Step' = Step
  BY <1>2 DEF Step
<1> QED
  BY <1>3, ChainSteps, ChainStepsNext

\* The elements are a formula of the variables.
LEMMA ElementsUnchanged ==
    ASSUME ElementsKept, UNCHANGED queueVars
    PROVE  ElementsKept'
<1>0. OrderKept'
  BY OrderStays DEF ElementsKept
<1>1. /\ alive' = alive /\ m_next' = m_next /\ content' = content /\ status' = status /\ cons' = cons
      /\ prod' = prod /\ m_head' = m_head /\ m_initial_page' = m_initial_page
  BY DEF queueVars, vars, baseVars, headVars, tailVars, layers
<1>2. CASE ~alive
  BY <1>0, <1>1, <1>2 DEF ElementsKept, At
<1>3. CASE alive
  <2>1. Chain' = Chain
    BY <1>1, ChainSame
  <2>2. Readies' = Readies /\ Taken' = Taken
    BY <1>1, <2>1 DEF Readies, Taken, Takes, At
  <2>3. Elements
    BY <1>3 DEF ElementsKept
  <2>4. \A p \in Producers : PutElementOK(p)'
    BY <1>1, <2>3 DEF Elements, PutElementOK, Putting, Current, PAt
  <2>5. Elements'
    BY <1>1, <2>2, <2>3, <2>4, ElementsStay
  <2> QED
    BY <1>0, <1>1, <1>3, <2>5 DEF ElementsKept
<1> QED
  BY <1>2, <1>3

\* TakenKept, from the trail and the elements.
LEMMA ElementsTakenKept == ElementsKept => TakenKept
<1> SUFFICES ASSUME ElementsKept, NEW c \in Consumers, At(c, "consuming"), NEW b, b = cons[c].control
             PROVE  /\ m_next[b] = [cons[c].next EXCEPT !.flags = (@ \ {"dead"}) \cup {"busy"}]
                    /\ content[b] # NoItem /\ status[ElementOf(content[b])] = "consuming"
                    /\ pool[PageOf(b)] = "queue" /\ b \in Chain
  BY DEF TakenKept
<1>1. alive /\ Elements
  BY DEF ElementsKept, At
<1>2. PICK w : Core(w)
  BY <1>1 DEF ElementsKept, OrderKept
<1>3. Takes(c) /\ TakerOK(w, c) /\ b \in Taken
  BY <1>2 DEF Takes, Core, TakersOK, Taken
<1>4. PICK i \in Written(w) : w.at[i] = b /\ m_next[b] = TakenWord(c)
  BY <1>3 DEF TakerOK
<1>5. m_next[b] = [cons[c].next EXCEPT !.flags = (@ \ {"dead"}) \cup {"busy"}]
  <2>1. cons[c].next \in NextPtr
    BY <1>2 DEF Core, Shape, TypesTrail, TypeOK, HeadTypeOK, Consume
  <2> QED
    BY <1>4, <2>1 DEF TakenWord, NextWord, NextPtr
<1>6. content[b] \in Item /\ content[b][3] = 0 /\ status[ElementOf(content[b])] = "consuming"
  BY <1>1, <1>3 DEF Elements, Match
<1>7. content[b] # NoItem
  <2>1. content[b][2] \in 1 .. MaxPuts
    BY <1>6 DEF Item
  <2>2. NoItem[2] = 0
    BY DEF NoItem
  <2> QED
    BY <2>1, <2>2
<1>8. pool[PageOf(b)] = "queue" /\ i \in Live(w)
  BY <1>2, <1>4, HeldBlocks
<1>9. b \in Chain
  <2>1. w.last > 0
    BY <1>2, <1>4, TrailFacts DEF Core, Written
  <2> QED
    BY <1>2, <1>4, <1>8, <2>1, ChainTrail
<1> QED
  BY <1>5, <1>6, <1>7, <1>8, <1>9

\* An element that is being consumed keeps its block and its page
\* (consume_operation, between start and commit): TakenKept.
THEOREM ElementsStayTaken == Spec => []TakenKept
<1>1. QueueInit => ElementsKept
  BY InitElements
<1>2. LockHeldInside' /\ ElementsKept /\ [Next]_queueVars => ElementsKept'
  BY NextElements, ElementsUnchanged
<1>3. Spec => []LockHeldInside
  BY SpinLockHeld
<1>4. ElementsKept => TakenKept
  BY ElementsTakenKept
<1> QED
  BY <1>1, <1>2, <1>3, <1>4, PTL DEF Spec

---------------------------------------------------------------------------
(* Only a word that names no block says that there is no next page, and    *)
(* only one that names a block says that the block is external.            *)

Linked(n) == IF n.to = NoBlock THEN "external" \notin n.flags ELSE "invalid_next_page" \notin n.flags
WordsLinked == \A b \in Block : Linked(m_next[b])
FlagsLinked == \A p \in Producers : "invalid_next_page" \notin prod[p].flags

\* Words that are linked.
LEMMA LinkedWords ==
    /\ Linked(Zero) /\ Linked(InvalidNextPage)
    /\ \A b \in Block : \A f : "invalid_next_page" \notin f => Linked(NextWord(b, f))
  BY BlockParts DEF Linked, Zero, InvalidNextPage, NextWord

\* A word is written.
LEMMA WriteLinks ==
    ASSUME WordsLinked, m_next \in [Block -> NextPtr], NEW b, NEW n, Linked(n), m_next' = [m_next EXCEPT ![b] = n]
    PROVE  WordsLinked'
<1>1. \A a \in Block : m_next'[a] = m_next[a] \/ m_next'[a] = n
  OBVIOUS
<1> QED
  BY <1>1 DEF WordsLinked

\* The flags of the producer that moves, which it had or gets as the allocation starts.
LEMMA PutFlags ==
    ASSUME FlagsLinked, NEW p \in Producers, Moved(p),
           prod'[p].flags \subseteq prod[p].flags \cup {"busy", "dead", "external"}
    PROVE  FlagsLinked'
<1>1. "invalid_next_page" \notin prod'[p].flags
  BY DEF FlagsLinked
<1> QED
  BY <1>1 DEF FlagsLinked, Moved

\* Every step of a producer.
LEMMA PutLinks ==
    ASSUME WordsLinked, FlagsLinked, NEW w, Core(w), NEW p \in Producers, Puts(p), UNCHANGED layers
    PROVE  WordsLinked' /\ FlagsLinked'
<1>0. m_next \in [Block -> NextPtr] /\ "invalid_next_page" \notin prod[p].flags /\ put' = put
  BY DEF Core, Shape, TypesTrail, TypeOK, BaseTypeOK, FlagsLinked, layers
<1> DEFINE flagged == Moved(p) /\ prod'[p].flags \subseteq prod[p].flags \cup {"busy", "dead", "external"}
<1>1. CASE Asking(p)
  <2>1. flagged /\ m_next' = m_next
    BY <1>1, AskingQuiet DEF Quiet
  <2> QED
    BY <2>1, PutFlags DEF WordsLinked
<1>2. CASE Going(p)
  <2>1. flagged /\ m_next' = m_next
    BY <1>2, GoingQuiet DEF Quiet
  <2> QED
    BY <2>1, PutFlags DEF WordsLinked
<1>3. CASE Fill(p)
  <2>1. flagged /\ m_next' = m_next
    BY <1>3, FillFacts
  <2> QED
    BY <2>1, PutFlags DEF WordsLinked
<1>4. CASE NullTerminate(p)
  <2>1. flagged
    BY <1>4, NullTerminateFacts
  <2>2. PICK r : m_next' = [m_next EXCEPT ![r] = Zero]
    BY <1>4, NullTerminateFacts
  <2> QED
    BY <1>0, <2>1, <2>2, LinkedWords, PutFlags, WriteLinks
<1>5. ASSUME NEW pc \in {"settle", "fill"}, StoreControl(p, pc), pc = "settle" => put = "spin"
      PROVE  WordsLinked' /\ FlagsLinked'
  <2>1. flagged /\ m_next' = [m_next EXCEPT ![m_tail] = NextWord(m_tail', prod[p].flags)] /\ m_tail' \in Block
    BY <1>0, <1>5, StoreControlFacts
  <2>2. PICK n : n = NextWord(m_tail', prod[p].flags)
    OBVIOUS
  <2>3. Linked(n)
    BY <1>0, <2>1, <2>2, LinkedWords
  <2> QED
    BY <1>0, <2>1, <2>2, <2>3, PutFlags, WriteLinks
<1>6. CASE SpinPad(p) /\ put = "spin"
  <2>1. flagged /\ m_next' = [m_next EXCEPT ![m_tail] = NextWord(m_tail', {"dead"})] /\ m_tail' \in Block
    BY <1>6, SpinPadFacts
  <2>2. PICK n : n = NextWord(m_tail', {"dead"})
    OBVIOUS
  <2>3. Linked(n)
    BY <2>1, <2>2, LinkedWords
  <2> QED
    BY <1>0, <2>1, <2>2, <2>3, PutFlags, WriteLinks
<1>7. ASSUME NEW q \in Pages, Creates(p, q) PROVE WordsLinked' /\ FlagsLinked'
  <2>1. flagged
    BY <1>0, <1>7, NewPageFacts
  <2>2. \A a \in Block : m_next'[a] \in {m_next[a], Zero, InvalidNextPage}
    BY <1>0, <1>7 DEF Creates, NewPage
  <2>3. WordsLinked'
    BY <2>2, LinkedWords DEF WordsLinked
  <2> QED
    BY <2>1, <2>3, PutFlags
<1>8. CASE LinkNextPage(p)
  <2>1. flagged
    BY <1>8, LinkFacts, EnterPageMoved DEF PAt
  <2>2. m_next' = [m_next EXCEPT ![m_tail] = NextWord(FirstBlock(prod[p].new_page), {"dead"})]
    BY <1>8, LinkFacts
  <2>b. FirstBlock(prod[p].new_page) \in Block
    BY <1>8, LinkFacts, EnterPageMoved DEF PAt
  <2>3. PICK n : n = NextWord(FirstBlock(prod[p].new_page), {"dead"})
    OBVIOUS
  <2>4. Linked(n)
    BY <2>b, <2>3, LinkedWords
  <2> QED
    BY <1>0, <2>1, <2>2, <2>3, <2>4, PutFlags, WriteLinks
<1>9. CASE SetInitialPage(p)
  <2>1. flagged /\ m_next' = m_next
    BY <1>9, InitialFacts, EnterPageMoved DEF PAt
  <2> QED
    BY <2>1, PutFlags DEF WordsLinked
<1>10. CASE CommitPut(p) \/ CancelPut(p)
  <2>1. flagged
    BY <1>10, EndPutFacts
  <2>2. PICK f \in SUBSET Flag : /\ m_next' = [m_next EXCEPT ![prod[p].control] = NextWord(prod[p].next.to, f)]
                                 /\ f \ {"busy", "dead"} = prod[p].next.flags \ {"busy", "dead"}
    BY <1>10, EndPutFacts
  <2>3. prod[p].next = m_next[prod[p].control] /\ prod[p].control \in Block
    BY <1>10, EndPutFacts, ProducerKnown
  <2>4. PICK n : n = NextWord(prod[p].next.to, f)
    OBVIOUS
  <2>5. Linked(n)
    <3>1. Linked(prod[p].next) /\ n.to = prod[p].next.to /\ n.flags = f
      BY <2>3, <2>4 DEF WordsLinked, NextWord
    <3> QED
      BY <2>2, <3>1 DEF Linked
  <2> QED
    BY <1>0, <2>1, <2>2, <2>4, <2>5, PutFlags, WriteLinks
<1> HIDE DEF flagged
<1> QED
  BY <1>1, <1>2, <1>3, <1>4, <1>5, <1>6, <1>7, <1>8, <1>9, <1>10 DEF Puts

\* One of many consumers, or the only one, takes an element or ends with one.
LEMMA GetLinks ==
    ASSUME WordsLinked, NEW w, Core(w), NEW c \in Consumers, Many(w, c) \/ One(w, c)
    PROVE  WordsLinked'
<1>0. m_next \in [Block -> NextPtr] /\ cons \in [Consumers -> Consume] /\ TakerOK(w, c)
  BY DEF Core, Shape, TypesTrail, TypeOK, BaseTypeOK, HeadTypeOK, TakersOK
<1>1. CASE TryBusy(c)
  <2>1. CASE UNCHANGED m_next
    BY <2>1 DEF WordsLinked
  <2>2. CASE m_next' # m_next
    <3>1. PICK b : b = cons[c].control
      OBVIOUS
    <3>2. m_next' = [m_next EXCEPT ![b].flags = @ \cup {"busy"}]
      BY <1>1, <2>2, <3>1 DEF TryBusy
    <3>3. \A a \in Block : m_next'[a].to = m_next[a].to /\ m_next'[a].flags \subseteq m_next[a].flags \cup {"busy"}
      BY <1>0, <3>2 DEF NextPtr
    <3> QED
      BY <3>3 DEF WordsLinked, Linked
  <2> QED
    BY <2>1, <2>2
<1>2. CASE Take(c) /\ consume = "single"
  <2>1. m_next[cons[c].control] = cons[c].next /\ At(c, "try_busy")
    BY <1>2 DEF Take, Core, TakersOK, OnePlaced, At
  <2>2. PICK b : b = cons[c].control
    OBVIOUS
  <2>3. m_next' = [m_next EXCEPT ![b] = [cons[c].next EXCEPT !.flags = @ \cup {"busy"}]]
    BY <1>2, <2>2 DEF Take
  <2>4. \A a \in Block : m_next'[a].to = m_next[a].to /\ m_next'[a].flags \subseteq m_next[a].flags \cup {"busy"}
    BY <1>0, <2>1, <2>2, <2>3 DEF NextPtr
  <2> QED
    BY <2>4 DEF WordsLinked, Linked
<1>3. CASE CommitConsume(c) \/ CancelConsume(c) \/ CancelPlain(c)
  <2>1. PICK b : b = cons[c].control
    OBVIOUS
  <2>2. Takes(c) /\ m_next[b] = TakenWord(c) /\ b \in Block
    <3>1. Takes(c)
      BY <1>3 DEF CommitConsume, CancelConsume, CancelPlain, Takes
    <3>2. PICK i \in Written(w) : w.at[i] = b /\ m_next[b] = TakenWord(c)
      BY <1>0, <2>1, <3>1 DEF TakerOK
    <3> QED
      BY <3>1, <3>2, HeldBlocks
  <2>3. Linked(cons[c].next)
    BY <2>2 DEF WordsLinked, TakenWord, NextWord, Linked
  <2>4. PICK n : n \in {cons[c].next, NextWord(cons[c].next.to, cons[c].next.flags \ {"dead"})}
                 /\ m_next' = [m_next EXCEPT ![b] = n]
    BY <1>3, <2>1 DEF CommitConsume, CancelConsume, CancelPlain
  <2>5. Linked(n)
    BY <2>3, <2>4 DEF Linked, NextWord
  <2> QED
    BY <1>0, <2>4, <2>5, WriteLinks
<1>4. CASE ZeroControl(c)
  BY <1>0, <1>4, LinkedWords, WriteLinks DEF ZeroControl
<1>5. CASE UNCHANGED m_next
  BY <1>5 DEF WordsLinked
<1>6. CASE Many(w, c)
  BY <1>1, <1>3, <1>4, <1>5, <1>6 DEF Many, ConsumerNext, ConsumerStep, Start, LoadHead, ReloadHead, LoadInitialPage,
     InitHead, PinHead, UnpinOld, LoadHeadNext, Return, AdvanceHead, FreeExternal, Memset, DeallocatePage,
     MoveNext, Reread, UnpinLeft, LoadNext, DestroyConsume, baseVars
<1>7. CASE One(w, c)
  BY <1>2, <1>3, <1>5, <1>7 DEF One, SingleConsumeNext, SingleConsumeStep, StartSingle, Start, InitHeadPlain, EnterHead,
     ReturnPlain, AdvancePlain, DeallocatePage, MoveNextPlain, baseVars
<1> QED
  BY <1>6, <1>7

---------------------------------------------------------------------------
(* No element is lost *)

\* The elements, and the words of their blocks; a queue that has been
\* destroyed had no element but those that were ready.
WholeKept ==
    /\ ElementsKept /\ (alive => WordsLinked /\ FlagsLinked)
    /\ ~alive => \A e \in Element : status[e] \notin {"ready", "consuming"}

\* What ElementsKept says of the chain and of the contents of its blocks.
LEMMA KeptNotLost ==
    ASSUME WholeKept, alive
    PROVE  NoElementLost
<1>1. Elements /\ WordsLinked
  BY DEF WholeKept, ElementsKept
<1>2. PICK w : Core(w)
  BY DEF WholeKept, ElementsKept, OrderKept
<1>3. ASSUME NEW e \in Element, status[e] = "ready"
      PROVE  \E b \in Chain : content[b] = <<e[1], e[2], 0>> /\ (Consumable(m_next[b]) <=> status[e] = "ready")
  <2>1. PICK b \in Readies : content[b] = <<e[1], e[2], 0>>
    BY <1>1, <1>3 DEF Elements, Match
  <2>2. b \in Chain /\ b \in Block /\ ReadyWord(m_next[b])
    BY <2>1 DEF Readies
  <2>3. Consumable(m_next[b])
    BY <1>1, <2>2 DEF WordsLinked, Linked, ReadyWord, IsEnd, Consumable
  <2> QED
    BY <1>3, <2>1, <2>2, <2>3
<1>4. ASSUME NEW e \in Element, status[e] = "consuming"
      PROVE  \E b \in Chain : content[b] = <<e[1], e[2], 0>> /\ (Consumable(m_next[b]) <=> status[e] = "ready")
  <2>1. PICK b \in Taken : content[b] = <<e[1], e[2], 0>>
    BY <1>1, <1>4 DEF Elements, Match
  <2>2. PICK i \in Written(w) : b = w.at[i] /\ "busy" \in m_next[b].flags
    BY <1>2, HeldBlocks
  <2>3. i \in Live(w) /\ w.last > 0
    BY <1>2, HeldBlocks, TrailFacts DEF Core, Written
  <2>4. b \in Chain
    BY <1>2, <2>2, <2>3, ChainTrail
  <2>5. ~Consumable(m_next[b])
    BY <2>2 DEF Consumable
  <2> QED
    BY <1>4, <2>1, <2>4, <2>5
<1> QED
  BY <1>3, <1>4 DEF NoElementLost

\* A step of the queue, or of none of its variables.
LEMMA NextWhole ==
    ASSUME WholeKept, LockHeldInside', [Next]_queueVars
    PROVE  WholeKept'
<1>1. ElementsKept'
  BY NextElements, ElementsUnchanged DEF WholeKept
<1>2. CASE UNCHANGED queueVars
  BY <1>1, <1>2 DEF WholeKept, queueVars, vars, baseVars, tailVars, WordsLinked, FlagsLinked
<1>3. CASE Next
  <2>1. alive /\ WordsLinked /\ FlagsLinked /\ Elements
    BY <1>3 DEF WholeKept, ElementsKept, Next
  <2>2. PICK w : Core(w)
    BY <2>1 DEF WholeKept, ElementsKept, OrderKept
  <2>3. CASE PutNext /\ UNCHANGED <<headVars, layers, alive>>
    <3>1. PICK p \in Producers : Puts(p)
      BY <2>2, <2>3, PutCases DEF Core, Shape, TypesTrail
    <3>2. WordsLinked' /\ FlagsLinked'
      BY <2>1, <2>2, <2>3, <3>1, PutLinks
    <3> QED
      BY <1>1, <2>1, <2>3, <3>2 DEF WholeKept
  <2>4. CASE ConsumeNext /\ UNCHANGED <<tailVars, m_mutex, layers, alive>>
    <3>1. PICK c \in Consumers : Many(w, c) \/ One(w, c)
      BY <2>2, <2>4 DEF ConsumeNext, Many, One, Beside
    <3>2. WordsLinked'
      BY <2>1, <2>2, <3>1, GetLinks
    <3>3. FlagsLinked'
      BY <2>1, <2>4 DEF FlagsLinked, tailVars
    <3> QED
      BY <1>1, <2>1, <2>4, <3>2, <3>3 DEF WholeKept
  <2>5. CASE Destroy
    <3>1. \A e \in Element : status[e] # "consuming"
      <4>1. Taken = {}
        BY <2>5 DEF Destroy, Taken, Takes, At
      <4> QED
        BY <2>1, <4>1 DEF Elements, Match
    <3>2. status' = [e \in Element |-> IF status[e] = "ready" THEN "consumed" ELSE status[e]] /\ alive' = FALSE
      BY <2>5 DEF Destroy
    <3>3. \A e \in Element : status'[e] \notin {"ready", "consuming"}
      BY <3>1, <3>2
    <3> QED
      BY <1>1, <3>2, <3>3 DEF WholeKept
  <2> QED
    BY <1>3, <2>3, <2>4, <2>5 DEF Next
<1> QED
  BY <1>2, <1>3

\* It holds at the start.
LEMMA InitWhole == QueueInit => WholeKept
<1> SUFFICES ASSUME QueueInit PROVE WholeKept
  OBVIOUS
<1>1. /\ m_next = [b \in Block |-> Zero] /\ alive = TRUE
      /\ prod = [p \in Producers |-> NewProducer]
  BY DEF QueueInit, Init, BaseInit, TailInit
<1>2. WordsLinked
  BY <1>1, LinkedWords DEF WordsLinked
<1>3. FlagsLinked
  BY <1>1 DEF FlagsLinked, NewProducer
<1> QED
  BY <1>1, <1>2, <1>3, InitElements DEF WholeKept

\* What was put and not consumed is in the chain from the head, ready or held
\* by a consumer, though pages are not zeroed and one thread goes unpinned:
\* NoElementLost holds of the queues with a single or a spin-locking side.
THEOREM ElementsNotLost == Spec => []NoElementLost
<1>1. WholeKept => NoElementLost
  BY KeptNotLost DEF WholeKept, NoElementLost
<1>2. LockHeldInside' /\ WholeKept /\ [Next]_queueVars => WholeKept'
  BY NextWhole
<1>3. Spec => []LockHeldInside
  BY SpinLockHeld
<1> QED
  BY <1>1, <1>2, <1>3, InitWhole, PTL DEF Spec
==========================================================================
