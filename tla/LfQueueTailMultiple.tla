----------------------- MODULE LfQueueTailMultiple -----------------------
(***************************************************************************)
(* What the two put layers for many producers have in common               *)
(* (detail/lf_queue_tail_multiple_relaxed.h and                            *)
(* lf_queue_tail_multiple_seq_cst.h): the put transaction of               *)
(* lf_heter_queue.h that drives them, and the creation of pages.  How a    *)
(* block is reserved in a page is theirs.                                  *)
(*                                                                         *)
(* The word m_tail of the code is the pair m_tail, m_rest: m_rest is its   *)
(* remainder modulo s_alloc_granularity, which only the sequentially       *)
(* consistent layer uses.  Both are read and written by the same step.     *)
(***************************************************************************)
EXTENDS LfQueueBase

CONSTANTS
    Sizes,          \* sizes of elements, in slots
    MaxInPage,      \* largest size put in a page; above it is external
    Guarantees      \* progress guarantees puts ask for

ASSUME TailAssumption ==
    /\ Sizes \subseteq Nat \ {0}
    /\ MaxInPage \in 1 .. EndSlot
    /\ Guarantees \subseteq {"blocking", "lock_free", "wait_free"}

VARIABLES
    m_tail,         \* where the next block goes
    m_rest,         \* slots of the allocation in progress there, or 0
    prod            \* each producer: its transaction and its allocation

tailVars == <<m_tail, m_rest, prod>>

---------------------------------------------------------------------------

ProducerPC == {"idle", "load_tail", "try", "store", "settle", "fill",
               "store_pad", "settle_pad", "unpin_helped", "help_recheck",
               "help_store", "help_tail",
               "recheck", "create_page", "link_page", "discard_page",
               "advance_tail", "unpin_end", "unpin_failed", "init_page",
               "discard_initial", "init_tail", "give_up", "pending"}

\* puts counts the transactions started, raws the raw blocks of this one.
\* control and next are the Allocation of the element; flags and size are
\* those of the block being allocated at tail (and rest), new_page is the page created
\* or found linked after it, found the value of expected_next; pinned and helped
\* are the pages the PinGuards end_block and scoped_pin hold.
Producer == [pc : ProducerPC, puts : 0 .. MaxPuts, raws : 0 .. MaxRaw,
             guarantee : Guarantees \cup {"none"},
             tail : BlockOrNull \cup {InvalidBlock}, rest : Nat,
             size : Nat, flags : SUBSET Flag, control : BlockOrNull, next : NextPtr,
             new_page : Pages \cup {NoPage}, found : BlockOrNull,
             pinned : Pages \cup {NoPage}, helped : Pages \cup {NoPage}]

NewProducer == [pc |-> "idle", puts |-> 0, raws |-> 0, guarantee |-> "none",
                tail |-> NoBlock, rest |-> 0, size |-> 0, flags |-> {},
                control |-> NoBlock, next |-> Zero,
                new_page |-> NoPage, found |-> NoBlock, pinned |-> NoPage,
                helped |-> NoPage]

\* The element being put, and the item a block is being allocated for: the
\* element, or the last raw block asked for.
Current(p) == <<p, prod[p].puts>>
Allocating(p) == <<p, prod[p].puts, IF "dead" \in prod[p].flags THEN prod[p].raws ELSE 0>>
PAt(p, pc) == prod[p].pc = pc

\* A new block ends size slots after the tail.
NewTail(b, size) == <<b[1], b[2] + size>>

\* Mutant: the control word of the end block is not kept free.
FitsPastEnd(p) == prod[p].tail[2] + prod[p].size <= EndSlot + 1
Fits(p) == prod[p].tail[2] + prod[p].size <= EndSlot
AtEnd(p) == prod[p].tail[2] = EndSlot

\* The loop of try_inplace_allocate_impl goes round with a value of m_tail.
Retry(p, b, r) ==
    prod' = [prod EXCEPT ![p].pc = "try", ![p].tail = b, ![p].rest = r]
TailIs(b, r) == m_tail = b /\ m_rest = r

\* The end of a reservation whose control word is not written yet.
ReservedEnd(p) ==
    NewTail(prod[p].tail, IF PAt(p, "store") THEN prod[p].size ELSE prod[p].rest)

PGoto(p, pc) == prod' = [prod EXCEPT ![p].pc = pc]

\* The local state of a finished allocation is gone.
Done(p, pc) == [prod[p] EXCEPT !.pc = pc, !.tail = NoBlock, !.rest = 0, !.size = 0,
                               !.flags = {}, !.new_page = NoPage, !.found = NoBlock,
                               !.pinned = NoPage]

\* Mutant: the external block is not given back.
FailAndLeak(p) ==
    /\ prod' = [prod EXCEPT ![p] =
         IF prod[p].control = NoBlock
         THEN [NewProducer EXCEPT !.puts = prod[p].puts]
         ELSE Done(p, "pending")]
    /\ UNCHANGED heap

\* The allocation returns empty or throws, and gives back its external
\* block.  A transaction that could not start is over; one that asked for a
\* raw block goes on without it.
Fail(p) ==
    /\ prod' = [prod EXCEPT ![p] =
         IF prod[p].control = NoBlock
         THEN [NewProducer EXCEPT !.puts = prod[p].puts]
         ELSE Done(p, "pending")]
    /\ heap' = heap \ {Allocating(p)}

---------------------------------------------------------------------------
(* Starting *)

External(size) == size > MaxInPage

\* try_inplace_allocate_impl is entered, once directly and once more through
\* external_allocate for what would never fit in a page: that needs a
\* blocking put, allocates the external block first, and then a block that
\* holds just an ExternalBlock.
Allocate(p, q, item, size, flags) ==
    /\ External(size) => q.guarantee = "blocking"
    /\ heap' = IF External(size) THEN heap \cup {item} ELSE heap
    /\ prod' = [prod EXCEPT ![p] = [q EXCEPT
                  !.pc = "load_tail",
                  !.size = IF External(size) THEN 1 ELSE size,
                  !.flags = IF External(size) THEN flags \cup {"external"} ELSE flags]]

\* start_push, start_emplace: the element goes in a busy block.
StartPut(p, size, g) ==
    /\ PAt(p, "idle")
    /\ prod[p].puts < MaxPuts
    /\ LET k == prod[p].puts + 1
       IN Allocate(p, [NewProducer EXCEPT !.puts = k, !.guarantee = g],
                   <<p, k, 0>>, size, {"busy"})
    /\ UNCHANGED <<m_next, content, pool, pinners, m_initial_page, status, m_tail, m_rest>>

\* put_transaction::raw_allocate: a dead block, while the element is pending.
RawAllocate(p, size) ==
    /\ PAt(p, "pending")
    /\ prod[p].raws < MaxRaw
    /\ LET k == prod[p].raws + 1
       IN Allocate(p, [prod[p] EXCEPT !.raws = k], <<p, prod[p].puts, k>>, size, {"dead"})
    /\ UNCHANGED <<m_next, content, pool, pinners, m_initial_page, status, m_tail, m_rest>>

LoadTail(p) ==
    /\ PAt(p, "load_tail")
    /\ Retry(p, m_tail, m_rest)
    /\ UNCHANGED <<baseVars, m_tail, m_rest>>

\* The allocation returns empty, once scoped_pin is destroyed.
GiveUp(p) ==
    /\ PAt(p, "give_up") /\ prod[p].helped = NoPage
    /\ Fail(p)
    /\ UNCHANGED <<m_next, content, pool, pinners, m_initial_page, status, m_tail, m_rest>>

\* The user's part of the block: the runtime type, the element or
\* ExternalBlock, the raw data.
Fill(p) ==
    /\ PAt(p, "fill") /\ prod[p].helped = NoPage
    /\ LET b == prod[p].tail
       IN content' = [a \in Block |->
            IF SamePage(a, b) /\ a[2] \in b[2] .. (b[2] + prod[p].size - 1)
            THEN Allocating(p) ELSE content[a]]
    /\ prod' = [prod EXCEPT ![p] = Done(p, "pending")]
    /\ UNCHANGED <<m_next, pool, pinners, heap, m_initial_page, status, m_tail, m_rest>>

---------------------------------------------------------------------------
(* get_or_allocate_next_page *)

\* Mutant: the page that the tail is about to leave is not pinned.
PinEndForgotten(p) ==
    /\ PAt(p, "try") /\ AtEnd(p) /\ prod[p].tail # InvalidBlock
    /\ prod' = [prod EXCEPT ![p].pc = "recheck", ![p].pinned = PageOf(prod[p].tail)]
    /\ UNCHANGED <<baseVars, m_tail, m_rest>>

PinEnd(p) ==
    /\ PAt(p, "try") /\ AtEnd(p) /\ prod[p].tail # InvalidBlock
    /\ Pin(<<p, "end_block">>, PageOf(prod[p].tail))
    /\ prod' = [prod EXCEPT ![p].pc = "recheck", ![p].pinned = PageOf(prod[p].tail)]
    /\ UNCHANGED <<m_next, content, pool, heap, m_initial_page, status, m_tail, m_rest>>

\* updated_tail
RecheckTail(p) ==
    /\ PAt(p, "recheck")
    /\ IF TailIs(prod[p].tail, 0)
       THEN PGoto(p, "create_page")
       ELSE prod' = [prod EXCEPT ![p].pc = "unpin_end", ![p].tail = m_tail, ![p].rest = m_rest]
    /\ UNCHANGED <<baseVars, m_tail, m_rest>>

\* The next page is created with the end block pinned, the first one at once.
Creating(p) ==
    \/ PAt(p, "create_page")
    \/ PAt(p, "try") /\ prod[p].tail = InvalidBlock

\* create_page: the end block of a new page has an invalid next.
CreatePage(p) ==
    /\ Creating(p)
    /\ \E q \in Pages :
         /\ Allocatable(q)
         /\ pool' = [pool EXCEPT ![q] = "queue"]
         /\ m_next' = [m_next EXCEPT ![EndBlock(FirstBlock(q))] = InvalidNextPage]
         /\ prod' = [prod EXCEPT ![p].new_page = q, ![p].pc =
                       IF prod[p].tail = InvalidBlock THEN "init_page" ELSE "link_page"]
    /\ UNCHANGED <<content, pinners, heap, m_initial_page, status, m_tail, m_rest>>

\* The allocator has no page; without blocking it may also give up earlier.
CreatePageFails(p) ==
    /\ Creating(p)
    /\ prod[p].guarantee # "blocking" \/ \A q \in Pages : ~Allocatable(q)
    /\ IF prod[p].tail = InvalidBlock
       THEN PGoto(p, "give_up")
       ELSE PGoto(p, "unpin_failed")
    /\ UNCHANGED <<baseVars, m_tail, m_rest>>

\* The CAS on the m_next of the end block: expected_next is what it found.
LinkPage(p) ==
    /\ PAt(p, "link_page")
    /\ LET end == prod[p].tail
       IN IF m_next[end] = InvalidNextPage
          THEN /\ m_next' = [m_next EXCEPT ![end] =
                               NextWord(FirstBlock(prod[p].new_page), {"dead"})]
               /\ PGoto(p, "advance_tail")
          ELSE /\ prod' = [prod EXCEPT ![p].pc = "discard_page",
                                       ![p].found = m_next[end].to]
               /\ UNCHANGED m_next
    /\ UNCHANGED <<content, pool, pinners, heap, m_initial_page, status, m_tail, m_rest>>

\* Mutant: the page created for nothing is kept.
KeepCreatedPage(q) == UNCHANGED <<m_next, pool>>

DiscardCreatedPage(q) ==
    /\ m_next' = [m_next EXCEPT ![EndBlock(FirstBlock(q))] = Zero]
    /\ pool' = [pool EXCEPT ![q] = "zeroed"]

\* Another producer has linked a page: it is the next one, unless it has been
\* consumed in the meanwhile, and then this producer reads its old tail again.
DiscardPage(p) ==
    /\ PAt(p, "discard_page")
    /\ DiscardCreatedPage(prod[p].new_page)
    /\ prod' = [prod EXCEPT
         ![p].pc = IF prod[p].found = NoBlock THEN "unpin_end" ELSE "advance_tail",
         ![p].new_page = PageOf(prod[p].found), ![p].found = NoBlock]
    /\ UNCHANGED <<content, pinners, heap, m_initial_page, status, m_tail, m_rest>>

AdvanceTail(p) ==
    /\ PAt(p, "advance_tail")
    /\ m_tail' = IF TailIs(prod[p].tail, 0) THEN FirstBlock(prod[p].new_page) ELSE m_tail
    /\ prod' = [prod EXCEPT ![p].pc = "unpin_end", ![p].tail = m_tail', ![p].rest = m_rest,
                            ![p].new_page = NoPage]
    /\ UNCHANGED <<baseVars, m_rest>>

\* The destructor of the PinGuard, with an updated tail or a failure.
UnpinEnd(p) ==
    /\ PAt(p, "unpin_end")
    /\ Unpin(<<p, "end_block">>, prod[p].pinned)
    /\ prod' = [prod EXCEPT ![p].pinned = NoPage, ![p].pc = "try"]
    /\ UNCHANGED <<m_next, content, pool, heap, m_initial_page, status, m_tail, m_rest>>

UnpinFailed(p) ==
    /\ PAt(p, "unpin_failed")
    /\ Unpin(<<p, "end_block">>, prod[p].pinned)
    /\ prod' = [prod EXCEPT ![p].pinned = NoPage, ![p].pc = "give_up"]
    /\ UNCHANGED <<m_next, content, pool, heap, m_initial_page, status, m_tail, m_rest>>

---------------------------------------------------------------------------
(* create_initial_page *)

InitPage(p) ==
    /\ PAt(p, "init_page")
    /\ IF m_initial_page = NoPage
       THEN m_initial_page' = prod[p].new_page /\ PGoto(p, "init_tail")
       ELSE /\ prod' = [prod EXCEPT ![p].pc = "discard_initial",
                                    ![p].found = FirstBlock(m_initial_page)]
            /\ UNCHANGED m_initial_page
    /\ UNCHANGED <<m_next, content, pool, pinners, heap, status, m_tail, m_rest>>

DiscardInitial(p) ==
    /\ PAt(p, "discard_initial")
    /\ DiscardCreatedPage(prod[p].new_page)
    /\ prod' = [prod EXCEPT ![p].pc = "init_tail", ![p].found = NoBlock,
                            ![p].new_page = PageOf(prod[p].found)]
    /\ UNCHANGED <<content, pinners, heap, m_initial_page, status, m_tail, m_rest>>

InitTail(p) ==
    /\ PAt(p, "init_tail")
    /\ m_tail' = IF TailIs(InvalidBlock, 0) THEN FirstBlock(prod[p].new_page) ELSE m_tail
    /\ prod' = [prod EXCEPT ![p].pc = "try", ![p].tail = m_tail', ![p].rest = m_rest,
                            ![p].new_page = NoPage]
    /\ UNCHANGED <<baseVars, m_rest>>

---------------------------------------------------------------------------
(* The end of a put transaction *)

EndPut(p, flags, outcome) ==
    /\ PAt(p, "pending")
    /\ m_next' = [m_next EXCEPT ![prod[p].control] = NextWord(prod[p].next.to, flags)]
    /\ status' = [status EXCEPT ![Current(p)] = outcome]
    /\ prod' = [prod EXCEPT ![p] = [NewProducer EXCEPT !.puts = prod[p].puts]]
    /\ UNCHANGED <<content, pool, pinners, heap, m_initial_page, m_tail, m_rest>>

\* Mutant: the busy flag stays.
CommitPutBusy(p) == EndPut(p, prod[p].next.flags, "ready")
CommitPut(p) == EndPut(p, prod[p].next.flags \ {"busy"}, "ready")

\* cancel(), the destructor of a pending transaction, or a constructor that
\* throws: the element is destroyed and its block is dead.
CancelPut(p) == EndPut(p, (prod[p].next.flags \ {"busy"}) \cup {"dead"}, "cancelled")

---------------------------------------------------------------------------

TailInit ==
    /\ m_tail = InvalidBlock
    /\ m_rest = 0
    /\ prod = [p \in Producers |-> NewProducer]

\* get_or_allocate_next_page
NextPage(p) ==
    \/ PinEnd(p) \/ RecheckTail(p) \/ CreatePage(p) \/ CreatePageFails(p)
    \/ LinkPage(p) \/ DiscardPage(p) \/ AdvanceTail(p) \/ UnpinEnd(p) \/ UnpinFailed(p)

\* create_initial_page, after create_page
InitialPage(p) == InitPage(p) \/ DiscardInitial(p) \/ InitTail(p)

\* What the user decides.
TransactionStep(p) ==
    \/ \E size \in Sizes, g \in Guarantees : StartPut(p, size, g)
    \/ \E size \in Sizes : RawAllocate(p, size)
    \/ CommitPut(p) \/ CancelPut(p)

TailTypeOK ==
    /\ m_tail \in Block \cup {InvalidBlock}
    /\ m_rest \in 0 .. EndSlot
    /\ prod \in [Producers -> Producer]

\* What is known of a put at each of its steps, whichever the put layer.
ProducerOK(p) ==
    LET r == prod[p]
    IN /\ r.pc # "idle" => r.puts \in 1 .. MaxPuts
       /\ r.pc \notin {"idle", "pending"} => r.size > 0
       /\ r.pc \notin {"idle", "pending", "load_tail"} =>
             /\ r.tail \in Block \cup {InvalidBlock}
             /\ r.tail[2] + r.rest <= EndSlot
       /\ r.pc \in {"store", "settle", "store_pad", "settle_pad", "help_recheck", "help_store",
                     "help_tail", "unpin_helped", "link_page"} => r.tail \in Block
       /\ r.pc = "store" => r.tail[2] + r.size <= EndSlot
       /\ r.pc \in {"link_page", "discard_page", "advance_tail", "init_page",
                     "discard_initial", "init_tail"} => r.new_page \in Pages
       /\ r.pc = "discard_initial" => r.found \in Block
       /\ r.control # NoBlock => r.next.to \in Block

ProducersOK == \A p \in Producers : ProducerOK(p)

\* A reservation in progress at the tail lies in its page.
TailOK ==
    /\ m_tail[2] + m_rest <= EndSlot
    /\ m_rest # 0 => m_tail \in Block
==========================================================================
