# Verification of the density library in TLA+

`density` is a C++ library of heterogeneous queues: containers in which every
element may have its own type, laid out one after the other in pages. Its core
is the concurrent, lock-free `lf_heter_queue`: producers reserve space by a
compare-exchange on one word, consumers walk a chain of control words, and
pages are recycled while late threads may still be looking at them. This project
specifies that queue in all its cardinalities, the allocator and the system page
manager its pages come from, and the queues of one thread and behind a mutex;
model-checks them on small instances; and proves what matters most of the
concurrent queue and of the page manager. The rest is inventoried below.

Paths are relative to `src/include/density/` unless they start with `src/`.

## 1. The system

| Component | State | Operations | Interacts with |
|---|---|---|---|
| `detail/lf_queue_base.h`: blocks and allocations | the `m_next` word of each block (address, flags busy/dead/external/invalid), `PinGuard` | `try_inplace_allocate`, `external_allocate`, `commit_put`, `cancel_put`, pin/unpin | the tail layer that derives from it, the page allocator |
| `detail/lf_queue_tail_multiple_relaxed.h` | `m_tail`, `m_initial_page` | reserve, pad, link the next page, create the first one | allocator (zeroed pages), control words read by consumers |
| `detail/lf_queue_tail_multiple_seq_cst.h` | `m_tail` with a remainder that says "in progress" | as above, plus help for the reservation of another producer | allocator (takes zeroed pages, gives back dirty ones) |
| `detail/lf_queue_tail_single.h` | a private tail | as above, one producer | |
| `detail/lf_queue_head_multiple.h` | `m_head`; a `Consume` per consumer (control, next, a pin) | begin iteration, find an element, set it busy, commit, cancel, advance the head, give pages back | control words, allocator |
| `detail/lf_queue_head_single.h` | a private head | the same loops without pins | |
| `lf_heter_queue.h` | a head and a tail over one allocator | put transactions (with `raw_allocate`), consume operations, reentrant forms, `empty`, `clear`, destructor | user constructors and callbacks, which may throw or reenter |
| `detail/sp_queue_tail_multiple.h`, `sp_heter_queue.h` | `m_tail` under a spin lock | reserve under the lock; wait-free and lock-free puts try the lock once | head layers above |
| `heter_queue.h` | head and tail pointers, one thread | transactions, reentrant transactions, iteration | |
| `conc_heter_queue.h` | a `heter_queue` and a mutex | transactions that hold the mutex, reentrant ones that release it in between | |
| `detail/page_allocator.h`, `page_stack.h`, `wf_page_stack.h` | a ring of slots with lockable stacks of pages (free, zeroed); per-thread private stacks; a pin count per page; a list of pending unpins per thread | allocate, deallocate, pin, try_pin, unpin, steal, dump | system page manager |
| `detail/system_page_manager.h` | a list of regions, each with a bump pointer | allocate a page, reserve memory, create a region | system memory |
| `detail/singleton_ptr.h` | a reference count and a storage | `add_ref`, `release` | the global state of the page allocator |
| `default_allocator.h` | none | facade over the page allocator and `operator new` | |
| `lifo.h` | a thread-local stack of blocks in pages | allocate, reallocate, deallocate, commit in LIFO order | page allocator |
| `runtime_type.h`, `*function_queue.h`, `dynamic_reference.h`, `raw_atomic.h`, `density_common.h` | none that threads share | type erasure, adaptors, arithmetic | |

### What is hard, and what makes each part correct

**Put layers.** The tail moves before the control word is written, so there is
a window in which consumers stop at a zero word and other producers go on past
it (relaxed), or must write the word for a late producer (sequentially
consistent). A thread that pins a page does it after having read its address,
so the page may have been recycled in the meanwhile and everything has to be
read again. *Correct when* the tail always is at the end of the chain that
starts at the head, no page leaks or is given back while linked, a reserved
block is found zeroed, and a pending put owns its block.

**Consume layer.** Any consumer advances the head over any dead block,
including those another consumer is still zeroing; a page is given back by the
one whose compare-exchange crossed its end, while others may be in it.
*Correct when* a committed element is never cut off, is consumed at most once
and in order, an operation in progress keeps its element and its pin, and a
page in the zeroed pool is zero once nobody pins it.

**Allocators.** Lists of pages shared by threads under locks that are markers,
wait-free operations that fail and leave work for later, a bump pointer that
overshoots. *Correct when* every page is in exactly one place, a pinned page is
never handed out, no memory is lost, and a zeroed page is zero.

**Single-threaded and mutex-based queues.** Reentrant transactions end in any
order. *Correct when* elements come out in the order their transactions
started, whatever the order they end in, and every dead block is eventually
skipped and freed. Behind the mutex, whoever touches the queue holds the lock,
also when objects are moved, reused or bound to another queue.

The hazards, line by line, with the properties that watch them, are listed in
`PROJECT.json`.

## 2. Modules

```
LfQueueBase                 addresses, control words, flags, elements,
   |     \                  the contract of the page allocator
   |      \
LfQueueHeadMultiple   LfQueueTailMultiple         put transaction, page creation
        \               /     |        \
         LfQueueChain         |         \
            |    \   LfQueueTailRelaxed  LfQueueTailSeqCst
            |     \    /                   |
            |  LfQueueRelaxed              |
            +--------------------- LfQueueSeqCst -- LfQueueWords: who writes
            |                                       which word, for the proofs
            +-- LfQueueSingle: any of LfQueueTailSingle, SpQueueTailMultiple
            |   |   with any of LfQueueHeadSingle, LfQueueHeadMultiple
            |   +-- LfQueueTrail: the trail of blocks, for the proofs
            +-- LfQueueOrder: the order invariant of the relaxed queue, for
                the proofs

PagePool   <-implements-- PageAllocator --takes pages from--> PageSource
                               |
                          PageAllocatorLists: the invariant, for the proofs
PageSource <-implements-- SystemPageManager

ElementQueues <-implements-- HeterQueue <-extended by-- ConcHeterQueue
              <-implements--------------------------------'
```

`PagePool` is what `LfQueueBase` assumes of the allocator, said of the
allocator's side: pools, pins, a page found only at a moment when nobody pins it.
`LfQueueBase` keeps for each page who pins it, `PagePool` how many.

| Module | Code | Notes |
|---|---|---|
| `LfQueueBase` | `detail/lf_queue_base.h`, allocator requirements in `default_allocator.h` | An address is `<<page, slot>>`, a slot is `s_alloc_granularity` bytes, the last slot is the end control block. A control word is `[to, flags]`; `Zero` and `InvalidNextPage` are the two special ones. |
| `LfQueueHeadMultiple` | `detail/lf_queue_head_multiple.h` | One action per atomic access, with the local computation that follows it. `cons[c]` is a `Consume`; its `pc` is the point the code has reached, `mode` which of the three loops runs (`start_consume_impl`, `is_queue_empty`, `clean_dead_elements`). |
| `LfQueueTailMultiple` | `detail/lf_queue_base.h`, `detail/lf_queue_tail_multiple_*.h`, `put_transaction` | What the two put layers share: starting, external blocks, raw blocks, commit and cancel, `get_or_allocate_next_page`, `create_initial_page`. The word `m_tail` is the pair `m_tail`, `m_rest` (address, remainder). |
| `LfQueueTailRelaxed` | `detail/lf_queue_tail_multiple_relaxed.h` | Reserve by moving the tail, then store the word. |
| `LfQueueTailSeqCst` | `detail/lf_queue_tail_multiple_seq_cst.h` | Reserve by leaving a remainder, store, settle; any producer helps. |
| `LfQueueChain` | | The chain from head to tail, and the properties that relate the two. |
| `LfQueueOrder` | | The order of pages and blocks and that nothing is missing between them: the inductive invariants that the proofs need; no run states the former, whose ranks of the pages want a witness. |
| `LfQueueWords` | | Who writes which control word of the sequentially consistent queue, and when: the inductive invariant that its proofs need; no run states it. |
| `LfQueueRelaxed`, `LfQueueSeqCst` | `lf_heter_queue.h` | The queue: `Next`, `Spec`, fairness. |
| `LfQueueTailSingle` | `detail/lf_queue_tail_single.h` | One producer: the word after the block is zeroed, then the block's own is stored, then the tail moves. The words of the put layers for many producers are reused; pages are not zeroed. |
| `SpQueueTailMultiple` | `detail/sp_queue_tail_multiple.h` | The same steps inside the spin lock `m_mutex`, which a blocking put waits for and the others try; the way out of each return. |
| `LfQueueHeadSingle` | `detail/lf_queue_head_single.h` | Several `Consume` objects of one thread, none of which pins; a call is one sequence of steps against the producers. |
| `LfQueueSingle` | `lf_heter_queue.h`, `sp_heter_queue.h` | The queue whose put layer is `put` and whose consume layer is `consume`, both fixed by the initial state; its destructor, `Destroy`, which is one step because nobody else may use the queue. |
| `LfQueueTrail` | | The trail of blocks that the tail has been at, in a queue with a single or a spin-locking side, and where everything is along it: the inductive invariant that the proofs need; the trail wants a witness, so that no run states it. |
| `PageAllocator` | `detail/page_allocator.h`, `page_stack.h`, `wf_page_stack.h` | One action per access to shared memory. `first[s][k]` is the stack of kind `k` of slot `s`, `next` is the one link member that all the stacks and the pending unpins share, `local[t]` a thread's `PageAllocator`, `call[t]` a call with its variables. `usage` is how the clients pin: pages given back while pinned but unpinned with retries (`early_free`, the blocking and lock-free queue), wait-free unpins of pages one owns (`exclusive`), or both (`any`, which the interface in `default_allocator.h` allows and no queue does). |
| `PageAllocatorLists` | | The lists the free pages are on and the pages to unpin, and what each call relies on: the inductive invariant that the proofs need. Linked lists are given by ranks of their pages, which want a witness, so that no run states it. |
| `PagePool` | `default_allocator.h` | The abstract specification: fresh, free and held pages. |
| `HeterQueue` | `heter_queue.h` | One action per function, since one thread runs it: `mem` is the memory, and what a function does to it is a composition of operators. A reentrant put is two steps, because its constructor may use the queue. Constructors and allocations may throw. |
| `ConcHeterQueue` | `conc_heter_queue.h` | The functions of `HeterQueue` behind a mutex. A function with a `lock_guard` is one step that finds the mutex free; those that lock twice, or wait holding a lock, are several. |
| `ElementQueues` | | The abstract specification of the two: sequences of elements, pending, ready or taken. |
| `SystemPageManager` | `detail/system_page_manager.h` | One action per atomic access. An address in a region is the number of pages before it: `m_start` is 0, `m_end` is `Capacity[r]`. `thr[t]` is a call with its local variables; an allocation is a call of size 0, since the two functions share `get_next_region`. `create_region` tries smaller and smaller sizes, hence each region has a capacity of its own, and may fail at any time. |
| `PageSource` | the use that `detail/page_allocator.h` makes of it | The abstract specification: every page is given at most once. |
| `MC_*` | | Symmetry, bounds and directed constraints for TLC. |
| `*_proof` | | Theorems (section 5). |

Granularity. `density_config.h:118` sets `enable_relaxed_atomics` to `false`,
so that every atomic operation is sequentially consistent and interleaving
atomic accesses is exact. What is not atomic in the code (constructing an
element in its block, `memset` of a block left behind) is one step, and the
properties check that nobody else may look at those bytes meanwhile. A weak
compare-exchange may fail with the expected value: in a loop that changes
nothing; where one failure ends the operation (wait-free puts) the failure is
in the model; where the result is ignored (helping) it is enabled by
`SpuriousFailures`.

Abstracted: the bytes of an element (its identity is enough), its type and
alignment, exceptions thrown by a user's constructor (to the queue they are a
cancelled put or, in `raw_allocate`, a smaller transaction), and under the queues the page
allocator, of which `LfQueueBase` has the contract: two pools, pins, a page is
handed out only unpinned, `lock_free` and `wait_free` requests may fail at any
time, `blocking` ones only when nothing can be handed out. That last condition
stands for the limit of the system's memory: the set `Pages`.

History variables: `status` is what has become of each element, `sawEmpty` and
`waiting` what a consumer could have seen since its call began. No guard reads
them. `given`, in the system page manager and in the page allocator, counts how
many times a page has been returned by the system; `alone` is a thread whose
call no other has disturbed.

## 3. What is checked

The queues; all in `LfQueueChain` unless a module is named.

| Property | Meaning |
|---|---|
| `IInv` | The inductive invariant of the proofs, with the types. |
| `ConsumeHolds` (`LfQueueHeadMultiple`) | An operation in progress keeps its control word, its element and its pin, as `consume_dbg_checks` asserts, and shares them with no other. |
| `ConsumedOnce`, `FirstInFirstOut` (same) | Each element is consumed at most once and never after a cancel; no consumer overtakes an element that has been ready all along its call (with two consumers; with three it may, section 6). |
| `ControlPinned` (same) | The page a consumer is in, and the one it enters, are pinned by it. |
| `NoElementLost` | Every committed element is in the chain from the head. |
| `TailReachable` | The tail, or the end of the reservation in progress at it, is in that chain; its page cannot be handed out. |
| `PagesAccountedFor` | The pages the queue has are those of the chain, those being created and those being given back, no more and no fewer. |
| `PendingHolds` | A pending put owns its block. |
| `ExternalBlocks` | External blocks are freed exactly once. |
| `ReservedIsZero` (`LfQueueRelaxed`) | A producer that has reserved a block finds it zero, though a consumer may still be clearing blocks of a page that another has given back. |
| `ReservedOrHelped`, `NotTruncated` (`LfQueueSeqCst`) | It finds it zero or as its helper has left it; no zero word before the tail. |
| `NothingMissed` | A consumer that finds nothing has not missed an element that was ready all along (as above, of two consumers). |
| `NoSpuriousEmptyForOne` (`MC_QueueSeqCst`) | With one consumer: it is right at some moment of its call (`NoSpuriousEmpty`; with two it is not, section 6). |
| `PollerReturns`, `DeliveredIfPolled` (`MC_QueueRelaxedLive`) | Liveness, see section 4. |

The other cardinalities, in `LfQueueSingle`, with `NoElementLost`:

| Property | Meaning |
|---|---|
| `EndsAtTail` | The words of the chain end at the tail: a consumer is neither cut off before it nor led past it into what an earlier life of a page, which is not zeroed, has left there. |
| `TakenKept` | An element being consumed keeps its block, word and page, though nothing is pinned. |
| `NothingLeft` | Pages and external blocks are exactly those the queue can reach, and none after the destructor. |
| `NeverMissed` | `NothingMissed` and `NoSpuriousEmpty` for the single consumer; nothing of the layers for many. |
| `LockHeldInside` | Whoever is inside the allocation has the spin lock, whoever has left it has not, by whichever return. |

The page allocator, in `PageAllocator`:

| Property | Meaning |
|---|---|
| `TypeOK` | Types. |
| `PoolSpec` | It implements `PagePool`: a page is handed out from the pool asked for and only if it was unpinned then; none is in two places; none is lost by failed pushes, stolen stacks and threads that end. |
| `PinsExact` | The pin count of a page is the number of threads that have it pinned or owe it an unpin. |
| `LoneAllocationFinds` | A call that nobody disturbs fails only if no slot and no private stack has an unpinned page of the kind; if it may block, only if the system has none either. |

The queues of one thread and behind a mutex:

| Property | Meaning |
|---|---|
| `TypeOK` (`HeterQueue`) | Types. |
| `NoLeak` (same) | The pages, external blocks and objects alive are those of the blocks between a head and its tail, whatever was canceled, thrown by a put, cleared, moved or copied; not if a copy throws part-way (section 6). |
| `ObjectsHold` (same) | Each transaction and operation has a block of its own; a block is busy exactly as long as one holds it. |
| `IteratorMoves` (same) | An iterator that leaves an element of a page comes to the next element that can be consumed; from an external element it does not (section 6). |
| `ElementsKept` (same) | The queues implement `ElementQueues`: order is kept, and what fails or is canceled leaves no trace. |
| `LockHeld` (`ConcHeterQueue`) | A plain transaction or operation owns the mutex as long as it is in progress, wherever it was moved, but for an operation that is assigned to while in progress (section 6); nothing that has ended owns one. |

The system page manager, in `SystemPageManager`:

| Property | Meaning |
|---|---|
| `IInv` | The inductive invariant of the proofs, with the types. |
| `PagesExact` | In each region the pages given are exactly those before `m_curr`, less the overshoots not yet undone, and there are overshoots only in a full region. |
| `RegionsIntact` | Every region created is in the list once or is the private region of one call; each knows the size of the list up to it. |
| `SourceSpec` | It implements `PageSource`. |

| Run | Bounds | Question |
|---|---|---|
| `relaxed` | 2 producers, 2 consumers, 2 pages of one block, at most 3 puts | Three kinds of program, fixed by the initial state. *contention*: both producers put once, both consumers take: races to create the first page, to link the next and to advance the head. *recycling*: one producer puts three times, the consumers commit or cancel: a page comes back while a late consumer is in it. *transactions*: one of each, raw blocks, external blocks, wait-free puts, no memory: partial failures of a put. |
| `relaxed_progress` | 1 producer, 2 consumers, 2 puts | A call of a consumer ends wherever the others have stopped; everything committed is consumed. |
| `seqcst` | 2 producers, 2 consumers, 2 pages of three slots | *contention*: one put each and two consumers. *helping*: three puts and one consumer: help within a page and over its end. *padding*: elements that leave a rest of a page or fit in none, wait-free or not, cancelled or not. |
| `single_layers` | 2 producers, 2 `Consume` objects, 2 pages of two slots, at most 3 puts | The four queues with a single or a spin-locking side, and their destruction. |
| `page_allocator` | 2 threads, 2 slots, 2 pages, both kinds | Pages allocated, given back, pinned, stolen and dumped by threads that end, in the two usages for which the pin counts are right. |
| `system_pages` | 3 threads, regions of 0, 1 and 2 pages, all guarantees, reservations of 3 pages | Overshoots, races to create and link regions, reservations. |
| `heter_queue` | 2 queues, 2 pages of two slots, 3 items, 2 objects in use at a time | Every order of the ends of transactions, operations and iterations, with exceptions, while queues are cleared, moved, swapped, copied and destroyed. Copies do not throw part-way and have no external element to go past (section 6). |
| `conc_heter_queue` | the same with 2 items, none external | The locks: two objects on one queue or two, moved, assigned to while in use, and bound to another queue. |

Why the bounds are enough. The code tells apart a block from the next, the last
block of a page from the others, and a page that is linked, left or recycled.
Pages of one or two blocks make every put cross a boundary within one or two
steps; two pages are the fewest in which a page comes back, three allow it
while one is being created for nothing. Two threads of a kind give every
pairwise race; what takes three consumers is in the run `late_consumer`. A program that has two of everything has one put each, and one
with more puts has one thread fewer of a kind: this keeps a run below
a million states. In `relaxed` raw blocks and cancelled puts are in the
program of transactions, and calls of `empty()` in the one of contention; only
the first element of the one of recycling may be external. In `seqcst` the
programs with one consumer call `empty()`. In the system page manager three threads are enough
for two to overshoot a region while a third uses the next, and two regions for
a race at the end of the list whose loser links its own one place further. In
the page allocator two slots make a ring, a steal and a push that goes on to
another slot; `MaxUnpins` is 1 (16 in the code), so that two pending unpins are
already more than a call tries; while pages are given back early there is one
pin at a time, and zeroed pages are there only while the system has given one
page, because the two kinds meet only in `call`. In the queues of one thread,
two objects in use and two blocks besides are what it takes for one operation to
end before, between or after the blocks of another. An iterator that an
operation invalidates is not followed further: nothing may be done with it.
`MaxUnits` is the remainder `m_tail` can hold: 9 exceeds every page here, so a
pad takes one step in these runs (`PadUnits` with several pieces is planned).
Symmetry is used for safety only and never with a property that
names a thread: no definition chooses among pages, producers or consumers.
Deadlock is checked in `system_pages`, `page_allocator`, `heter_queue` and
`conc_heter_queue`, whose calls repeat for ever. It is not in
the lock-free queues' runs because producers stop after `MaxPuts`: with the queue empty
and the bound reached there is nothing to do for them, and the liveness runs
are there for calls that hang.

`SpuriousFailures` is `FALSE` in the passing runs of the sequentially
consistent queue. With `TRUE` the property `NotTruncated` fails (section 6) and
what rests on it too; it is the behaviour of the build on processors whose weak
compare-exchange is a plain compare-exchange (x86).

## 4. Fairness

Two assumptions, both of threads, never of outcomes:

* `ConsumerGoesOn(c)`, `ProducerGoesOn(p)`: weak fairness of the steps of a
  call that has been entered: a thread that is scheduled executes the next
  instruction. `relaxed_progress` runs under `SpecScheduled`, which assumes it
  of one consumer only, so the producer, and the other consumer, may stop
  anywhere for ever; `PollerReturns` says that this consumer's calls end.
* `PolledBy(c)` is the premise of `DeliveredIfPolled`: besides, transactions are
  committed or cancelled and elements taken are consumed, which the program that
  uses the queue decides; and one consumer starts `try_start_consume` again and
  again. This start needs strong fairness because the same `Consume` may in
  between be destroyed.

Producers have no such guarantee (section 6, `relaxed_put_progress`, which
assumes weak fairness of one producer). The other modules are checked for safety
only: their blocking calls wait for locks whose holders need not be scheduled.

## 5. Theorems

**The queues.** For any constants that satisfy the modules' assumptions, any number of pages,
producers, consumers and puts, with spurious failures or without:

| Theorem | Module | Says |
|---|---|---|
| `Invariance` | `LfQueueRelaxed_proof`, `LfQueueSeqCst_proof` | `Spec => []IInv` |
| `TypeCorrect` | same | `Spec => []TypeOK`, a part of `IInv` |
| `PagesPinned` | same | `Spec => []ControlPinned` |

The argument. `TypeOK` is not inductive: an address is computed from another
(`NewTail`, `ReservedEnd`), read from a control word or found in a local
variable. `IInv` (in `LfQueueChain`) adds what makes each such access legal:

* `WordsOK`: a word that is busy or dead names a block, so whatever a consumer
  follows is a block and not the null address;
* `ConsumersOK`, `ProducersOK`: at each point of a function, which local
  variables hold a block, and that a reservation ends within its page;
* `TailOK`: a reservation in progress at the tail lies in its page, so the
  helper that only knows `m_tail` writes a legal word;
* `ControlPinned`: inductive only with the facts that a consumer moving between
  two pages really is in two different pages (part of `ConsumersOK`) and that
  no producer unpins with the identity of a consumer (`BaseAssumption`).

The layers are proved apart, as they are written apart. `LfQueueChain_proof`
shows that each consumer step keeps its own part (`HeadInv`) given a memory
that is well formed, that the producer steps common to both layers keep the
memory well formed (`MemoryOK`) and the consumers' pins (`PinsKept`), and puts
the two together; `LfQueueRelaxed_proof` and `LfQueueSeqCst_proof` add the
steps of their layer and conclude with the temporal step.

**The relaxed queue** (`LfQueueRelaxed_proof`), for any number of pages, slots,
producers, consumers and puts, under the assumption that its allocations ask
for zeroed pages (`RelaxedAssumption`):

| Theorem | Says |
|---|---|
| `OrderInvariance` | `Spec => []OrderInv`, which is `\E rank : Ordered(rank)` with `IInv` |
| `ElementHeld` | `Spec => []ConsumeHolds` |
| `ReservationsBlank` | `Spec => []ReservedIsZero` |
| `TakenOnce` | `Spec => ConsumedOnce` |
| `WholeInvariance` | `Spec => [](OrderInv /\ NothingMissing)` |
| `NothingCut` | `Spec => []NoElementLost` |
| `TailKept` | `Spec => []TailReachable` |
| `NoPageLost` | `Spec => []PagesAccountedFor` |
| `PutsHold` | `Spec => []PendingHolds` |
| `ExternalsFreedOnce` | `Spec => []ExternalBlocks` |

What a consumer does is right only because of where blocks lie: it stores to
the word it has made busy without looking again, and zeroes a block after the
head has passed it, while producers write other words of the same page and
late consumers still read this one. `IInv` knows what a word may be, not that
nobody else writes it. `Ordered(rank)` in `LfQueueOrder` says it:

* `PagesOrdered`: `rank` numbers the linked pages in the order they were
  linked; each page's end names the first block of the page of the next rank,
  the last page is open. `rank` is existentially quantified: a step that links
  a page gives it the next number.
* `HeadPlace`, `TailPlace`: the head is in a linked page; the tail is in the
  last one, or at the end of the one before, with a producer about to move it.
* `NewPagesBlank`, `LeftBehind`: a page being created belongs to one producer
  and is zero; behind the head everything is zero except the words of blocks
  just passed, each of which one consumer is about to zero.
* `BlocksApart`, `ReservationsOK`: the blocks of a page, those still to be
  written included, do not overlap and end before the tail; two producers never
  write the same word, and the one they write is zero.
* `ConsumersPlaced`, `OwnersOK`: what each consumer has read is still there
  when it relies on it; the word of a pending put or a taken element is busy,
  stays as its owner wrote it, and has one owner.
* `PutsOK`, `CreationOK`: raw blocks lie after the element of their
  transaction, hence the head cannot pass them before it ends; a producer that
  links a page has the page before pinned, so that `m_tail` cannot leave it
  and come back (the ABA case of the compare-exchange).
* `ContentsWiped`, `ElementsOK`: bytes that are not zero are in a block or in
  one that a consumer is wiping; ready and taken blocks hold distinct elements,
  with the status that history gives them.

It says nothing of paths: each fact is about a page and its successor, a block
and where it ends, a thread and its block, so that a step is looked at without
any path. TLC had checked it before it was proved, with ranks counted
along the chain, exhaustively on an instance of 459,731 states. The steps of
consumers and then those of producers are in `LfQueueOrder_proof`, one lemma per
action and one step per conjunct; `LfQueueRelaxed_proof` adds the layer's own
reservation and puts them together. `ConsumeHolds` then is `OwnersOK` with `ElementsOK`
and the pins of `IInv`; `ReservedIsZero` is `ReservationsOK` with
`ContentsWiped`; and in every step of the queue each element moves along its
life at most one stage (`ConsumedOnce`), because the block it is taken from
holds an element that is ready.

The four after `WholeInvariance` are about paths: `Chain` is what a walk from the head along
`After` reaches. `Ordered` says that what is there is in order; that the walk
meets all of it also takes that nothing is missing, which `NothingMissing` says:

* `Tiled`: where a block of the queue begins, its control word says where it
  ends, or a producer that has moved the tail past it is about to, or the tail
  is there;
* `Located`: an element that is ready has a block that can be consumed, one
  being consumed has the consumer that took it;
* `LeftApart`: a page behind the head that is not yet given back has exactly one
  consumer that will do it, and is the queue's until then;
* `LinksValid`: the flag of a page that has no next page is only in words that
  name no block, so that whoever reads it may link a page.

It was checked by TLC on the instance of the run `relaxed` and is proved step
by step like `Ordered`, in `LfQueueRelaxed_proof`. There also is the argument about
paths. Each step of the walk goes from a block to a later one
(`Successors`; `Before` compares pages by rank, then slots), so that fewer
blocks are left at each step, and the walk ends within the bound that `Chain`
has, the size of the memory, which is finite and not empty (`ChainAssumption`, the only
assumption that these theorems add). Hence from each of its blocks it goes on
(`ChainFacts`). To show that it meets a given block, take the last block of the
walk that is not after it: if that were another one, by `Tiled` and
`BlocksApart` the next one is not after it either (`ChainHas`). The two
arguments need induction, and the library's induction theorems take an operator,
which the provers cannot instantiate; they are stated with sets instead. A
non-empty set of numbers has a least one (`LeastNumber`), because inclusion of
finite sets is well founded, a theorem of the library that has no such
parameter; hence a set that has 0, and n + 1 with n, has every number up to a
bound (`UpTo`). The function that `Chain` takes its blocks from exists for every
bound in the same way (`StepsExist`). `Chain` then passes through every block
that is written or reserved and through the tail, and each of the four
properties is read off `Ordered` and `NothingMissing`.

`ExternalBlocks` is about what is allocated in the heap for large elements. That
nothing is leaked and nothing freed twice is a matter of owners, and `ExternalsOK`
names them without a path:

* `HeapOwned`: the heap is what some blocks hold (`Held`) and what some
  producers have asked for (`Asked`). A block holds an allocation
  from its control word on (`HasExternal`), first in the queue, then in the
  hands of the consumer that has moved the head past it;
* `ItemsApart`: no two of these blocks hold the same allocation, and none
  holds one that its producer asks for now or later (`Earlier`), so that to free one
  is to take it from one place only;
* `AskersOK`: between the control word and the contents of a block, its
  producer has the allocation, and no other producer fills that block;
* `ExternalsPlaced`: the word at the end of a page is not external, and what a
  consumer is about to free is not in a block that another one wipes.

TLC had checked it on the instance of `relaxed`. Most producer steps keep the blocks
and what is in them (`ExternalsStay`), as do most consumer steps (`ExternalsLeft`);
the others move one allocation from one owner to the next. The chain then has
exactly the blocks of the queue that are external (`ExternalsReached`).

**The sequentially consistent queue** (`LfQueueSeqCst_proof`), for any number of
pages, slots, producers, consumers and puts, under the assumption that its
allocations ask for zeroed pages and give them back dirty (`SeqCstAssumption`):

| Theorem | Says |
|---|---|
| `WordsInvariance` | `Spec => []WordsInv` |
| `FindsReserved` | `Spec => []ReservedOrHelped` |
| `NeverTruncated` | `~SpuriousFailures /\ Spec => []NotTruncated` |

Here any producer may write the control word of a block that another one has
reserved, from what it has read of `m_tail`, and may do it long after the block
was written, consumed and wiped. That it does no harm rests on one fact: this
queue takes zeroed pages but gives pages back to the other pool, so that the
tail enters a page at most once, and a word that is zero has not been written
yet. `WordsInv`, in `LfQueueWords`, follows from it:

* `SparesBlank`, `TailEnds`: blocks are clear, and nobody is about to write
  them, in the zeroed pages, in those being created, in the one linked to the
  page of the tail, and in the page of the tail from the tail on;
* `TailPending`, `HelpersOK`: a reservation that a producer has seen in progress
  has its word, or a producer that is about to write it, with that very end;
* `StorerOK`: the late producer finds zero or the word that its helper has
  written, which is the same that it writes itself;
* `PutterHas`, `TakerHas`, `OwnersApart`: the word of a pending put or of an
  element that is being consumed is as its owner has left it, and has one owner;
* `CreatorKnows`: a producer that has come to the end of a page either has the
  tail there still, or the tail has left that page for good: it does not come back (the ABA
  case of the compare-exchange), so that the page it
  links, or has found linked, is one where the tail can go (`Enterable`);
* `PutterFlags`, `WordsLead`, `ConsumerKnows`: what the flags and
  the addresses of the words read along the way may be.

Nothing is said of the head: words are kept apart by where the tail has
been. `ReservedOrHelped` is then a part of `StorerOK`. For
`NotTruncated`, a zero word of the chain from which the chain goes on is that of a block
reserved and not yet written, and it is at the tail
(`ReservedAtTail`), because a helper moves the tail only after it has written the
word. That is where a
compare-exchange that fails without a cause would break it, as section 6 says;
hence the hypothesis, which is a constant of the model. TLC had checked
`WordsInv` and `ReservedAtTail` on the instance of the run `seqcst` before they
were proved, one lemma per action and part.

**The spin lock of `sp_heter_queue`** (`LfQueueSingle_proof`).
`SpinLockHeld`, `Spec => []LockHeldInside`: a producer inside the allocation
has the lock, one that is outside, by whichever return, has not; hence at most one
is inside. The invariant is inductive by itself; what is to be shown is
that every step of the allocation that goes on stays inside and every one that
leaves goes through one of the three ways out that unlock.

**The queues with a single or a spin-locking side** (`LfQueueSingle_proof`, with
`LfQueueTrail`), for any number of pages, producers and consumers, of each combination
of layers that `LfQueueSingle` has, assuming that the pages are finitely many
(`ChainAssumption`, for the walks along the chain):

| Theorem | Says |
|---|---|
| `ChainEndsAtTail` | `Spec => []EndsAtTail` |
| `ElementsStayTaken` | `Spec => []TakenKept` |
| `ElementsNotLost` | `Spec => []NoElementLost` |

Pages are not zeroed here, so that where a word points says nothing by itself: it may
be left from an earlier life of the page. But one producer at a time moves the
tail, which is known by `SpinLockHeld`. Hence the blocks that the tail has been at form one
sequence, the trail, and each invariant is about places along it. The trail is a witness
of the invariant, not a variable of the code: `Trail` is a record w of the blocks
(`w.at`), the place of the head, the last place, and for each page the place where its last
life begins (`w.base`). A step that moves the tail makes the trail one block longer.

* `EndsOK`, `StepsOK`: the last place is at the tail and the head is at its place;
  from one place to the next the blocks of a page go forward, and a page is
  entered at its first block.
* `LivesOK`: in its last life a page is one piece of the trail; the pages between
  the head and the tail are in their last lives (`Valid`).
* `WordsTrail`: the word of each place from the head to the tail names the next
  one. Behind the head, in pages not yet used again, it is dead and names the next
  one, or zeroed if it is at the end of a page: this is what many consumers that are late rely on. The
  word at the tail names nothing.
* `PagesHeld`, `PinsHeld`: the queue has the pages between the head and the tail, the
  one being created and those a consumer has left and not given back; only consumers pin.
* `AloneInside`, `PuttersOK`, `TakersOK`: one producer is in the allocation, with
  the tail it has read; the word of a pending put or a taken element is as its
  owner wrote it and has one owner; where what each consumer has read
  is along the trail.

TLC had checked it, with the trail as one more variable, before it was proved. The
steps of a producer and of a consumer each have a frame, what they leave as it
was, from which most parts follow at once (`ProducerCore`, `ConsumerCore`). By the
argument about paths of the relaxed queue the chain then is the live
part of the trail, and at most a block that a suspended producer has reserved
(`ChainTrail`): that is `EndsAtTail`. For the other two, `ElementsKept` adds what the blocks
hold: the elements that are ready are those of the blocks with a ready word
(`Readies`), those being consumed are those that consumers hold (`Taken`), no element
twice. That such a word can be consumed takes that only words without a
block have the flag of a page with no next one (`WordsLinked`), and gives
`NoElementLost`.

**The mutex of `conc_heter_queue`** (`ConcHeterQueue_proof`).
`MutexHeld`, `ConcSpec => []LockHeld`, for any number of queues and objects, under
the assumption that the classes of objects do not overlap. `LockHeld` is not
inductive: a reentrant operation that is bound to another queue holds the mutexes
of two for a moment and frees that of the queue it is bound to without looking,
so one must know that it has it (`FirstHeld`); a plain operation that is used
again waits for a mutex, and must not by then be in progress (`GivenBack`); and a
mutex held by a reentrant object must be held inside a call (`ReentrantHold`).
Assignments to objects in use are among the steps (`AssignLock`,
`AssignOperation`, and the moves of reentrant objects, which take no lock). In the
middle of one to a plain operation the target owns the mutex of its source, and
no longer that of the queue it is in progress on: `Engaged` says which mutex an
object must own, and `LockHeld` has this one exception, since the code does it.
What the functions do to the queues under the lock does not matter: the lemmas
have only what they do to the objects.

**The system page manager** (`SystemPageManager_proof`), for any number of
threads, regions and pages, assuming that the threads are finitely many and that
the first region is empty:

| Theorem | Says |
|---|---|
| `Invariance` | `Spec => []IInv` |
| `AllPagesExact` | `Spec => []PagesExact` |
| `NoRegionLost` | `Spec => []RegionsIntact` |
| `Refinement` | `Spec => SourceSpec`: it implements `PageSource` |

`PagesExact` counts: a region's pointer is the number of its pages given plus
the number of threads about to undo an overshoot (`Undoing`), so that a step
past the end and its undoing cancel out (`Overshoots`), and a thread that finds
the pointer within the region knows that nobody is undoing (`Takes`). It needs
that a region becomes visible to a second thread only through the list:
`RegionsIntact` keeps private regions apart from listed ones, `UnlinkedFresh`
says that nobody has touched the former, and `ThreadsOK` that whatever a call
holds at each point is in the list, and that a wait-free allocation compares
with a value within the region. `Invariance` is one lemma per kind of step;
the refinement follows, because a step that gives a page gives one of count 0.

**The page allocator** (`PageAllocator_proof`), for any number of pages, threads
and slots, with spurious failures or without, in each of the two usages for
which its lists are sound (`usage # "any"`: the hypothesis is a choice of the
initial state, and without it `PinsExact` fails, section 6):

| Theorem | Says |
|---|---|
| `AllocatorInvariant` | `Spec /\ usage # "any" => []IInv` |
| `TypeCorrect` | `... => []TypeOK` |
| `PinCounts` | `... => []PinsExact` |
| `ImplementsPool` | `... => PoolSpec`: it implements `PagePool` |

All the stacks and the pages to unpin are linked through one member of a page,
`next`, which threads write without a lock. What keeps this right is where a
page is at each moment, which `IInv` (in `PageAllocatorLists`) says:

* `ListsOK`: there is one list for each place a free page may be in, the stacks
  of the slots, the private stacks and, for each thread, the stack that its
  call moves; no page is on two. A list (`IsList`) is a set of pages that some
  numbering puts in the order of the links, from the head to the null pointer
  or, for a stack that is being pushed, to the page whose link the push writes.
* `OwnersOK`: the pages that clients hold, those on the lists and the one that
  each allocation has found are different ones, all given by the system.
* `PendingOK`: the pages to unpin are on lists too. With retries there are
  none; when clients unpin wait-free those lists have pages held by clients
  only, hence no page of a stack (`ExclusiveOK`). This is what the usage `any`
  breaks.
* `PinsOK` and `CountsOK`: who may pin what, and that a pin count is the number
  of threads that have the page pinned or owe it an unpin.
* `CallsOK`: at each point of a call, which of its variables are a list, its
  last page, a page of a list being searched and the one before it; `LocksOK`:
  while a call searches a stack of a slot the marker is there, and no other
  call searches it.

A step does one of four things to the lists: it moves a list as a whole from
one place to another (an exchange, a compare-exchange with null, the end of a
search); it puts one list on another, writing the link of the last page; it
takes one page out of the list that the call has locked; or it adds a page that
nobody has. Each of these is a lemma about lists, and the links that a step
writes are of pages in its own hands, so that the others stay as they were
(`ListFrame`). There is one lemma per action, for the lists, the owners, the
pins and the calls. They are shown for some sets of pages; that the sets are
those that `Chain` computes follows at the end, since a list from a given head
is unique and `Chain` meets its pages in turn, within the bound that it has.

In the refinement the page of a step that hands it out comes out of its list or
from the system (`Free`, `Fresh`), by the same four cases, and `PinCounts` gives
the counts that `PagePool` keeps; that a page is handed out unpinned is what the
search has just read, and it is in no other place then. The assumptions are those of
`AllocatorAssumption`: finitely many pages and threads, and that the null
pointer, the marker of a locked stack (`detail/wf_page_stack.h`) and pages are
different from each other.

Only model-checked:

* liveness, and anything with ENABLED, which are out of the prover's reach;
* `NothingLeft` of the single layers;
* `FirstInFirstOut`, `NothingMissed`, `NoSpuriousEmptyForOne` and `NeverMissed`, which
  speak of what a call could have seen since it began; the first two hold of two
  consumers only (section 6), hence cannot be theorems of the specification;
* of the sequentially consistent queue, `ConsumeHolds`, `ConsumedOnce` and `PendingHolds`, of
  which `WordsInv` gives the part about control words but not that about the
  contents of blocks, and the properties of its chain;
* `LoneAllocationFinds` of the page allocator, about what a call could have
  found since it began;
* the contents of the queues of one thread and behind a mutex (`NoLeak`,
  `ObjectsHold`, `ElementsKept`), whose lists of blocks are folds of a recursive
  function: what these compute is known by induction over data.

## 6. Where the code and its documentation disagree

Each of these is a run that TLC must find violated; the details and quotations
are in `PROJECT.json`.

1. `relaxed_put_progress` (`PutEnds`). A lock-free put that runs alone loops for
   ever if the producer that linked the next page is suspended before it moves
   the tail and the consumers have left the old page: it returns the tail it
   already had and tries again.
2. `late_consumer` (`FirstInFirstOut`), one producer and three consumers. A
   consumer that enters the next page pins it, reads `m_next` again and goes on if it is not
   zero; but it becomes zero only some steps after the head has left it, and in
   between the page may have been consumed, given back and linked again as a
   later one. The consumer then takes an element while an earlier one of the
   same producer, ready since before its call, is waiting. In the same
   way a call may find nothing although an element was ready all along
   (`NothingMissed`). `detail/lf_queue_head_multiple.h:380-382` argues that the
   page cannot be reused. No element is lost or taken twice.
3. `page_unpin` (`PinsExact`). A wait-free unpin that meets another pin or unpin
   puts the page in a list linked through `m_next_page`. If the page is given
   back before the unpin is made, the stack of free pages
   overwrites that member, and the thread goes on to unpin free pages. The run
   takes two threads and two pages; `page_allocator` shows that either habit
   alone, giving back early or unpinning wait-free, is harmless. It is a matter of
   the allocator's interface (`default_allocator.h:387-391` and `438` allow both): the
   queues give pages back while others have them pinned, but none of them gets to a
   wait-free unpin. The one `PinGuard` that may be wait-free is that of the
   sequentially consistent put (`detail/lf_queue_tail_multiple_seq_cst.h:143`), and a
   wait-free put returns at lines 213-216, before it pins.
4. `conc_reuse` (`TakenOnce`). `start_consume_impl` of a reentrant consume operation
   that is used again on its queue unlocks the mutex before it looks for an
   element, so two threads may take the same one.

Others can be had from the same modules by a change of a run:

* `SpuriousFailures = TRUE` in `seqcst` with `NotTruncated`: the helper ignores
  the result of a weak compare-exchange
  (`detail/lf_queue_tail_multiple_seq_cst.h:241`), and on a spurious failure it
  moves the tail past a zero word.
* `NoSpuriousEmpty` in place of `NoSpuriousEmptyForOne` in `seqcst`. With two
  consumers, a consume operation of the sequentially consistent queue, and of
  `sp_heter_queue` with many consumers, may find nothing although at every
  moment there was a ready element, while `lf_heter_queue.h:38-42` says that
  only the relaxed model hides elements. `NothingMissed` holds.
* `CapacityUsable` in `system_pages`. Reserving memory moves `m_curr_region`
  (`detail/system_page_manager.h:330`) past every region but the last, and
  allocations never go back: after a reservation larger than one region (4 MiB)
  the pages of the first are lost to allocation, and a lock-free put may fail for
  lack of memory that was reserved for it, while `lf_heter_queue.h:51-56` presents
  the reserve functions as the way to avoid that.
* `IteratorMoves` in `heter_queue` without its condition that the element left
  is not external: `next_valid` (`heter_queue.h:2632`) clears two of the three flag
  bits, so that an iterator that leaves an element stored outside its page goes to a
  misaligned address, `WildBlock`. The run has such moves, and the iterator is
  not followed further. The copy constructor and the copy assignment of a
  queue, and its comparisons, iterate in the same way: a copy of a queue that has
  an external element that can be consumed is undefined, and the model has no copies
  of such queues (`Copyable`).
* `Uses = {"throwing_copy"}` in `heter_queue`: if a copy throws in the copy
  constructor (`heter_queue.h:365-375`), which the copy assignment also uses, what
  was copied so far is leaked (`NoLeak`), while lines 363 and 403 promise the
  strong guarantee. That is n elements, and a dead block if it was the next
  element's constructor that threw; for the first element it is a page with a dead
  block only. With `Uses = {}` a copy fails only at its first allocation,
  when there is nothing to leak.
* `LockHeld` in `conc_heter_queue` without its exception: the assignment to a
  plain consume operation in progress moves the lock first (`conc_heter_queue.h:572`),
  which unlocks the target's queue, and then the operation, which commits the target's
  element there without the mutex. The assignments of reentrant objects commit or
  cancel what the target has without a lock too (1133 and 1414). In the model they
  are steps between those of others; in the code nothing makes them so. With
  `Reuses = {}` there are none.
* `Reuses = {"crossing"}` in `conc_heter_queue` with `NoCrossedLocks`: two
  operations that go from one queue to the other in opposite directions lock the
  old queue and then the new one, and wait for each other
  (`conc_heter_queue.h:1565-1575`).

And not in a model: a reentrant operation of `conc_heter_queue.h` locks the mutex of
the queue it was last bound to, even if that was destroyed (1571). The sequentially consistent
queue takes zeroed pages and gives back dirty ones, and the allocator never moves
a page from one pool to the other, so that a put may fail, or the process grow,
with free pages at hand.

## 7. What is left

Modules are checked as sections 2 and 3 say. To be proved, in this order:

1. For the sequentially consistent queue, where the head may be: `WordsInv` says
   who writes the words but neither that blocks do not overlap nor that nothing is
   missing between the head and the tail. `NothingMissing` and the
   argument about paths then carry over.
2. `FirstInFirstOut` for the relaxed queue and at most two consumers, with what each
   call has seen; and `NothingMissed` in the same way.
3. The single layers: `NothingLeft`, for which the trail must also say which of its
   blocks hold an external allocation, and which consumer is to free one that the head has passed.

Not modelled:

* `SingletonPtr`, which guards the allocator's global state before its first and
  after its last use; every module starts with that state in place.
* `lifo.h`: a stack of blocks of one thread in pages, arithmetic on a pointer.
* Move and swap of the lock-free queues, which assume that no thread uses them;
  they exchange words and pages wholesale.
* `runtime_type`, the function queues and `dynamic_reference`, which are type
  erasure without state that threads share; `raw_atomic`, whose operations are
  single steps here; alignment arithmetic; tests and benchmarks.
