---------------------------- MODULE HeterQueue ----------------------------
(***************************************************************************)
(* heter_queue (heter_queue.h): queues of elements of any type, used by    *)
(* one thread at a time, and the objects a user holds: put transactions,   *)
(* consume operations, iterators.                                          *)
(*                                                                         *)
(* The memory is a record, and what the code does to it in sequence is a   *)
(* composition of operators on it.  An address is <<page, slot>>; a block  *)
(* of n slots has its control word, the runtime type and the element.      *)
(***************************************************************************)
EXTENDS Integers, Sequences, FiniteSets, SequencesExt

CONSTANTS
    Queues,             \* heter_queue objects
    NoQueue,            \* m_queue of an empty object
    Pages, NoPage,
    EndSlot,            \* get_end_of_page: the last place for the tail
    Sizes,              \* bound: slots of the blocks that are put
    RawSizes,           \* bound: slots of the raw blocks
    MaxItems,           \* bound: elements and raw blocks in memory at a time
    PlainPuts, ReentrantPuts,           \* (reentrant_)put_transaction objects
    PlainConsumes, ReentrantConsumes,   \* (reentrant_)consume_operation objects
    Iterators,
    Uses                \* what users do besides: "throwing_copy"

ASSUME HeterQueueAssumption ==
    /\ NoQueue \notin Queues /\ NoPage \notin Pages
    /\ EndSlot \in Nat \ {0} /\ MaxItems \in Nat
    /\ Sizes \cup RawSizes \subseteq Nat \ {0}
    /\ Uses \subseteq {"throwing_copy"}

Puts == PlainPuts \cup ReentrantPuts
Consumes == PlainConsumes \cup ReentrantConsumes

VARIABLES
    mem,        \* the queues and their memory
    put,        \* the put transactions
    op,         \* the consume operations
    iter        \* the iterators

vars == <<mem, put, op, iter>>

---------------------------------------------------------------------------
(* Control words *)

Block == Pages \X (0 .. EndSlot)
NoBlock == <<NoPage, 0>>
WildBlock == <<NoPage, 1>>              \* a misaligned address
InvalidBlock == <<NoPage, EndSlot>>     \* s_invalid_control_block
PageOf(b) == b[1]
FirstBlock(p) == <<p, 0>>

\* Queue_Flags: they are added and subtracted.
Busy == 1
Dead == 2
External == 4
IsReady(f) == f % 4 = 0
IsDead(f) == f % 4 = Dead
IsExternal(f) == f >= External

\* What fills a block: an element or a raw block, 0 in a jump to a page.
Item == 1 .. MaxItems
NoItem == 0

Memory == [head : [Queues -> Block \cup {InvalidBlock}],
           tail : [Queues -> Block \cup {InvalidBlock}],
           next : [Block -> Block \cup {NoBlock}],
           flags : [Block -> 0 .. 7],
           item : [Block -> 0 .. MaxItems],
           pages : SUBSET Pages,        \* allocated
           heap : SUBSET Item,          \* items with an external allocation
           live : SUBSET Item,          \* elements constructed, not destroyed
           value : [Item -> 0 .. MaxItems]]

\* The blocks of a queue, from the head up to the tail.
Chain(m, q) ==
    LET from[n \in 0 .. Cardinality(Block), b \in Block \cup {InvalidBlock, NoBlock}] ==
          IF n = 0 \/ b \notin Block \/ b = m.tail[q] THEN <<>>
          ELSE <<b>> \o from[n - 1, m.next[b]]
    IN from[Cardinality(Block), m.head[q]]

ChainBlocks(m, q) == ToSet(Chain(m, q))
ReadyBlocks(m, q) == SelectSeq(Chain(m, q), LAMBDA b : IsReady(m.flags[b]))
ChainPages(m, q) ==
    {PageOf(b) : b \in ChainBlocks(m, q) \cup ({m.tail[q]} \ {InvalidBlock})}

\* first_valid, next_valid and start_consume_impl look for a ready block.
\* Mutant: for one that is not dead.
FirstAlive(m, q) ==
    LET c == SelectSeq(Chain(m, q), LAMBDA b : ~IsDead(m.flags[b]))
    IN IF c = <<>> THEN NoBlock ELSE Head(c)
FirstReady(m, q) == IF ReadyBlocks(m, q) = <<>> THEN NoBlock ELSE Head(ReadyBlocks(m, q))

---------------------------------------------------------------------------
(* Allocation *)

Fits(m, q, n) == m.tail[q][2] + n <= EndSlot /\ m.tail[q] # InvalidBlock

\* allocate_new_page: a jump from the tail to it, or the first page.
AllocateNewPage(m, q, p) ==
    LET b == FirstBlock(p)
        linked == IF m.tail[q] = InvalidBlock
                  THEN [m EXCEPT !.head[q] = b]
                  ELSE [m EXCEPT !.next[m.tail[q]] = b, !.flags[m.tail[q]] = Dead]
    IN [linked EXCEPT !.tail[q] = b, !.pages = @ \cup {p}]

\* Struct Allocation: the memory with the new block, and the block.  Pages
\* are all alike.
InplaceAllocate(m, q, n, bits, i) ==
    LET r == IF Fits(m, q, n) THEN m
             ELSE AllocateNewPage(m, q, CHOOSE p \in Pages : p \notin m.pages)
        b == r.tail[q]
        end == <<b[1], b[2] + n>>
    IN [mem |-> [r EXCEPT !.next[b] = end, !.flags[b] = bits, !.item[b] = i,
                          !.tail[q] = end],
        block |-> b]

\* external_allocate puts an ExternalBlock in the queue.
ExternalAllocate(m, q, bits, i) ==
    InplaceAllocate([m EXCEPT !.heap = @ \cup {i}], q, 1, bits + External, i)

TooLarge(n) == n > EndSlot

UsedItems(m) == UNION {{m.item[b] : b \in ChainBlocks(m, q)} : q \in Queues}
                \cup m.heap \cup m.live \cup {m.value[i] : i \in m.live}
NewItem(m) == CHOOSE i \in Item \ UsedItems(m) : \A j \in Item \ UsedItems(m) : i <= j

\* The memory is there: an allocation needs at most a page.
CanAllocate(m, q, n) ==
    /\ Item \ UsedItems(m) # {}
    /\ Fits(m, q, IF TooLarge(n) THEN 1 ELSE n) \/ m.pages # Pages

NewAllocation(m, q, n, bits) ==
    IF TooLarge(n) THEN ExternalAllocate(m, q, bits, NewItem(m))
                   ELSE InplaceAllocate(m, q, n, bits, NewItem(m))

\* The constructor of the element in block b returns: a new value, or v.
Construct(m, b, v) ==
    [m EXCEPT !.live = @ \cup {m.item[b]}, !.value[m.item[b]] = v]
ConstructNew(m, b) == Construct(m, b, m.item[b])

\* The element of a block is destroyed.
Destruct(m, b) == [m EXCEPT !.live = @ \ {m.item[b]}, !.value[m.item[b]] = NoItem]

\* A block whose element was not built, or is destroyed, becomes dead.
Kill(m, b) == Destruct([m EXCEPT !.flags[b] = @ - (@ % 4) + Dead], b)

\* A failure of the allocator leaves no trace: the external block, which is
\* allocated first, is given back.
OutOfMemory(m, n) == m

---------------------------------------------------------------------------
(* Reclaiming *)

\* clean_dead_elements: the dead blocks at the head are passed over, their
\* external allocations freed, and the pages that are left.
Clean(m, q) ==
    LET c == Chain(m, q)
        alive == {k \in 1 .. Len(c) : ~IsDead(m.flags[c[k]])}
        passed == {c[k] : k \in {j \in 1 .. Len(c) : \A l \in alive : j < l}}
        left == {PageOf(b) : b \in {a \in passed : PageOf(m.next[a]) # PageOf(a)}}
    IN [m EXCEPT
          !.head[q] = IF alive = {} THEN m.tail[q]
                      ELSE c[CHOOSE k \in alive : \A l \in alive : k <= l],
          !.heap = @ \ {m.item[b] : b \in {a \in passed : IsExternal(m.flags[a])}},
          !.pages = @ \ left,
          !.next = [b \in Block |-> IF b \in passed THEN NoBlock ELSE m.next[b]],
          !.flags = [b \in Block |-> IF b \in passed THEN 0 ELSE m.flags[b]],
          !.item = [b \in Block |-> IF b \in passed THEN NoItem ELSE m.item[b]]]

\* start_consume_impl sets the busy flag, cancel_consume_impl clears it.
Take(m, b) == [m EXCEPT !.flags[b] = @ + Busy]
Release(m, b) == [m EXCEPT !.flags[b] = @ - Busy]

\* commit() destroys the element, and commit_consume_impl cleans.
Discard(m, q, b) ==
    Clean(Destruct([m EXCEPT !.flags[b] = @ + Dead - Busy], b), q)

\* clear() consumes whatever is ready, then cleans what was dead already.
\* Mutant: it does not.
ClearReady(m, q) ==
    FoldLeft(LAMBDA r, b : Discard(Take(r, b), q, b), m, ReadyBlocks(m, q))
Clear(m, q) ==
    Clean(FoldLeft(LAMBDA r, b : Discard(Take(r, b), q, b), m, ReadyBlocks(m, q)), q)

\* destroy() then frees the page of the head, which is the only one.
Destroy(m, q) ==
    LET r == Clear(m, q)
    IN [r EXCEPT !.pages = @ \ {PageOf(r.head[q])},
                 !.head[q] = InvalidBlock, !.tail[q] = InvalidBlock]

\* swap(heter_queue &, heter_queue &)
Swap(m, q, r) ==
    [m EXCEPT !.head = [@ EXCEPT ![q] = m.head[r], ![r] = m.head[q]],
              !.tail = [@ EXCEPT ![q] = m.tail[r], ![r] = m.tail[q]]]

---------------------------------------------------------------------------
(* The objects *)

NoPut == [queue |-> NoQueue, block |-> NoBlock, built |-> FALSE]
NoOp == [queue |-> NoQueue, block |-> NoBlock]
NoIter == [queue |-> NoQueue, at |-> NoBlock, item |-> NoItem]

PutBound(t) == put[t].queue # NoQueue
OpBound(o) == op[o].block # NoBlock

\* While an operation that is not reentrant is in progress, the queue may be
\* used only through its object.
InProgress(q) ==
    {t \in PlainPuts : PutBound(t) /\ put[t].queue = q}
    \cup {o \in PlainConsumes : OpBound(o) /\ op[o].queue = q}
Usable(q) == InProgress(q) = {}
UsableBy(q, object) == InProgress(q) \subseteq {object}

\* A lifetime function may be called: no object refers to the queue.
Unused(q) ==
    /\ \A t \in Puts : put[t].queue # q
    /\ \A o \in Consumes : OpBound(o) => op[o].queue # q
Fresh(q) == mem.tail[q] = InvalidBlock /\ Unused(q)

\* It invalidates the iterators.
DropIterators(Q) ==
    iter' = [i \in Iterators |-> IF iter[i].queue \in Q THEN NoIter ELSE iter[i]]

\* The allocation of an element, and what may become of it.
Bind(t, q, b, built) == put' = [put EXCEPT ![t] = [queue |-> q, block |-> b, built |-> built]]

---------------------------------------------------------------------------
(* Puts that are not reentrant *)

\* push, emplace, dyn_push, dyn_push_copy, dyn_push_move: start_ and commit.
Put(q, n) ==
    /\ \/ /\ CanAllocate(mem, q, n)
          /\ LET a == NewAllocation(mem, q, n, 0)
             IN mem' \in {ConstructNew(a.mem, a.block), Kill(a.mem, a.block)}
       \/ mem' = OutOfMemory(mem, n)
    /\ UNCHANGED <<put, op, iter>>

\* The element is allocated and its constructor called, which may throw.
StartAndConstruct(q, t, n, bits) ==
    /\ ~PutBound(t) /\ CanAllocate(mem, q, n)
    /\ LET a == NewAllocation(mem, q, n, bits)
       IN \/ mem' = ConstructNew(a.mem, a.block) /\ Bind(t, q, a.block, TRUE)
          \/ mem' = Kill(a.mem, a.block) /\ UNCHANGED put
    /\ UNCHANGED <<op, iter>>

\* start_push, start_emplace
StartEmplace(q, t, n) == StartAndConstruct(q, t, n, 0)

\* start_dyn_push, start_dyn_push_copy, start_dyn_push_move: the copy of the
\* runtime type may throw too, to the same effect.
StartDynPush(q, t, n) == StartEmplace(q, t, n)

\* raw_allocate, raw_allocate_copy: a dead block behind the element's.
RawAllocate(t, n) ==
    /\ t \in PlainPuts /\ PutBound(t)
    /\ CanAllocate(mem, put[t].queue, n)
    /\ mem' = NewAllocation(mem, put[t].queue, n, Dead).mem
    /\ UNCHANGED <<put, op, iter>>

\* commit() only empties the transaction: the element is visible already.
CommitPut(t) ==
    /\ t \in PlainPuts /\ PutBound(t)
    /\ put' = [put EXCEPT ![t] = NoPut]
    /\ UNCHANGED <<mem, op, iter>>

\* cancel(), and the destructor of a transaction that is not empty.
CancelPut(t) ==
    /\ t \in PlainPuts /\ PutBound(t)
    /\ mem' = Kill(mem, put[t].block)
    /\ put' = [put EXCEPT ![t] = NoPut]
    /\ UNCHANGED <<op, iter>>

\* The transaction moved to is canceled, the one moved from is left empty.
MovePut(t, u) ==
    /\ t # u /\ PutBound(u) /\ put[u].built
    /\ put[t].built \/ ~PutBound(t)
    /\ mem' = IF PutBound(t) THEN Kill(mem, put[t].block) ELSE mem
    /\ put' = [put EXCEPT ![t] = put[u], ![u] = NoPut]
    /\ UNCHANGED <<op, iter>>

---------------------------------------------------------------------------
(* Reentrant puts: the block is busy, the queue stays usable *)

\* start_reentrant_push, start_reentrant_emplace: the constructor that is
\* called next may use the queue.
StartReentrantEmplace(q, t, n) ==
    /\ ~PutBound(t) /\ CanAllocate(mem, q, n)
    /\ LET a == NewAllocation(mem, q, n, Busy)
       IN mem' = a.mem /\ Bind(t, q, a.block, FALSE)
    /\ UNCHANGED <<op, iter>>

\* start_reentrant_dyn_push, start_reentrant_dyn_push_copy, ..._move
StartReentrantDynPush(q, t, n) == StartReentrantEmplace(q, t, n)

\* reentrant_push, reentrant_emplace, reentrant_dyn_push, ..._copy, ..._move,
\* whose constructor does not use the queue: start_reentrant_ and commit.
ReentrantPut(q, n) == Put(q, n)

Building(t) == t \in ReentrantPuts /\ PutBound(t) /\ ~put[t].built

\* The constructor returns, or throws.
EndConstruction(t) ==
    /\ Building(t)
    /\ \/ /\ mem' = ConstructNew(mem, put[t].block)
          /\ put' = [put EXCEPT ![t].built = TRUE]
       \/ /\ mem' = Kill(mem, put[t].block)
          /\ put' = [put EXCEPT ![t] = NoPut]
    /\ UNCHANGED <<op, iter>>

Pending(t) == t \in ReentrantPuts /\ put[t].built

ReentrantRawAllocate(t, n) ==
    /\ Pending(t)
    /\ CanAllocate(mem, put[t].queue, n)
    /\ mem' = NewAllocation(mem, put[t].queue, n, Dead).mem
    /\ UNCHANGED <<put, op, iter>>

CommitReentrantPut(t) ==
    /\ Pending(t)
    /\ mem' = Release(mem, put[t].block)
    /\ put' = [put EXCEPT ![t] = NoPut]
    /\ UNCHANGED <<op, iter>>

CancelReentrantPut(t) ==
    /\ Pending(t)
    /\ mem' = Kill(mem, put[t].block)
    /\ put' = [put EXCEPT ![t] = NoPut]
    /\ UNCHANGED <<op, iter>>

\* The same functions of reentrant_put_transaction.
MoveReentrantPut(t, u) == MovePut(t, u)

---------------------------------------------------------------------------
(* Consume operations *)

\* The operation takes the first element that is ready, or none.
TakeFirst(m, q, o) ==
    LET b == FirstReady(m, q)
    IN /\ mem' = IF b = NoBlock THEN m ELSE Take(m, b)
       /\ op' = [op EXCEPT ![o] = IF b = NoBlock THEN NoOp ELSE [queue |-> q, block |-> b]]
       /\ UNCHANGED <<put, iter>>

\* try_start_consume: an operation in progress is canceled first, whichever
\* its queue.
\* Mutant: it is not, and its element stays busy for ever.
StartForgetting(q, o) == TakeFirst(mem, q, o)
TryStartConsume(q, o) ==
    TakeFirst(IF OpBound(o) THEN Release(mem, op[o].block) ELSE mem, q, o)

\* commit(), commit_nodestroy(): the user or the operation destroys the element.
CommitConsume(o) ==
    /\ OpBound(o)
    /\ mem' = Discard(mem, op[o].queue, op[o].block)
    /\ op' = [op EXCEPT ![o] = NoOp]
    /\ UNCHANGED <<put, iter>>

\* cancel(), and the destructor of an operation that is not empty.
\* Mutant: m_control is not reset.
CancelConsumeAgain(o) ==
    /\ OpBound(o)
    /\ mem' = Release(mem, op[o].block)
    /\ UNCHANGED <<put, op, iter>>
CancelConsume(o) ==
    /\ OpBound(o)
    /\ mem' = Release(mem, op[o].block)
    /\ op' = [op EXCEPT ![o] = NoOp]
    /\ UNCHANGED <<put, iter>>

\* The operation moved to is committed, the one moved from is left empty.
MoveConsume(o, u) ==
    /\ o # u /\ OpBound(u)
    /\ mem' = IF OpBound(o) THEN Discard(mem, op[o].queue, op[o].block) ELSE mem
    /\ op' = [op EXCEPT ![o] = op[u], ![u] = NoOp]
    /\ UNCHANGED <<put, iter>>

\* empty()
Empty(m, q) == FirstReady(m, q) = NoBlock

\* pop, try_pop
Pop(q) ==
    /\ ~Empty(mem, q)
    /\ mem' = LET b == FirstReady(mem, q) IN Discard(Take(mem, b), q, b)
    /\ UNCHANGED <<put, op, iter>>

\* The same functions of reentrant_consume_operation.
TryStartReentrantConsume(q, o) == TryStartConsume(q, o)
CommitReentrantConsume(o) == CommitConsume(o)
CancelReentrantConsume(o) == CancelConsume(o)
MoveReentrantConsume(o, u) == MoveConsume(o, u)
ReentrantPop(q) == Pop(q)

---------------------------------------------------------------------------
(* Iteration *)

\* The element an iterator points to is still in its queue.
IsAt(i) ==
    /\ iter[i].at \in Block
    /\ iter[i].at \in ChainBlocks(mem, iter[i].queue)
    /\ mem.item[iter[i].at] = iter[i].item
    /\ ~IsDead(mem.flags[iter[i].at])

\* begin(), by an iterator that is at the end or was invalidated.
BeginIteration(i, q) ==
    /\ ~IsAt(i)
    /\ LET b == FirstReady(mem, q)
       IN iter' = [iter EXCEPT ![i] = IF b = NoBlock THEN NoIter
                                      ELSE [queue |-> q, at |-> b, item |-> mem.item[b]]]
    /\ UNCHANGED <<mem, put, op>>

\* next_valid keeps the external flag of the block it leaves in the address
\* of the next one (& ~3): what it then reads there is undefined.
\* Mutant: it looks at the next block only.
NextBlock(m, q, b) ==
    IF m.next[b] # m.tail[q] THEN m.next[b] ELSE NoBlock
NextValid(m, q, b) ==
    LET c == Chain(m, q)
        k == CHOOSE j \in 1 .. Len(c) : c[j] = b
        after == SelectSeq(SubSeq(c, k + 1, Len(c)), LAMBDA a : IsReady(m.flags[a]))
    IN IF IsExternal(m.flags[b]) THEN WildBlock
       ELSE IF after = <<>> THEN NoBlock ELSE Head(after)

\* operator++
Increment(i) ==
    /\ IsAt(i)
    /\ LET b == NextValid(mem, iter[i].queue, iter[i].at)
       IN iter' = [iter EXCEPT ![i] =
            IF b = NoBlock THEN NoIter
            ELSE [@ EXCEPT !.at = b, !.item = IF b = WildBlock THEN NoItem ELSE mem.item[b]]]
    /\ UNCHANGED <<mem, put, op>>

---------------------------------------------------------------------------
(* Whole queues *)

\* clear()
ClearQueue(q) ==
    /\ mem' = Clear(mem, q)
    /\ UNCHANGED <<put, op, iter>>

\* The destructor, and the constructor of another queue in its place.
DestroyQueue(q) ==
    /\ Unused(q)
    /\ mem' = Destroy(mem, q)
    /\ DropIterators({q})
    /\ UNCHANGED <<put, op>>

\* Move constructor and move assignment: the elements q had are destroyed.
MoveQueue(q, r) ==
    /\ q # r /\ Unused(q) /\ Unused(r)
    /\ mem' = Swap(Destroy(mem, q), q, r)
    /\ DropIterators({q, r})
    /\ UNCHANGED <<put, op>>

SwapQueues(q, r) ==
    /\ q # r /\ Unused(q) /\ Unused(r)
    /\ mem' = Swap(mem, q, r)
    /\ DropIterators({q, r})
    /\ UNCHANGED <<put, op>>

\* The size of the block of a ready element.
SizeOf(m, b) == IF IsExternal(m.flags[b]) THEN EndSlot + 1 ELSE m.next[b][2] - b[2]

\* dyn_push_copy of the element of block b, which belongs to another queue.
PushCopy(m, q, b) ==
    LET a == NewAllocation(m, q, SizeOf(m, b), 0)
    IN Construct(a.mem, a.block, m.value[m.item[b]])

\* The copy constructor pushes a copy of each element.
CopyFirst(m, q, r, n) ==
    FoldLeft(LAMBDA s, b : PushCopy(s, q, b), m, SubSeq(ReadyBlocks(m, r), 1, n))
CopyAll(q, r) == CopyFirst(mem, q, r, Len(ReadyBlocks(mem, r)))

\* If it throws, after n elements, the next one has no block or a dead one.
\* The destructor of q is not called: what it has by then is leaked.  Without
\* "throwing_copy" only the first allocation fails, when it has nothing.
Thrown(q, r) ==
    LET ready == ReadyBlocks(mem, r)
        Before(n) == CopyFirst(mem, q, r, n)
        After(n) == LET a == NewAllocation(Before(n), q, SizeOf(mem, ready[n + 1]), 0)
                    IN Kill(a.mem, a.block)
    IN IF "throwing_copy" \in Uses
       THEN UNION {{Before(n), After(n)} : n \in 0 .. Len(ready) - 1}
       ELSE {Before(0)}
Leaked(m, q) == [m EXCEPT !.head[q] = InvalidBlock, !.tail[q] = InvalidBlock]

\* The memory is there.  The copy constructor walks with next_valid, which
\* leaves an external element for a misaligned address: a copy that reads it
\* is undefined, and is left out.
Copyable(r) ==
    /\ \A b \in ToSet(ReadyBlocks(mem, r)) : NextValid(mem, r, b) # WildBlock
    /\ Cardinality(Item \ UsedItems(mem)) >= Len(ReadyBlocks(mem, r))
    /\ Cardinality(Pages \ mem.pages) >= Cardinality(ChainPages(mem, r))

CopyQueue(q, r) ==
    /\ q # r /\ Fresh(q) /\ Usable(r)
    /\ Copyable(r)
    /\ mem' \in {CopyAll(q, r)} \cup {Leaked(m, q) : m \in Thrown(q, r)}
    /\ DropIterators({q})
    /\ UNCHANGED <<put, op>>

\* Copy assignment: a copy, which may throw, a swap, and the old elements are
\* destroyed with the temporary x.
CopyAssign(q, r, x) ==
    /\ x \notin {q, r} /\ Unused(q) /\ Fresh(x) /\ Usable(r)
    /\ Copyable(r)
    /\ \/ /\ mem' = Destroy(Swap(CopyAll(x, r), q, x), x)
          /\ DropIterators({q, x})
       \/ /\ mem' \in {Leaked(m, x) : m \in Thrown(x, r)}
          /\ DropIterators({x})
    /\ UNCHANGED <<put, op>>

---------------------------------------------------------------------------

Init ==
    /\ mem = [head |-> [q \in Queues |-> InvalidBlock],
              tail |-> [q \in Queues |-> InvalidBlock],
              next |-> [b \in Block |-> NoBlock],
              flags |-> [b \in Block |-> 0],
              item |-> [b \in Block |-> NoItem],
              pages |-> {}, heap |-> {}, live |-> {},
              value |-> [i \in Item |-> NoItem]]
    /\ put = [t \in Puts |-> NoPut]
    /\ op = [o \in Consumes |-> NoOp]
    /\ iter = [i \in Iterators |-> NoIter]

\* What users do with a queue and the objects that refer to it: while a plain
\* operation is in progress the queue is used only through its object.
PutNext ==
    \/ \E q \in Queues : Usable(q) /\ \E n \in Sizes : Put(q, n) \/ ReentrantPut(q, n)
    \/ \E q \in Queues, t \in PlainPuts : Usable(q) /\
         \E n \in Sizes : StartEmplace(q, t, n) \/ StartDynPush(q, t, n)
    \/ \E t \in PlainPuts : \/ \E n \in RawSizes : RawAllocate(t, n)
                            \/ CommitPut(t)
                            \/ CancelPut(t)
                            \/ \E u \in PlainPuts : MovePut(t, u)

ReentrantPutNext ==
    \/ \E q \in Queues, t \in ReentrantPuts : Usable(q) /\
         \E n \in Sizes : StartReentrantEmplace(q, t, n) \/ StartReentrantDynPush(q, t, n)
    \/ \E t \in ReentrantPuts : Usable(put[t].queue) /\
         \/ EndConstruction(t)
         \/ \E n \in RawSizes : ReentrantRawAllocate(t, n)
         \/ CommitReentrantPut(t)
         \/ CancelReentrantPut(t)
    \/ \E t, u \in ReentrantPuts :
         Usable(put[t].queue) /\ Usable(put[u].queue) /\ MoveReentrantPut(t, u)

ConsumeNext ==
    \/ \E q \in Queues : Usable(q) /\ (Pop(q) \/ ReentrantPop(q))
    \/ \E q \in Queues, o \in PlainConsumes : UsableBy(q, o) /\ TryStartConsume(q, o)
    \/ \E o \in PlainConsumes : \/ CommitConsume(o)
                                \/ CancelConsume(o)
                                \/ \E u \in PlainConsumes : MoveConsume(o, u)

ReentrantConsumeNext ==
    \E o \in ReentrantConsumes : Usable(op[o].queue) /\
      \/ \E q \in Queues : Usable(q) /\ TryStartReentrantConsume(q, o)
      \/ CommitReentrantConsume(o)
      \/ CancelReentrantConsume(o)
      \/ \E u \in ReentrantConsumes : Usable(op[u].queue) /\ MoveReentrantConsume(o, u)

IterationNext ==
    \E i \in Iterators :
      \/ \E q \in Queues : Usable(q) /\ BeginIteration(i, q)
      \/ Usable(iter[i].queue) /\ Increment(i)

QueueNext ==
    \/ \E q \in Queues : Usable(q) /\ ClearQueue(q)
    \/ \E q \in Queues : DestroyQueue(q)
    \/ \E q, r \in Queues : MoveQueue(q, r) \/ SwapQueues(q, r) \/ CopyQueue(q, r)
    \/ \E q, r, x \in Queues : CopyAssign(q, r, x)

Next == \/ PutNext \/ ReentrantPutNext \/ ConsumeNext \/ ReentrantConsumeNext
        \/ IterationNext \/ QueueNext

Spec == Init /\ [][Next]_vars

---------------------------------------------------------------------------
(* Properties *)

TypeOK ==
    /\ mem \in Memory
    /\ put \in [Puts -> [queue : Queues \cup {NoQueue}, block : Block \cup {NoBlock},
                         built : BOOLEAN]]
    /\ op \in [Consumes -> [queue : Queues \cup {NoQueue}, block : Block \cup {NoBlock}]]
    /\ iter \in [Iterators -> [queue : Queues \cup {NoQueue}, item : 0 .. MaxItems,
                               at : Block \cup {NoBlock, WildBlock}]]

\* No memory is leaked or shared: the pages allocated are those of the blocks
\* between a head and its tail, each of one queue; the external allocations
\* and the objects alive are those of blocks still there, whatever was
\* canceled, thrown by a put, cleared, moved or copied before.  It is not said
\* of copies that throw part-way, which do leak (heter_queue.h:365).
AllBlocks == UNION {ChainBlocks(mem, q) : q \in Queues}
BeingBuilt(b) == \E t \in Puts : put[t].block = b /\ ~put[t].built
NoLeak ==
    /\ mem.pages = UNION {ChainPages(mem, q) : q \in Queues}
    /\ \A q, r \in Queues : q # r => ChainPages(mem, q) \cap ChainPages(mem, r) = {}
    /\ mem.heap = {mem.item[b] : b \in {a \in AllBlocks : IsExternal(mem.flags[a])}}
    /\ mem.live = {mem.item[b] : b \in {a \in AllBlocks : ~IsDead(mem.flags[a])
                                                          /\ ~BeingBuilt(a)}}

\* Each transaction and operation in progress has a block of its own, still
\* in its queue and not dead; a block is busy exactly as long as one of them
\* holds it, so nothing is consumed twice and no element is stuck.
Held == {put[t].block : t \in {u \in Puts : PutBound(u)}}
        \cup {op[o].block : o \in {u \in Consumes : OpBound(u)}}
ObjectsHold ==
    /\ \A t \in Puts : PutBound(t) => put[t].block \in ChainBlocks(mem, put[t].queue)
    /\ \A o \in Consumes : OpBound(o) => op[o].block \in ChainBlocks(mem, op[o].queue)
    /\ \A t, u \in Puts : PutBound(t) /\ t # u => put[t].block # put[u].block
    /\ \A o, u \in Consumes : OpBound(o) /\ o # u => op[o].block # op[u].block
    /\ \A t \in Puts, o \in Consumes : PutBound(t) => put[t].block # op[o].block
    /\ \A b \in Held : ~IsDead(mem.flags[b])
    /\ {b \in AllBlocks : mem.flags[b] % 2 = Busy}
         = Held \ {put[t].block : t \in PlainPuts}

\* An iterator that is moved comes to the next element that can be consumed,
\* past pending, taken and dead ones, and ends only behind the last one
\* (heter_queue.h:49: the queue supports iterators).  It is said of the moves
\* from elements inside the pages only: from an external one next_valid goes
\* to a misaligned address (heter_queue.h:2632).
Position(q, b) == CHOOSE k \in 1 .. Len(Chain(mem, q)) : Chain(mem, q)[k] = b
IteratorMove(i) ==
    LET q == iter[i].queue
        ready == ToSet(ReadyBlocks(mem, q))
        from == Position(q, iter[i].at)
        to == IF iter'[i] = NoIter THEN Len(Chain(mem, q)) + 1 ELSE Position(q, iter'[i].at)
    IN /\ iter'[i].at \in ready \cup {NoBlock}
       /\ \A k \in from + 1 .. to - 1 : Chain(mem, q)[k] \notin ready
IteratorMoves == [][\A i \in Iterators :
    IsAt(i) /\ ~IsExternal(mem.flags[iter[i].at]) /\ mem' = mem /\ iter'[i] # iter[i]
    => IteratorMove(i)]_vars

\* The queues are what ElementQueues says: each keeps its elements in the
\* order they were put, a consume takes the first that is ready, and an
\* operation that fails or is canceled leaves no trace.
Elements(m, q) ==
    LET held == SelectSeq(Chain(m, q), LAMBDA b : ~IsDead(m.flags[b]))
        State(b) == IF \E t \in Puts : put[t].block = b THEN "pending"
                    ELSE IF m.flags[b] % 2 = Busy THEN "taken" ELSE "ready"
    IN [k \in 1 .. Len(held) |->
          [state |-> State(held[k]),
           value |-> IF State(held[k]) = "pending" THEN 0 ELSE m.value[m.item[held[k]]]]]
Abstract == INSTANCE ElementQueues WITH
    contents <- [q \in Queues |-> Elements(mem, q)], Values <- Item
ElementsKept == Abstract!Spec

===========================================================================
