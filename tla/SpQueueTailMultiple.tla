----------------------- MODULE SpQueueTailMultiple -----------------------
(***************************************************************************)
(* The put layer of sp_heter_queue (detail/sp_queue_tail_multiple.h): many *)
(* producers that take a spin lock to allocate a block, and release it     *)
(* before they construct the element.  Puts that may not block only try    *)
(* the lock.  m_tail is read and written with the lock held.               *)
(***************************************************************************)
EXTENDS LfQueueTailSingle

CONSTANT NoThread

ASSUME SpinAssumption == NoThread \notin Producers

VARIABLE m_mutex    \* who holds the lock

\* try_start_push and the like.  Whether the element is too large for a page
\* is seen with the lock held.
SpinStartPut(p, size, g) ==
    /\ PAt(p, "idle")
    /\ prod[p].puts < MaxPuts
    /\ prod' = [prod EXCEPT ![p] =
                  [NewProducer EXCEPT !.pc = "load_tail", !.puts = prod[p].puts + 1,
                                      !.guarantee = g, !.size = size, !.flags = {"busy"}]]
    /\ UNCHANGED <<baseVars, m_tail, m_rest, m_mutex>>

SpinRawAllocate(p, size) ==
    /\ PAt(p, "pending")
    /\ prod[p].raws < MaxRaw
    /\ prod' = [prod EXCEPT ![p].pc = "load_tail", ![p].raws = @ + 1,
                            ![p].size = size, ![p].flags = {"dead"}]
    /\ UNCHANGED <<baseVars, m_tail, m_rest, m_mutex>>

\* Mutant: the lock is not exclusive: it was tested and set in two steps.
LockAnyway(p) ==
    /\ PAt(p, "load_tail")
    /\ m_mutex' = p
    /\ Retry(p, m_tail, 0)
    /\ UNCHANGED <<baseVars, m_tail, m_rest>>

\* lock() spins; it is one step, when the lock is free.
Lock(p) ==
    /\ PAt(p, "load_tail") /\ m_mutex = NoThread
    /\ m_mutex' = p
    /\ Retry(p, m_tail, 0)
    /\ UNCHANGED <<baseVars, m_tail, m_rest>>

TryLockFails(p) ==
    /\ PAt(p, "load_tail") /\ m_mutex # NoThread
    /\ prod[p].guarantee # "blocking"
    /\ PGoto(p, "give_up")
    /\ UNCHANGED <<baseVars, m_tail, m_rest, m_mutex>>

\* Mutant: an external block is allocated with the lock held.
ExternalLocked(p) ==
    /\ PAt(p, "try") /\ External(prod[p].size)
    /\ prod[p].guarantee = "blocking"
    /\ heap' = heap \cup {Allocating(p)}
    /\ prod' = [prod EXCEPT ![p].pc = "load_tail", ![p].size = 1,
                            ![p].flags = @ \cup {"external"}]
    /\ UNCHANGED <<m_next, content, pool, pinners, m_initial_page, status, m_tail, m_rest, m_mutex>>

\* "this avoids recursive locks": external_allocate allocates the block and
\* enters the function again for an ExternalBlock.
UnlockForExternal(p) ==
    /\ PAt(p, "try") /\ External(prod[p].size)
    /\ prod[p].guarantee = "blocking"
    /\ m_mutex' = NoThread
    /\ heap' = heap \cup {Allocating(p)}
    /\ prod' = [prod EXCEPT ![p].pc = "load_tail", ![p].size = 1,
                            ![p].flags = @ \cup {"external"}]
    /\ UNCHANGED <<m_next, content, pool, pinners, m_initial_page, status, m_tail, m_rest>>

RefuseExternal(p) ==
    /\ PAt(p, "try") /\ External(prod[p].size)
    /\ prod[p].guarantee # "blocking"
    /\ PGoto(p, "give_up")
    /\ UNCHANGED <<baseVars, m_tail, m_rest, m_mutex>>

\* page_overflow, before the end block: the rest of the page is a dead block.
SpinPad(p) ==
    /\ PAt(p, "try") /\ ~External(prod[p].size) /\ ~Fits(p) /\ ~AtEnd(p)
    /\ LET end == EndBlock(prod[p].tail)
       IN /\ m_next' = [m_next EXCEPT ![prod[p].tail] = NextWord(end, {"dead"})]
          /\ m_tail' = end
          /\ Retry(p, end, 0)
    /\ UNCHANGED <<content, pool, pinners, heap, m_initial_page, status, m_rest, m_mutex>>

\* create_page
SpinCreatePage(p) ==
    /\ PAt(p, "try") /\ ~External(prod[p].size) /\ AtEnd(p)
    /\ \/ \E q \in Pages :
            NewPage(p, q, [m_next EXCEPT ![FirstBlock(q)] = Zero,
                                         ![EndBlock(FirstBlock(q))] = InvalidNextPage])
       \/ NoNewPage(p)
    /\ UNCHANGED m_mutex

\* The destructor of the unique_lock, after an allocation.
Unlock(p) ==
    /\ PAt(p, "settle")
    /\ m_mutex' = NoThread
    /\ PGoto(p, "fill")
    /\ UNCHANGED <<baseVars, m_tail, m_rest>>

\* The same if nothing was allocated; try_lock may have failed.
GiveUpAndUnlock(p) ==
    /\ GiveUp(p)
    /\ m_mutex' = IF m_mutex = p THEN NoThread ELSE m_mutex

\* start_emplace and the like construct the type and the element without the
\* lock; if that throws, the block is cancelled like a transaction.
SpinConstruct(p) == Fill(p) /\ UNCHANGED m_mutex
SpinCommitPut(p) == CommitPut(p) /\ UNCHANGED m_mutex
SpinCancelPut(p) == CancelPut(p) /\ UNCHANGED m_mutex

---------------------------------------------------------------------------

SpinInit == m_mutex = NoThread

SpinPutStep(p) ==
    \/ Lock(p) \/ TryLockFails(p) \/ UnlockForExternal(p) \/ RefuseExternal(p)
    \/ SpinPad(p) \/ SpinCreatePage(p) \/ Unlock(p) \/ GiveUpAndUnlock(p)
    \/ /\ \/ NullTerminate(p) \/ StoreControl(p, "settle")
          \/ LinkNextPage(p) \/ SetInitialPage(p)
       /\ UNCHANGED m_mutex
    \/ SpinConstruct(p)

SpinPutNext(p) ==
    \/ \E size \in Sizes, g \in Guarantees : SpinStartPut(p, size, g)
    \/ \E size \in Sizes : SpinRawAllocate(p, size)
    \/ SpinPutStep(p)
    \/ SpinCommitPut(p) \/ SpinCancelPut(p)

\* Where a producer has the lock: inside try_inplace_allocate_impl.
Inside(p) == prod[p].pc \in {"try", "store", "settle", "link_page", "init_page"}
Outside(p) == prod[p].pc \in {"idle", "load_tail", "fill", "pending"}
==========================================================================
