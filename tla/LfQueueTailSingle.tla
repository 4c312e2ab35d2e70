------------------------ MODULE LfQueueTailSingle ------------------------
(***************************************************************************)
(* The put layer for one producer thread (detail/lf_queue_tail_single.h).  *)
(* Nobody else moves m_tail, so a put terminates the queue after its block *)
(* first, and then writes the control word that makes the block reachable. *)
(* A page ends wherever the next block does not fit: there is no padding   *)
(* and no end block.                                                       *)
(*                                                                         *)
(* Producers are here the transactions of the one thread: while some are   *)
(* pending, or an element is under construction, it may start others.      *)
(***************************************************************************)
EXTENDS LfQueueTailMultiple

---------------------------------------------------------------------------
(* Steps of a put whose thread owns m_tail, alone or with the lock *)

\* Mutant: the queue is not terminated after the new block.
NullTerminateForgotten(p) ==
    /\ PAt(p, "try") /\ Fits(p)
    /\ PGoto(p, "store")
    /\ UNCHANGED <<baseVars, m_tail, m_rest>>

\* The m_next that the next block will have.
NullTerminate(p) ==
    /\ PAt(p, "try") /\ Fits(p)
    /\ m_next' = [m_next EXCEPT ![NewTail(prod[p].tail, prod[p].size)] = Zero]
    /\ PGoto(p, "store")
    /\ UNCHANGED <<content, pool, pinners, heap, m_initial_page, status, m_tail, m_rest>>

\* The control word of the new block, and m_tail, which consumers do not read.
StoreControl(p, pc) ==
    /\ PAt(p, "store")
    /\ LET b == prod[p].tail
           n == NextWord(ReservedEnd(p), prod[p].flags)
       IN /\ m_next' = [m_next EXCEPT ![b] = n]
          /\ m_tail' = n.to
          /\ IF "busy" \in n.flags
             THEN /\ status' = [status EXCEPT ![Current(p)] = "putting"]
                  /\ prod' = [prod EXCEPT ![p].pc = pc, ![p].control = b, ![p].next = n]
             ELSE PGoto(p, pc) /\ UNCHANGED status
    /\ UNCHANGED <<content, pool, pinners, heap, m_initial_page, m_rest>>

\* A page that need not be zeroed, with the words the layer writes in it.
\* The others keep what they held; content knows only of this life.
NewPage(p, q, words) ==
    /\ pool[q] # "queue" /\ pinners[q] = {}
    /\ pool' = [pool EXCEPT ![q] = "queue"]
    /\ m_next' = words
    /\ content' = [b \in Block |-> IF PageOf(b) = q THEN NoItem ELSE content[b]]
    /\ prod' = [prod EXCEPT ![p].new_page = q, ![p].pc =
                  IF prod[p].tail = InvalidBlock THEN "init_page" ELSE "link_page"]
    /\ UNCHANGED <<pinners, heap, m_initial_page, status, m_tail, m_rest>>

\* There is no page, or none without waiting: the allocation is empty.
NoNewPage(p) ==
    /\ prod[p].guarantee # "blocking" \/ \A q \in Pages : pool[q] = "queue" \/ pinners[q] # {}
    /\ PGoto(p, "give_up")
    /\ UNCHANGED <<baseVars, m_tail, m_rest>>

\* m_tail goes to the start of the new page and the loop goes round.
EnterPage(p) ==
    LET first == FirstBlock(prod[p].new_page)
    IN /\ m_tail' = first
       /\ prod' = [prod EXCEPT ![p].pc = "try", ![p].tail = first, ![p].new_page = NoPage]

LinkNextPage(p) ==
    /\ PAt(p, "link_page")
    /\ m_next' = [m_next EXCEPT ![prod[p].tail] = NextWord(FirstBlock(prod[p].new_page), {"dead"})]
    /\ EnterPage(p)
    /\ UNCHANGED <<content, pool, pinners, heap, m_initial_page, status, m_rest>>

\* A virgin queue.
SetInitialPage(p) ==
    /\ PAt(p, "init_page")
    /\ m_initial_page' = prod[p].new_page
    /\ EnterPage(p)
    /\ UNCHANGED <<m_next, content, pool, pinners, heap, status, m_rest>>

---------------------------------------------------------------------------

\* The thread is in no other call of the queue.
OnlyPut(p) == \A q \in Producers \ {p} : prod[q].pc \in {"idle", "fill", "pending"}

StartSinglePut(p) ==
    /\ OnlyPut(p)
    /\ \/ \E size \in Sizes, g \in Guarantees : StartPut(p, size, g)
       \/ \E size \in Sizes : RawAllocate(p, size)

\* page_overflow
SingleOverflow(p) ==
    /\ PAt(p, "try") /\ ~Fits(p)
    /\ \/ \E q \in Pages : NewPage(p, q, [m_next EXCEPT ![FirstBlock(q)] = Zero])
       \/ NoNewPage(p)

\* try_inplace_allocate_impl
SinglePutStep(p) ==
    \/ LoadTail(p) \/ NullTerminate(p) \/ StoreControl(p, "fill") \/ Fill(p) \/ GiveUp(p)
    \/ SingleOverflow(p) \/ LinkNextPage(p) \/ SetInitialPage(p)

SinglePutNext(p) ==
    StartSinglePut(p) \/ SinglePutStep(p) \/ CommitPut(p) \/ CancelPut(p)
==========================================================================
