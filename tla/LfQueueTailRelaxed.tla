----------------------- MODULE LfQueueTailRelaxed ------------------------
(***************************************************************************)
(* The put layer for many producers with consistency_relaxed               *)
(* (detail/lf_queue_tail_multiple_relaxed.h).  A producer reserves space   *)
(* by moving m_tail, and only then writes the control word: until it does, *)
(* the queue is truncated there.                                           *)
(***************************************************************************)
EXTENDS LfQueueTailMultiple

ASSUME RelaxedAssumption == ZeroedPages /\ MaxInPage = EndSlot

---------------------------------------------------------------------------
(* try_inplace_allocate_impl *)

\* The CAS on m_tail.  It is a weak one: a wait-free put does not retry.
Reserve(p) ==
    /\ PAt(p, "try") /\ Fits(p)
    /\ \/ /\ TailIs(prod[p].tail, 0)
          /\ m_tail' = NewTail(m_tail, prod[p].size)
          /\ PGoto(p, "store")
       \/ /\ ~TailIs(prod[p].tail, 0)
          /\ prod[p].guarantee # "wait_free"
          /\ Retry(p, m_tail, 0)
          /\ UNCHANGED m_tail
       \/ /\ prod[p].guarantee = "wait_free"
          /\ PGoto(p, "give_up")
          /\ UNCHANGED m_tail
    /\ UNCHANGED <<baseVars, m_rest>>

\* The control word of the new block.  Only the element has the busy flag.
StoreBlock(p) ==
    /\ PAt(p, "store")
    /\ LET b == prod[p].tail
           n == NextWord(ReservedEnd(p), prod[p].flags)
       IN /\ m_next' = [m_next EXCEPT ![b] = n]
          /\ IF "busy" \in n.flags
             THEN /\ status' = [status EXCEPT ![Current(p)] = "putting"]
                  /\ prod' = [prod EXCEPT ![p].pc = "fill", ![p].control = b, ![p].next = n]
             ELSE PGoto(p, "fill") /\ UNCHANGED status
    /\ UNCHANGED <<content, pool, pinners, heap, m_initial_page, m_tail, m_rest>>

---------------------------------------------------------------------------
(* page_overflow *)

\* The rest of the page becomes a dead block.
Pad(p) ==
    /\ PAt(p, "try") /\ ~Fits(p) /\ ~AtEnd(p)
    /\ IF TailIs(prod[p].tail, 0)
       THEN /\ m_tail' = EndBlock(m_tail)
            /\ prod' = [prod EXCEPT ![p].pc = "store_pad", ![p].rest = EndSlot - m_tail[2]]
       ELSE Retry(p, m_tail, 0) /\ UNCHANGED m_tail
    /\ UNCHANGED <<baseVars, m_rest>>

StorePad(p) ==
    /\ PAt(p, "store_pad")
    /\ m_next' = [m_next EXCEPT ![prod[p].tail] = NextWord(ReservedEnd(p), {"dead"})]
    /\ Retry(p, ReservedEnd(p), 0)
    /\ UNCHANGED <<content, pool, pinners, heap, m_initial_page, status, m_tail, m_rest>>

---------------------------------------------------------------------------

\* try_inplace_allocate_impl and page_overflow
ProducerStep(p) ==
    \/ LoadTail(p) \/ Reserve(p) \/ StoreBlock(p) \/ Fill(p) \/ GiveUp(p)
    \/ Pad(p) \/ StorePad(p)
    \/ NextPage(p) \/ InitialPage(p)

ProducerNext(p) == TransactionStep(p) \/ ProducerStep(p)
==========================================================================
