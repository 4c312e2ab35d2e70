------------------------ MODULE LfQueueTailSeqCst ------------------------
(***************************************************************************)
(* The put layer for many producers with consistency_sequential            *)
(* (detail/lf_queue_tail_multiple_seq_cst.h).  A reservation is first left *)
(* in progress in m_tail (m_rest is its size) until the control word is    *)
(* written; any producer that meets it completes it, so that the queue is  *)
(* never truncated.                                                        *)
(***************************************************************************)
EXTENDS LfQueueTailMultiple

CONSTANTS
    MaxUnits,           \* s_alloc_granularity - 1: what m_rest can hold
    SpuriousFailures    \* whether a weak CAS may fail with the value expected

ASSUME SeqCstAssumption ==
    /\ ~ZeroedPages
    /\ MaxUnits \in Nat \ {0}
    /\ MaxInPage = IF MaxUnits < EndSlot THEN MaxUnits ELSE EndSlot - 1
    /\ SpuriousFailures \in BOOLEAN

---------------------------------------------------------------------------
(* try_inplace_allocate_impl *)

WaitFree(p) == prod[p].guarantee = "wait_free"
InProgress(p) == prod[p].rest # 0

\* The weak CAS that leaves the reservation in progress in m_tail.
Reserve(p) ==
    /\ PAt(p, "try") /\ ~InProgress(p) /\ Fits(p)
    /\ \/ /\ TailIs(prod[p].tail, 0)
          /\ m_rest' = prod[p].size
          /\ PGoto(p, "store")
       \/ /\ ~TailIs(prod[p].tail, 0) \/ SpuriousFailures
          /\ ~WaitFree(p)
          /\ Retry(p, m_tail, m_rest)
          /\ UNCHANGED m_rest
       \/ /\ WaitFree(p)
          /\ PGoto(p, "give_up")
          /\ UNCHANGED m_rest
    /\ UNCHANGED <<baseVars, m_tail>>

StoreBlock(p) ==
    /\ PAt(p, "store")
    /\ LET b == prod[p].tail
           n == NextWord(ReservedEnd(p), prod[p].flags)
       IN /\ m_next' = [m_next EXCEPT ![b] = n]
          /\ IF "busy" \in n.flags
             THEN /\ status' = [status EXCEPT ![Current(p)] = "putting"]
                  /\ prod' = [prod EXCEPT ![p].pc = "settle", ![p].control = b, ![p].next = n]
             ELSE PGoto(p, "settle") /\ UNCHANGED status
    /\ UNCHANGED <<content, pool, pinners, heap, m_initial_page, m_tail, m_rest>>

\* Mutant: m_tail is stored, though it may have moved on.
SettleStore(p) ==
    /\ PAt(p, "settle")
    /\ m_tail' = NewTail(prod[p].tail, prod[p].size) /\ m_rest' = 0
    /\ PGoto(p, "fill")
    /\ UNCHANGED baseVars

\* The strong CAS that ends the reservation, unless it has been helped.
Settle(p) ==
    /\ PAt(p, "settle")
    /\ IF TailIs(prod[p].tail, prod[p].size)
       THEN m_tail' = NewTail(m_tail, m_rest) /\ m_rest' = 0
       ELSE UNCHANGED <<m_tail, m_rest>>
    /\ PGoto(p, "fill")
    /\ UNCHANGED baseVars

---------------------------------------------------------------------------
(* Helping a reservation in progress *)

Helps(p) == PAt(p, "try") /\ InProgress(p) /\ ~WaitFree(p)

\* scoped_pin.pin: if the page is not the one it has, pin it, unpin the other.
PinHelped(p) ==
    /\ Helps(p)
    /\ prod[p].helped # PageOf(prod[p].tail)
    /\ Pin(<<p, "scoped_pin">>, PageOf(prod[p].tail))
    /\ IF prod[p].helped = NoPage
       THEN prod' = [prod EXCEPT ![p].pc = "help_recheck", ![p].helped = PageOf(prod[p].tail)]
       ELSE PGoto(p, "unpin_helped")
    /\ UNCHANGED <<m_next, content, pool, heap, m_initial_page, status, m_tail, m_rest>>

UnpinHelped(p) ==
    /\ PAt(p, "unpin_helped")
    /\ Unpin(<<p, "scoped_pin">>, prod[p].helped)
    /\ prod' = [prod EXCEPT ![p].pc = "help_recheck", ![p].helped = PageOf(prod[p].tail)]
    /\ UNCHANGED <<m_next, content, pool, heap, m_initial_page, status, m_tail, m_rest>>

RecheckHelped(p) ==
    /\ PAt(p, "help_recheck")
    /\ IF TailIs(prod[p].tail, prod[p].rest)
       THEN PGoto(p, "help_store")
       ELSE Retry(p, m_tail, m_rest)
    /\ UNCHANGED <<baseVars, m_tail, m_rest>>

\* Mutant: the control word is left to the producer that is late.
HelpStoreNothing(p) ==
    /\ \/ PAt(p, "help_store")
       \/ Helps(p) /\ prod[p].helped = PageOf(prod[p].tail)
    /\ PGoto(p, "help_tail")
    /\ UNCHANGED <<baseVars, m_tail, m_rest>>

\* The weak CAS on the control word, whose result is not used.
HelpStore(p) ==
    /\ \/ PAt(p, "help_store")
       \/ Helps(p) /\ prod[p].helped = PageOf(prod[p].tail)
    /\ LET b == prod[p].tail
       IN \/ /\ m_next' = IF m_next[b] = Zero
                          THEN [m_next EXCEPT ![b] =
                                  NextWord(NewTail(b, prod[p].rest), {"busy"})]
                          ELSE m_next
          \/ SpuriousFailures /\ UNCHANGED m_next
    /\ PGoto(p, "help_tail")
    /\ UNCHANGED <<content, pool, pinners, heap, m_initial_page, status, m_tail, m_rest>>

\* The weak CAS on m_tail.
HelpTail(p) ==
    /\ PAt(p, "help_tail")
    /\ \/ /\ TailIs(prod[p].tail, prod[p].rest)
          /\ m_tail' = NewTail(m_tail, m_rest) /\ m_rest' = 0
       \/ /\ ~TailIs(prod[p].tail, prod[p].rest) \/ SpuriousFailures
          /\ UNCHANGED <<m_tail, m_rest>>
    /\ Retry(p, m_tail', m_rest')
    /\ UNCHANGED baseVars

\* The destructor of scoped_pin, when the allocation returns.
UnpinScoped(p) ==
    /\ prod[p].pc \in {"fill", "give_up"} /\ prod[p].helped # NoPage
    /\ Unpin(<<p, "scoped_pin">>, prod[p].helped)
    /\ prod' = [prod EXCEPT ![p].helped = NoPage]
    /\ UNCHANGED <<m_next, content, pool, heap, m_initial_page, status, m_tail, m_rest>>

---------------------------------------------------------------------------
(* page_overflow *)

\* Pinning is not wait-free: a wait-free put neither helps nor overflows.
TooSlow(p) ==
    /\ PAt(p, "try") /\ WaitFree(p)
    /\ InProgress(p) \/ ~Fits(p)
    /\ PGoto(p, "give_up")
    /\ UNCHANGED <<baseVars, m_tail, m_rest>>

PadUnits(b) == IF EndSlot - b[2] < MaxUnits THEN EndSlot - b[2] ELSE MaxUnits

\* The rest of the page, or as much of it as m_rest can hold, becomes a dead
\* block.
Pad(p) ==
    /\ PAt(p, "try") /\ ~InProgress(p) /\ ~WaitFree(p) /\ ~Fits(p) /\ ~AtEnd(p)
    /\ IF TailIs(prod[p].tail, 0)
       THEN /\ m_rest' = PadUnits(m_tail)
            /\ prod' = [prod EXCEPT ![p].pc = "store_pad", ![p].rest = PadUnits(m_tail)]
       ELSE Retry(p, m_tail, m_rest) /\ UNCHANGED m_rest
    /\ UNCHANGED <<baseVars, m_tail>>

StorePad(p) ==
    /\ PAt(p, "store_pad")
    /\ m_next' = [m_next EXCEPT ![prod[p].tail] = NextWord(ReservedEnd(p), {"dead"})]
    /\ PGoto(p, "settle_pad")
    /\ UNCHANGED <<content, pool, pinners, heap, m_initial_page, status, m_tail, m_rest>>

SettlePad(p) ==
    /\ PAt(p, "settle_pad")
    /\ IF TailIs(prod[p].tail, prod[p].rest)
       THEN m_tail' = NewTail(m_tail, m_rest) /\ m_rest' = 0
       ELSE UNCHANGED <<m_tail, m_rest>>
    /\ Retry(p, m_tail', m_rest')
    /\ UNCHANGED baseVars

---------------------------------------------------------------------------

\* A wait-free put never gets to create a page.
ProducerStep(p) ==
    \/ LoadTail(p) \/ Reserve(p) \/ StoreBlock(p) \/ Settle(p) \/ Fill(p) \/ GiveUp(p)
    \/ PinHelped(p) \/ UnpinHelped(p) \/ RecheckHelped(p) \/ HelpStore(p) \/ HelpTail(p)
    \/ UnpinScoped(p)
    \/ TooSlow(p) \/ Pad(p) \/ StorePad(p) \/ SettlePad(p)
    \/ ~(PAt(p, "try") /\ WaitFree(p)) /\ NextPage(p)
    \/ InitialPage(p)

ProducerNext(p) == TransactionStep(p) \/ ProducerStep(p)
==========================================================================
