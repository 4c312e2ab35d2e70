------------------------- MODULE LfQueueRelaxed --------------------------
(***************************************************************************)
(* lf_heter_queue with many producers, many consumers and                  *)
(* consistency_relaxed: the relaxed put layer and the multiple-consumer    *)
(* layer over the same memory.                                             *)
(***************************************************************************)
EXTENDS LfQueueChain, LfQueueTailRelaxed

Next ==
    \/ \E c \in Consumers : ConsumerNext(c) /\ UNCHANGED tailVars
    \/ \E p \in Producers : ProducerNext(p) /\ UNCHANGED headVars

Spec == Init /\ [][Next]_vars

\* One thread goes on while any other may stop for ever.
ProducerGoesOn(p) == WF_vars(ProducerStep(p) /\ UNCHANGED headVars)
ConsumerGoesOn(c) == WF_vars(ConsumerStep(c) /\ UNCHANGED tailVars)

\* Every call that has been entered goes on, every element taken is consumed,
\* every put transaction is committed or cancelled; consumer c polls for ever.
PolledBy(c) ==
    /\ \A p \in Producers :
          /\ ProducerGoesOn(p)
          /\ WF_vars((CommitPut(p) \/ CancelPut(p)) /\ UNCHANGED headVars)
    /\ \A d \in Consumers :
          /\ ConsumerGoesOn(d)
          /\ WF_vars((CommitConsume(d) \/ CancelConsume(d)) /\ UNCHANGED tailVars)
    /\ SF_vars(Start(c, "consume") /\ UNCHANGED tailVars)

\* A producer that has moved the tail past a block finds it zeroed, as
\* try_inplace_allocate_impl asserts: a recycled page is as good as a new one.
ReservedIsZero ==
    \A p \in Producers :
        /\ prod[p].pc \in {"store", "store_pad"} => m_next[prod[p].tail] = Zero
        /\ PAt(p, "store") => content[prod[p].tail] = NoItem
==========================================================================
