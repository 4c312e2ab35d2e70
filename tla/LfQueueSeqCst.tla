-------------------------- MODULE LfQueueSeqCst --------------------------
(***************************************************************************)
(* lf_heter_queue with many producers, many consumers and                  *)
(* consistency_sequential: the helping put layer and the multiple-consumer *)
(* layer over the same memory.                                             *)
(***************************************************************************)
EXTENDS LfQueueChain, LfQueueTailSeqCst

Next ==
    \/ \E c \in Consumers : ConsumerNext(c) /\ UNCHANGED tailVars
    \/ \E p \in Producers : ProducerNext(p) /\ UNCHANGED headVars

Spec == Init /\ [][Next]_vars

\* A producer with a reservation in progress finds its block zeroed, or as
\* a producer that helped it has left it.
ReservedOrHelped ==
    \A p \in Producers :
        prod[p].pc \in {"store", "store_pad"} =>
            m_next[prod[p].tail] \in {Zero, NextWord(ReservedEnd(p), {"busy"})}

\* The queue is never truncated: the tail does not move past a block before
\* its control word is written.
NotTruncated ==
    \A b \in Chain : IsEnd(m_next[b]) => b = m_tail \/ After(b) = NoBlock
==========================================================================
