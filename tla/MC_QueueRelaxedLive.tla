----------------------- MODULE MC_QueueRelaxedLive -----------------------
(* Liveness of the relaxed queue; fairness forbids symmetry here.          *)
EXTENDS LfQueueRelaxed

CONSTANT poller     \* the consumer that polls for ever

\* A program in which nobody calls empty().  Only one consumer's thread is
\* sure to be scheduled; what else Delivered needs is its premise.
SpecScheduled ==
    /\ Init /\ [][Next /\ \A c \in Consumers : cons'[c].mode # "empty"]_vars
    /\ ConsumerGoesOn(poller)

\* A consumer whose thread is scheduled comes out of its call, wherever every
\* other thread, consumers included, has stopped.
PollerReturns == Returns(poller)

\* What is committed is consumed, if the calls of all threads go on, nobody
\* holds a transaction for ever and one consumer polls.
DeliveredIfPolled == PolledBy(poller) => Delivered
==========================================================================
