------------------------- MODULE MC_LfQueueSingle -------------------------
(* Safety of the queues with a single or a spin-locking side.  Pages,      *)
(* producers and consumers are interchangeable.                            *)
EXTENDS LfQueueSingle, FiniteSetsExt, TLC

Symmetry == Permutations(Pages) \cup Permutations(Producers) \cup Permutations(Consumers)

TotalPuts == FoldSet(LAMBDA p, n : prod[p].puts + n, 0, Producers)
Active(c) == cons[c].pc # "idle" \/ cons[c].control # NoBlock
TwoPut == \A p \in Producers : prod[p].puts > 0
TwoConsume == \A c \in Consumers : Active(c)

\* Bounds: two producers of one put and one consumer; or one producer of three
\* puts, which come back to a page, or of two puts and two Consume objects.
\* Only the first put may be external, have a raw block, or be there when
\* empty() is called; a put does not block only if another producer is there.
BoundedSingle ==
    /\ TwoPut => TotalPuts = 2 /\ ~TwoConsume
    /\ \A p \in Producers :
          /\ prod[p].guarantee = "lock_free" => TwoPut
          /\ prod[p].raws > 0 => TotalPuts = 1 /\ ~TwoConsume
          /\ prod[p].puts = 3 => prod[p].size \in {0, 2} /\ ~TwoConsume
    /\ \A i \in heap : TotalPuts = 1 \/ TwoPut
    /\ \A c \in Consumers : cons[c].mode = "empty" => TotalPuts <= 1 /\ ~TwoConsume

\* Bounds: two consumers, or one of a spin-locking queue, and a producer whose
\* three elements fill a page each.
BoundedMultiple ==
    /\ ~TwoPut
    /\ put = "spin" => ~TwoConsume
    /\ \A p \in Producers : prod[p].size \in {0, 2} /\ prod[p].raws = 0
    /\ \A e \in Element : status[e] # "cancelled"
    /\ \A c \in Consumers : cons[c].mode # "empty"

Bounded == IF consume = "single" THEN BoundedSingle ELSE BoundedMultiple

\* Bound: only while there is one put is an element put back,
\* by a single consumer.
Canceled == \E c \in Consumers : At(c, "consuming") /\ At(c, "idle")'
SpecBounded == QueueInit /\ [][Next /\ (Canceled => TotalPuts = 1 /\ consume = "single")]_queueVars
==========================================================================
