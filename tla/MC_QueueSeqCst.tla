-------------------------- MODULE MC_QueueSeqCst --------------------------
(* Safety of the sequentially consistent queue.                            *)
EXTENDS LfQueueSeqCst, FiniteSetsExt, TLC

VARIABLE program    \* which programs this behaviour is about

Symmetry == Permutations(Pages) \cup Permutations(Producers) \cup Permutations(Consumers)

TotalPuts == FoldSet(LAMBDA p, n : prod[p].puts + n, 0, Producers)
OneConsumer == \A c, d \in Consumers : cons[c] # NewConsume /\ cons[d] # NewConsume => c = d
Once == \A p \in Producers : prod[p].puts <= 1
Commits == \A e \in Element : status[e] # "cancelled"
NoEmpty == \A c \in Consumers : cons[c].mode # "empty"
Puts(sizes) == \A p \in Producers : prod[p].size \in {0} \cup sizes /\ prod[p].guarantee # "wait_free"

\* Bounds, for two producers.  contention: two small elements, two consumers
\* that do not call empty().
\* helping: three elements, which come back to a page, and one consumer.
\* padding: two elements that leave a part of the page or are too large for
\* it, wait-free or not and maybe cancelled, and one consumer.
Bounded ==
    CASE program = "contention" -> Once /\ Puts({1}) /\ Commits /\ NoEmpty
      [] program = "helping" -> TotalPuts <= 3 /\ Puts({2}) /\ Commits /\ OneConsumer
      [] program = "padding" ->
            OneConsumer /\ Once /\ \A p \in Producers : prod[p].size # 1

\* The programs where one consumer gets every element: with two,
\* NoSpuriousEmpty fails.
NoSpuriousEmptyForOne == program # "contention" => NoSpuriousEmpty

SpecBounded ==
    /\ Init /\ program \in {"contention", "helping", "padding"}
    /\ [][Next /\ UNCHANGED program]_<<vars, program>>
==========================================================================
