------------------------- MODULE MC_QueueRelaxed --------------------------
(* Safety of the relaxed queue.  Pages, producers and consumers are        *)
(* interchangeable: no definition chooses among them.                      *)
EXTENDS LfQueueRelaxed, TLC

VARIABLE program    \* which programs this behaviour is about

Symmetry == Permutations(Pages) \cup Permutations(Producers) \cup Permutations(Consumers)

OneProducer == \A p, q \in Producers : prod[p].puts > 0 /\ prod[q].puts > 0 => p = q
OneConsumer == \A c, d \in Consumers : cons[c] # NewConsume /\ cons[d] # NewConsume => c = d
Commits == \A e \in Element : status[e] # "cancelled"
NoEmpty == \A c \in Consumers : cons[c].mode # "empty"
Simple(p) == prod[p].raws = 0 /\ prod[p].guarantee # "wait_free"

\* Bounds.  contention: two producers put one small element each for two
\* consumers.  recycling: one producer puts three elements, of which only the
\* first may be too large for a page, for two consumers.  transactions: one
\* consumer, a raw block in the first put, any element too large, the later
\* puts wait-free or not.  Puts are cancelled in the last only, empty() is
\* called in the first only.
Bounded ==
    CASE program = "contention" ->
            /\ \A p \in Producers : prod[p].puts <= 1 /\ Simple(p)
            /\ heap = {} /\ Commits
      [] program = "recycling" ->
            /\ OneProducer /\ \A p \in Producers : Simple(p)
            /\ \A i \in heap : i[2] = 1
            /\ NoEmpty /\ Commits
      [] program = "transactions" ->
            /\ OneProducer /\ OneConsumer /\ NoEmpty
            /\ \A p \in Producers :
                  /\ prod[p].raws > 0 => prod[p].puts = 1
                  /\ prod[p].guarantee = "wait_free" => prod[p].puts > 1

SpecBounded ==
    /\ Init /\ program \in {"contention", "recycling", "transactions"}
    /\ [][Next /\ UNCHANGED program]_<<vars, program>>
==========================================================================
