--------------------------- MODULE MC_HeterQueue ---------------------------
(* Small instances of HeterQueue. *)
EXTENDS HeterQueue, TLC

Symmetry == Permutations(Queues) \cup Permutations(PlainPuts) \cup Permutations(PlainConsumes)
            \cup Permutations(ReentrantPuts) \cup Permutations(ReentrantConsumes)

\* Bounds: the objects in use at a time; them and the items in memory, the
\* external ones counted twice.  An iterator an operation invalidates is not
\* followed further.
CONSTANTS MaxInUse, MaxInAll
InUse == {t \in Puts : PutBound(t)} \cup {o \in Consumes : OpBound(o)}
         \cup {i \in Iterators : iter[i] # NoIter}
Bounded ==
    /\ Cardinality(InUse) <= MaxInUse
    /\ \A i \in Iterators : iter[i] = NoIter \/ IsAt(i)
    /\ Cardinality(InUse) + Cardinality(UsedItems(mem)) + Cardinality(mem.heap) <= MaxInAll

===========================================================================
