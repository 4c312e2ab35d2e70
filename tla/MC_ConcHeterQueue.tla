------------------------- MODULE MC_ConcHeterQueue -------------------------
(* Small instances of ConcHeterQueue. *)
EXTENDS ConcHeterQueue, TLC

Symmetry == Permutations(Queues) \cup Permutations(PlainPuts) \cup Permutations(PlainConsumes)
            \cup Permutations(ReentrantPuts) \cup Permutations(ReentrantConsumes)

\* Bounds: the objects in use at a time; them and the items in memory.
CONSTANTS MaxInUse, MaxInAll
InUse == {t \in Puts : PutBound(t)} \cup {o \in Consumes : OpBound(o) \/ ~IsIdle(o)}
Bounded ==
    /\ Cardinality(InUse) <= MaxInUse
    /\ Cardinality(InUse) + Cardinality(UsedItems(mem)) <= MaxInAll

===========================================================================
