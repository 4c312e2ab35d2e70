--------------------- MODULE MC_QueueRelaxedProgress ---------------------
(* Two producers and a consumer, directed by a state constraint: p2 stops  *)
(* between linking a page and moving the tail, the consumer leaves the old *)
(* page, and p1 puts alone.                                                *)
EXTENDS LfQueueRelaxed

CONSTANTS p1, p2, c1

SpecP1 == Spec /\ ProducerGoesOn(p1)

\* A lock-free put ends in a finite number of the steps of its own thread if
\* the other threads are suspended (progress_guarantee in density_common.h).
PutEnds == Allocates(p1) ~> ~Allocates(p1)

Directed ==
    /\ prod[p2].puts <= 1
    /\ cons[c1].mode # "empty"
    /\ prod[p2].puts = 1 => prod[p1].puts > 1 \/ (PAt(p1, "idle") /\ status[<<p1, 1>>] = "ready")
    /\ prod[p1].puts = 2 => PAt(p2, "advance_tail")
    /\ ~At(c1, "idle") => prod[p1].puts >= 1 /\ PAt(p2, "advance_tail")
==========================================================================
