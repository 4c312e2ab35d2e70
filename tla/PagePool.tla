----------------------------- MODULE PagePool -----------------------------
(***************************************************************************)
(* What the page allocator promises the queues: pages that the system has  *)
(* never given are fresh, the others are free, in one of the two pools, or *)
(* held by a client; a page becomes held at a moment when nobody pins it.  *)
(***************************************************************************)
EXTENDS Naturals

CONSTANTS Pages, Kinds

VARIABLES fresh, free, held, pins

Init ==
    /\ fresh = Pages
    /\ free = [k \in Kinds |-> {}]
    /\ held = {}
    /\ pins = [p \in Pages |-> 0]

Take(p) ==
    /\ p \notin held
    /\ held' = held \cup {p}
    /\ UNCHANGED pins

AllocateNew(p) ==
    /\ Take(p)
    /\ p \in fresh
    /\ fresh' = fresh \ {p}
    /\ UNCHANGED free

Allocate(k, p) ==
    /\ Take(p)
    /\ pins[p] = 0
    /\ p \in free[k]
    /\ free' = [free EXCEPT ![k] = @ \ {p}]
    /\ UNCHANGED fresh

Deallocate(k, p) ==
    /\ p \in held
    /\ held' = held \ {p}
    /\ free' = [free EXCEPT ![k] = @ \cup {p}]
    /\ UNCHANGED <<fresh, pins>>

Pinned(p, n) ==
    /\ pins' = [pins EXCEPT ![p] = n]
    /\ UNCHANGED <<fresh, free, held>>

Pin(p) == p \notin fresh /\ Pinned(p, pins[p] + 1)
Unpin(p) == pins[p] > 0 /\ Pinned(p, pins[p] - 1)

Next ==
    \E p \in Pages :
        \/ AllocateNew(p) \/ Pin(p) \/ Unpin(p)
        \/ \E k \in Kinds : Allocate(k, p) \/ Deallocate(k, p)

Spec == Init /\ [][Next]_<<fresh, free, held, pins>>
===========================================================================
