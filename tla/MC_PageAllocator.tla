------------------------- MODULE MC_PageAllocator -------------------------
(* Safety of the page allocator.  Pages and threads are interchangeable;   *)
(* the slots are not, because they form a ring.                            *)
EXTENDS PageAllocator, TLC

Symmetry == Permutations(Pages) \cup Permutations(Threads)

Asks(t, g) == call[t].guarantee = g /\ call[t].op \notin {"free", "exit"}
Pinning(t) == pinned[t] # NoPage \/ call[t].op = "pin"
Zeroed(t) == call[t].kind = "zeroed" \/ local[t].private["zeroed"] # NoPage
NoneZeroed ==
    /\ \A s \in Slots : first[s]["zeroed"] = NoPage
    /\ \A t \in Threads : ~Zeroed(t)
OnePage == \A p, q \in Pages : given[p] > 0 /\ given[q] > 0 => p = q

\* Bounds: while pages are given back early, calls are blocking, there is one
\* pin at a time, and no thread ends; otherwise calls are wait-free.  Zeroed
\* pages are there only while the system has given one page.
Bounded ==
    /\ usage = "early_free" =>
          /\ \A t \in Threads : call[t].op # "exit" /\ ~Asks(t, "wait_free")
          /\ \A t, u \in Threads : Pinning(t) /\ Pinning(u) => t = u
    /\ usage = "exclusive" =>
          \A t \in Threads : ~Asks(t, "blocking")
    /\ NoneZeroed \/ (OnePage /\ usage = "exclusive")
===========================================================================
