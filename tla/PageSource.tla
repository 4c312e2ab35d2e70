---------------------------- MODULE PageSource ----------------------------
(***************************************************************************)
(* What the system page manager promises the page allocator above it:      *)
(* pages it has never given before.  It does not take pages back.          *)
(***************************************************************************)
EXTENDS Naturals

CONSTANT Pages

VARIABLE given      \* how many times each page has been given

Init == given = [p \in Pages |-> 0]

Give(p) ==
    /\ given[p] = 0
    /\ given' = [given EXCEPT ![p] = @ + 1]

Next == \E p \in Pages : Give(p)

Spec == Init /\ [][Next]_given
==========================================================================
