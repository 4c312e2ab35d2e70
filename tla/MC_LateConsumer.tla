------------------------- MODULE MC_LateConsumer --------------------------
(* One producer and three consumers, directed by a state constraint: c1    *)
(* has read the word that leads to the next page, c2 has moved the head    *)
(* there and has not zeroed that word yet, c3 consumes that page, which    *)
(* comes back as the last one; then c1 goes on.                            *)
EXTENDS LfQueueSingle

CONSTANTS p1, c1, c2, c3

HasPut(k) == status[<<p1, k>>] \notin {"none", "putting"}

\* c1 is about to enter the page that the word it has read names.
AtBorder == At(c1, "move") /\ ~SamePage(cons[c1].control, cons[c1].next.to)

\* c2 has left the page of that word.
HeadMoved == At(c2, "zero") /\ cons[c2].control = cons[c1].control

\* Bound: who may have started, and how many puts there may be, when.
Directed ==
    /\ \A c \in Consumers : cons[c].mode # "empty"
    /\ \A e \in Element : status[e] # "cancelled"
    /\ cons[c2] # NewConsume => HasPut(3)
    /\ cons[c1] # NewConsume => At(c2, "consuming") \/ cons[c2].mode = "clean"
    /\ cons[c3] # NewConsume => HasPut(4) \/ (AtBorder /\ HeadMoved)
    /\ prod[p1].puts = 4 => HasPut(4) \/ (AtBorder /\ At(c2, "zero"))
==========================================================================
