--------------------------- MODULE ElementQueues ---------------------------
(***************************************************************************)
(* What heter_queue and conc_heter_queue promise of the contents of their  *)
(* queues: elements in the order of the puts, pending until their put is   *)
(* committed, then ready, and taken while an operation consumes them.      *)
(***************************************************************************)
EXTENDS Integers, Sequences, SequencesExt

CONSTANTS Queues, Values

VARIABLE contents   \* contents[q]: the elements of q, in order

Ready == [state : {"ready"}, value : Values]
Pending == [state |-> "pending", value |-> 0]
IsReady(e) == e.state = "ready"
IsFirstReady(s, k) == IsReady(s[k]) /\ \A j \in 1 .. k - 1 : ~IsReady(s[j])

(* How the elements of a queue, the sequence s, become t. *)

Put(s, t) == t # <<>> /\ Front(t) = s /\ Last(t) \in Ready \cup {Pending}

CommitPut(s, t) == \E k \in DOMAIN s \cap DOMAIN t :
    s[k] = Pending /\ t[k] \in Ready /\ t = [s EXCEPT ![k] = t[k]]

CancelPut(s, t) == \E k \in DOMAIN s : s[k] = Pending /\ t = RemoveAt(s, k)

StartConsume(s, t) == \E k \in DOMAIN s :
    IsFirstReady(s, k) /\ t = [s EXCEPT ![k].state = "taken"]

GiveBack(s, t) == \E k \in DOMAIN s :
    s[k].state = "taken" /\ t = [s EXCEPT ![k].state = "ready"]

\* An operation in progress is canceled, then takes the first element.
Restart(s, t) == \E k \in DOMAIN s :
    s[k].state = "taken" /\ StartConsume([s EXCEPT ![k].state = "ready"], t)

CommitConsume(s, t) == \E k \in DOMAIN s : s[k].state = "taken" /\ t = RemoveAt(s, k)

Pop(s, t) == \E k \in DOMAIN s : IsFirstReady(s, k) /\ t = RemoveAt(s, k)

Clear(s, t) == t = SelectSeq(s, LAMBDA e : ~IsReady(e))

InQueue(s, t) ==
    \/ Put(s, t) \/ CommitPut(s, t) \/ CancelPut(s, t)
    \/ StartConsume(s, t) \/ GiveBack(s, t) \/ Restart(s, t)
    \/ CommitConsume(s, t) \/ Pop(s, t) \/ Clear(s, t)

(* Two queues. *)

RestartIn(before, after, q, r) ==
    GiveBack(before[q], after[q]) /\ StartConsume(before[r], after[r])
Swap(before, after, q, r) == after[q] = before[r] /\ after[r] = before[q]
Move(before, after, q, r) == after[q] = before[r] /\ after[r] = <<>>
Copy(before, after, q, r) ==
    after[q] = SelectSeq(before[r], IsReady) /\ after[r] = before[r]

Step(before, after) ==
    \E q, r \in Queues :
      /\ \A x \in Queues \ {q, r} : after[x] = before[x]
      /\ \/ q = r /\ InQueue(before[q], after[q])
         \/ q # r /\ \/ RestartIn(before, after, q, r)
                     \/ Swap(before, after, q, r)
                     \/ Move(before, after, q, r)
                     \/ Copy(before, after, q, r)

Init == contents = [q \in Queues |-> <<>>]

Next == \E before \in {contents}, after \in {contents'} : Step(before, after)

Spec == Init /\ [][Next]_contents

===========================================================================
