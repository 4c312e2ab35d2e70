------------------------ MODULE PageAllocatorLists -----------------------
(***************************************************************************)
(* The lists of the page allocator: the stacks of the slots, the private   *)
(* stacks and the stacks on the move, none of which has a page of another, *)
(* and the pages that threads have still to unpin.  With what each call    *)
(* relies on, the inductive invariant behind the properties.               *)
(***************************************************************************)
EXTENDS PageAllocator

---------------------------------------------------------------------------
(* Linked lists *)

\* The pages S are linked by nx from h on, up to last or, without last, to the
\* null pointer: rank numbers them in that order.
RankedList(rank, end, nx, S, h, last) ==
    /\ S \subseteq Pages /\ h \in S /\ end \in S
    /\ IF last = NoPage THEN nx[end] = NoPage ELSE end = last
    /\ \A p \in S : rank[h] <= rank[p] /\ rank[p] <= rank[end]
    /\ \A p, q \in S : rank[p] = rank[q] => p = q
    /\ \A p \in S \ {end} :
          /\ nx[p] \in S /\ rank[p] < rank[nx[p]]
          /\ \A q \in S : rank[p] < rank[q] => rank[nx[p]] <= rank[q]
IsList(nx, S, h, last) ==
    IF h = NoPage THEN S = {} /\ last = NoPage
    ELSE \E rank \in [Pages -> Nat], end \in Pages : RankedList(rank, end, nx, S, h, last)

---------------------------------------------------------------------------
(* Where the free pages are *)

\* The stacks of the slots, the private stacks, and for each thread the stack
\* it has taken or is about to push.
InSlot(s, k) == <<"slot", s, k>>
Private(t, k) == <<"private", t, k>>
Moved(t) == <<"moved", t>>
Places == {InSlot(s, k) : s \in Slots, k \in Kinds} \cup {Private(t, k) : t \in Threads, k \in Kinds}
          \cup {Moved(t) : t \in Threads}

\* While a private stack is searched, its pages count as moved.
Searches(c, k) == c.at = "scan" /\ c.stack = "private" /\ c.kind = k

\* Where the stacks begin and end, and the kind of their pages, by the stacks fi
\* of the slots, and what the threads keep, lo, and are doing, ca.
HeadsOf(fi, lo, ca) ==
    [x \in Places |->
        CASE x[1] = "slot" -> IF fi[x[2]][x[3]] = Marker THEN NoPage ELSE fi[x[2]][x[3]]
          [] x[1] = "private" -> IF Searches(ca[x[2]], x[3]) THEN NoPage ELSE lo[x[2]].private[x[3]]
          [] OTHER -> ca[x[2]].list]
LastsOf(ca) == [x \in Places |-> IF x[1] = "moved" THEN ca[x[2]].last ELSE NoPage]
KindsOf(ca) == [x \in Places |-> IF x[1] = "moved" THEN ca[x[2]].kind ELSE x[3]]

\* P has the pages of each stack: no page is in two of them.
AreStacks(nx, H, L, P) ==
    /\ \A x \in Places : IsList(nx, P[x], H[x], L[x])
    /\ \A x, y \in Places : x # y => P[x] \cap P[y] = {}
ListsOK(P) == AreStacks(next, HeadsOf(first, local, call), LastsOf(call), P)

---------------------------------------------------------------------------
(* Whose the other pages are *)

Pins(t) == call[t].op \in {"pin", "unpin"}
TakenBy(t) == IF call[t].op = "allocate" THEN call[t].page ELSE NoPage

\* A page is free, or in the hands of a client, or found by one allocation.
OwnersOK(P) ==
    /\ \A p \in held : given[p] > 0 /\ \A x \in Places : p \notin P[x]
    /\ \A x \in Places : \A p \in P[x] : given[p] > 0
    /\ \A t \in Threads : TakenBy(t) # NoPage =>
          /\ given[TakenBy(t)] > 0 /\ TakenBy(t) \notin held
          /\ \A x \in Places : TakenBy(t) \notin P[x]
          /\ \A u \in Threads : u # t => TakenBy(u) # TakenBy(t)

---------------------------------------------------------------------------
(* Pins *)

Draining(c) == c.at \in {"drain", "drain_cas", "drain_next"}
OwedFrom(t) ==
    CASE At(t, "drain") \/ At(t, "drain_cas") -> call[t].curr
      [] At(t, "drain_next") -> next[call[t].curr]
      [] OTHER -> local[t].pending

\* The pages D that a thread has in its list, and those, O, not yet unpinned.
PendingOK(D, O) ==
    \A t \in Threads :
        /\ IsList(next, D[t], local[t].pending, NoPage)
        /\ IsList(next, O[t], OwedFrom(t), NoPage)
        /\ O[t] \subseteq D[t] /\ D[t] \subseteq held
        /\ Draining(call[t]) => call[t].curr \in D[t]
        /\ usage = "early_free" => local[t].pending = NoPage

\* A page that a thread has pinned, pins or unpins.
PinsOK ==
    \A t \in Threads :
        /\ pinned[t] # NoPage => given[pinned[t]] > 0
        /\ Pins(t) => call[t].page \in Pages /\ given[call[t].page] > 0
        /\ call[t].op = "pin" => pinned[t] = NoPage
        /\ call[t].op = "unpin" => pinned[t] = call[t].page /\ MayUnpin(call[t].guarantee)
        /\ call[t].op \in {"out", "construct", "exit"} => pinned[t] = NoPage

\* In exclusive use it has one such thread, and a client has it.
Uses(t, p) == p # NoPage /\ (pinned[t] = p \/ (Pins(t) /\ call[t].page = p))
ExclusiveOK(D) ==
    usage = "exclusive" =>
    \A t \in Threads : \A p \in Pages : Uses(t, p) =>
        /\ p \in held
        /\ \A u \in Threads : p \notin D[u] /\ (Uses(u, p) => u = t)
DisjointPending(D) == \A t, u \in Threads : t # u => D[t] \cap D[u] = {}

CountsOK(O) ==
    \A p \in Pages : pins[p] = Cardinality({t \in Threads : pinned[t] = p})
                                 + Cardinality({t \in Threads : p \in O[t]})

---------------------------------------------------------------------------
(* What a call relies on *)

Ops == {"none", "out", "construct", "allocate", "free", "pin", "unpin", "reserve", "exit"}
AllocateStages == {"scan", "exchange", "restore", "steal", "steal_cas", "system"}
Stages == {"idle", "assign", "drain", "drain_cas", "drain_next", "add", "count", "count_cas",
           "push", "push_cas"} \cup AllocateStages
Seen == PageOrNull \cup Nat
Call == [op : Ops, at : Stages,
         kind : Kinds, guarantee : {"none", "blocking", "lock_free", "wait_free"},
         page : PageOrNull, list : PageOrNull, last : PageOrNull, curr : PageOrNull,
         prev : PageOrNull, seen : Seen, count : Nat,
         stack : {"private", "current", "stolen"}, round : {"first", "loop", "last"},
         discard : BOOLEAN, from : Slots, start : Slots]
Local == [slot : Slots, victim : Slots, private : [Kinds -> PageOrNull], pending : PageOrNull]

Typed ==
    /\ first \in [Slots -> [Kinds -> PageOrNull \cup {Marker}]]
    /\ next \in [Pages -> PageOrNull] /\ pins \in [Pages -> Nat] /\ m_last_assigned \in Slots
    /\ local \in [Threads -> Local] /\ call \in [Threads -> Call]
    /\ given \in [Pages -> Nat] /\ held \subseteq Pages /\ pinned \in [Threads -> PageOrNull]
    /\ usage \in {"early_free", "exclusive"}

\* The points of each operation.
StageOK(c) ==
    /\ c.at = "idle" <=> c.op \in {"none", "out"}
    /\ c.at = "assign" <=> c.op = "construct"
    /\ c.at \in {"add", "count", "count_cas"} => c.op \in {"pin", "unpin"}
    /\ c.at \in AllocateStages => c.op = "allocate"
    /\ c.at \in {"push", "push_cas"} => c.op \in {"allocate", "free", "exit"} /\ c.list # NoPage
    /\ c.at \in {"count", "count_cas"} => c.guarantee = "wait_free"
    /\ c.at = "drain_cas" => ~UnpinsAll(c)

\* The stack that a call has taken, and the page it has found.
StackOK(nx, c) ==
    /\ c.op = "free" => c.list # NoPage /\ c.last = c.list
    /\ c.op # "free" =>
          /\ c.list # NoPage => c.at \in {"scan", "restore", "push", "push_cas"}
          /\ c.last # NoPage => c.at = "push_cas"
    /\ c.page # NoPage =>
          \/ c.op \in {"pin", "unpin"}
          \/ c.op = "allocate" /\ c.at \in {"restore", "push", "push_cas"}
    /\ c.prev # NoPage => c.at = "scan"
    /\ c.at = "steal_cas" => c.seen \in Pages
    /\ c.at = "push_cas" => c.last # NoPage /\ c.seen = nx[c.last]

\* The search of the pages S of a stack.
ScanOK(nx, c, l, S) ==
    c.at = "scan" =>
        /\ c.curr \in S
        /\ IF c.prev = NoPage THEN c.curr = c.list ELSE c.prev \in S /\ nx[c.prev] = c.curr
        /\ c.stack = "private" => c.list = l.private[c.kind]

\* A call that may block unpins all that is pending; a thread that has ended, or
\* not begun, has nothing.
DrainOK(c, l) ==
    /\ c.count # 0 => ~UnpinsAll(c) /\ Draining(c)
    /\ c.op = "exit" => c.guarantee = "blocking"
    /\ c.op = "exit" /\ ~Draining(c) => l.pending = NoPage
    /\ c.op \in {"out", "construct"} =>
          l.pending = NoPage /\ l.private = [k \in Kinds |-> NoPage]

CallOK(nx, c, l, S) == StageOK(c) /\ StackOK(nx, c) /\ ScanOK(nx, c, l, S) /\ DrainOK(c, l)
CallsOK(P) == \A t \in Threads : CallOK(next, call[t], local[t], P[Moved(t)])

\* A stack is locked by one thread.
Locks(c, l, s, k) ==
    /\ c.at = "restore" \/ (c.at = "scan" /\ c.stack = "current")
    /\ l.slot = s /\ c.kind = k
LocksOK ==
    \A s \in Slots, k \in Kinds : \A t \in Threads : Locks(call[t], local[t], s, k) =>
        first[s][k] = Marker /\ \A u \in Threads : Locks(call[u], local[u], s, k) => u = t

---------------------------------------------------------------------------

Good(P, D, O) ==
    /\ ListsOK(P) /\ OwnersOK(P) /\ CallsOK(P) /\ LocksOK
    /\ PendingOK(D, O) /\ DisjointPending(D) /\ PinsOK /\ ExclusiveOK(D) /\ CountsOK(O)

Stacks == [x \in Places |-> Chain(HeadsOf(first, local, call)[x], LastsOf(call)[x])]
PendingPages == [t \in Threads |-> Chain(local[t].pending, NoPage)]
OwedPages == [t \in Threads |-> Owed(t)]

\* The inductive invariant.
IInv == Typed /\ Good(Stacks, PendingPages, OwedPages)
==========================================================================
