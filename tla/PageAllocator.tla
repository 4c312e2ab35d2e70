--------------------------- MODULE PageAllocator --------------------------
(***************************************************************************)
(* The page allocator (detail/page_allocator.h and its stacks of pages):   *)
(* a ring of slots shared by the threads, each with a stack of pages of    *)
(* each kind, and for every thread a current slot, a victim slot to steal  *)
(* from, two private stacks and the pages it has still to unpin.           *)
(*                                                                         *)
(* All stacks are linked through the m_next_page of the pages, here next.  *)
(* A step makes one access to shared memory, and what the thread does by   *)
(* itself until the next one.                                              *)
(***************************************************************************)
EXTENDS Integers, FiniteSets

CONSTANTS
    Pages,
    NoPage,             \* the null pointer
    Marker,             \* lock_marker of a stack that is being searched
    Threads, NoThread,
    NSlots,             \* slots of the ring (8 in the code)
    Guarantees,         \* progress guarantees callers ask for
    UsedKinds,          \* kinds of page the clients use
    MaxUnpins,          \* pending unpins a wait-free call tries (16 in the code)
    Usages,             \* how the clients pin pages: see MayFree
    SpuriousFailures    \* usages with which a weak CAS fails with the value expected

Kinds == {"uninitialized", "zeroed"}

ASSUME AllocatorAssumption ==
    /\ IsFiniteSet(Pages) /\ IsFiniteSet(Threads)
    /\ NSlots \in Nat \ {0}
    /\ MaxUnpins \in Nat \ {0}
    /\ {NoPage, Marker} \cap Pages = {} /\ NoPage # Marker
    /\ Guarantees \subseteq {"blocking", "lock_free", "wait_free"}
    /\ UsedKinds \subseteq Kinds
    /\ SpuriousFailures \subseteq Usages
    /\ Usages \subseteq {"early_free", "exclusive", "any"}

VARIABLES
    first,          \* m_first of the stacks of each slot
    next,           \* m_next_page of each page
    pins,           \* m_pin_count of each page
    m_last_assigned,
    local,          \* the PageAllocator of each thread
    call,           \* the call each thread is in
    given,          \* how many times the system has given each page
    held,           \* pages the clients have
    pinned,         \* the page each client has pinned
    usage,          \* how the clients of this program pin pages
    alone           \* history: the thread in a call that no other call and no
                    \* failed weak CAS has disturbed

memory == <<first, next, pins>>
vars == <<first, next, pins, m_last_assigned, local, call, given, held, pinned, usage,
          alone>>

Source == INSTANCE PageSource

---------------------------------------------------------------------------

Slots == 0 .. NSlots - 1
\* Mutant: the last slot is not linked to the first one.
NextSlotOpen(s) == s + 1
NextSlot(s) == (s + 1) % NSlots
PageOrNull == Pages \cup {NoPage}

\* The pages from h on along the links nx, not going beyond last; no chain is
\* longer than Pages.
ChainOf(nx, h, last) ==
    LET at[n \in 0 .. Cardinality(Pages)] ==
            IF n = 0 THEN h
            ELSE IF at[n - 1] \in {NoPage, last} THEN NoPage ELSE nx[at[n - 1]]
    IN  {at[n] : n \in 0 .. Cardinality(Pages) - 1} \ {NoPage}
Chain(h, last) == ChainOf(next, h, last)

FindLast(h) == CHOOSE p \in Chain(h, NoPage) : next[p] = NoPage

NewLocal == [slot |-> 0, victim |-> 0, private |-> [k \in Kinds |-> NoPage], pending |-> NoPage]

\* A call: page is its argument or its result, list .. last the stack it has
\* taken, or is about to push; curr and prev walk a list; seen is a value it
\* has loaded; from and start are the slots where its loops began.
NoCall == [op |-> "none", at |-> "idle", kind |-> "uninitialized", guarantee |-> "none",
           page |-> NoPage, list |-> NoPage, last |-> NoPage, curr |-> NoPage,
           prev |-> NoPage, seen |-> NoPage, count |-> 0, stack |-> "private",
           round |-> "first", discard |-> FALSE, from |-> 0, start |-> 0]

Init ==
    /\ first = [s \in Slots |-> [k \in Kinds |-> NoPage]]
    /\ next = [p \in Pages |-> NoPage]
    /\ pins = [p \in Pages |-> 0]
    /\ m_last_assigned = 0
    /\ local = [t \in Threads |-> NewLocal]
    /\ call = [t \in Threads |-> [NoCall EXCEPT !.op = "out"]]
    /\ Source!Init
    /\ held = {}
    /\ pinned = [t \in Threads |-> NoPage]
    /\ usage \in Usages
    /\ alone = NoThread

At(t, a) == call[t].at = a
Become(t, c) == call' = [call EXCEPT ![t] = c]
Keep(t, l) == local' = [local EXCEPT ![t] = l]
Return(t, p) == Become(t, NoCall) /\ held' = held \cup ({p} \ {NoPage})

---------------------------------------------------------------------------
(* try_steal_and_allocate is over, and page is what it has found: the      *)
(* first time the system is asked next, and then all slots are victims.    *)
AfterSteal(t, c, l) ==
    LET v == NextSlot(l.victim)
        asked == [c EXCEPT !.at = "system", !.list = NoPage, !.last = NoPage, !.seen = NoPage,
                           !.discard = FALSE]
    IN  \/ /\ c.page # NoPage
           /\ Return(t, c.page)
           /\ Keep(t, l)
        \/ /\ c.page = NoPage /\ c.round = "first"
           /\ Become(t, asked)
           /\ Keep(t, l)
           /\ UNCHANGED held
        \/ /\ c.page = NoPage /\ c.round = "loop"
           /\ Keep(t, [l EXCEPT !.victim = v])
           /\ \/ /\ v # c.start
                 /\ Become(t, [asked EXCEPT !.at = "steal"])
                 /\ UNCHANGED held
              \/ /\ v = c.start /\ c.guarantee = "blocking"
                 /\ Become(t, [asked EXCEPT !.round = "last"])
                 /\ UNCHANGED held
              \/ /\ v = c.start /\ c.guarantee # "blocking"
                 /\ Return(t, NoPage)

(* The destructor pushes a private stack until it succeeds, then the other.*)
Dump(t, c, l) ==
    \/ \E k \in Kinds :
        /\ l.private[k] # NoPage
        /\ k = "zeroed" => l.private["uninitialized"] = NoPage
        /\ Keep(t, [l EXCEPT !.private[k] = NoPage])
        /\ Become(t, [c EXCEPT !.at = "push", !.kind = k, !.list = l.private[k],
                               !.last = NoPage, !.seen = NoPage])
    \/ /\ \A k \in Kinds : l.private[k] = NoPage
       /\ Keep(t, NewLocal)
       /\ Become(t, [NoCall EXCEPT !.op = "out"])

(* What a call does once the pending unpins have been tried.               *)
Body(t, c, l) ==
    \/ /\ c.op = "allocate"
       /\ LET h == l.private[c.kind]
          IN  Become(t, IF h # NoPage
                        THEN [c EXCEPT !.at = "scan", !.stack = "private", !.list = h, !.curr = h]
                        ELSE [c EXCEPT !.at = "exchange"])
       /\ Keep(t, l)
    \/ /\ c.op = "free"
       /\ Become(t, [c EXCEPT !.at = "push", !.discard = TRUE, !.from = l.slot])
       /\ Keep(t, l)
    \/ /\ c.op \in {"pin", "unpin"}
       /\ Become(t, [c EXCEPT !.at = IF c.guarantee = "wait_free" THEN "count" ELSE "add"])
       /\ Keep(t, l)
    \/ c.op = "reserve" /\ Become(t, NoCall) /\ Keep(t, l)
    \/ c.op = "exit" /\ Dump(t, c, l)

---------------------------------------------------------------------------
(* Calls of the clients: a page given back is given back by one of them,   *)
(* and a pin may come after that.                                          *)

Wanted(p) ==
    \E t \in Threads :
        p \in {pinned[t], call[t].page} \cup Chain(local[t].pending, NoPage)

\* How the clients use pins.  early_free: as the queues do, a page may be given
\* back while it is pinned, but no unpin is wait-free.  exclusive: a page is
\* pinned by one thread at a time, and given back when nothing is left to unpin.
\* any: all that the interface of default_allocator.h allows, though no queue
\* makes wait-free unpins of pages that others may give back.
MayFree(p) == p \in held /\ (usage = "exclusive" => ~Wanted(p))
MayPin(p) == given[p] > 0 /\ (usage = "exclusive" => p \in held /\ ~Wanted(p))
MayUnpin(g) == usage = "early_free" => g # "wait_free"

\* Every call begins with process_pending_unpins.
Begin(t, c) ==
    /\ call[t].op = "none"
    /\ alone' = IF \A u \in Threads \ {t} : call[u].op \in {"none", "out"} THEN t ELSE NoThread
    /\ LET l == local[t]
       IN  \/ l.pending = NoPage /\ Body(t, c, l)
           \/ /\ l.pending # NoPage
              /\ Become(t, [c EXCEPT !.at = "drain", !.curr = l.pending])
              /\ UNCHANGED local
    /\ UNCHANGED <<memory, m_last_assigned, given, pinned, usage>>

try_allocate_page(t) ==
    \E k \in UsedKinds, g \in Guarantees :
        /\ Begin(t, [NoCall EXCEPT !.op = "allocate", !.kind = k, !.guarantee = g])
        /\ UNCHANGED held

deallocate_page(t) ==
    \E p \in Pages, k \in UsedKinds :
        /\ MayFree(p)
        /\ held' = held \ {p}
        /\ Begin(t, [NoCall EXCEPT !.op = "free", !.kind = k, !.guarantee = "wait_free",
                                   !.list = p, !.last = p])

pin_page(t) ==
    \E p \in Pages, g \in Guarantees :
        /\ MayPin(p) /\ pinned[t] = NoPage
        /\ Begin(t, [NoCall EXCEPT !.op = "pin", !.guarantee = g, !.page = p])
        /\ UNCHANGED held

unpin_page(t) ==
    \E g \in Guarantees :
        /\ MayUnpin(g) /\ pinned[t] # NoPage
        /\ Begin(t, [NoCall EXCEPT !.op = "unpin", !.guarantee = g, !.page = pinned[t]])
        /\ UNCHANGED held

try_reserve_lockfree_memory(t) ==
    \E g \in Guarantees :
        Begin(t, [NoCall EXCEPT !.op = "reserve", !.guarantee = g]) /\ UNCHANGED held

\* A thread ends when it has no page pinned, and another one may take its place.
EndThread(t) ==
    /\ pinned[t] = NoPage
    /\ Begin(t, [NoCall EXCEPT !.op = "exit", !.guarantee = "blocking"])
    /\ UNCHANGED held

AssignSlot(t) ==
    /\ call[t].op = "out"
    /\ Become(t, [NoCall EXCEPT !.op = "construct", !.at = "assign"])
    /\ Keep(t, [NewLocal EXCEPT !.slot = m_last_assigned])
    /\ alone' = NoThread
    /\ UNCHANGED <<memory, m_last_assigned, given, held, pinned, usage>>

StoreLastAssigned(t) ==
    /\ At(t, "assign")
    /\ m_last_assigned' = NextSlot(local[t].slot)
    /\ Keep(t, [local[t] EXCEPT !.victim = NextSlot(local[t].slot)])
    /\ Become(t, NoCall)
    /\ UNCHANGED <<memory, given, held, pinned, usage, alone>>

---------------------------------------------------------------------------
(* process_pending_unpins.  A call that may be lock-free unpins all pages, *)
(* and the others MaxUnpins pages at most, as long as no CAS fails.        *)

UnpinsAll(c) == c.guarantee # "wait_free" \/ c.op = "unpin"

\* Mutant: the pages that are unpinned stay in the list.
DrainedKeepsAll(t, c, h) == Body(t, [c EXCEPT !.curr = NoPage, !.count = 0], local[t])
Drained(t, c, h) == Body(t, [c EXCEPT !.curr = NoPage, !.count = 0], [local[t] EXCEPT !.pending = h])

DrainAll(t) ==
    /\ At(t, "drain") /\ UnpinsAll(call[t])
    /\ pins' = [pins EXCEPT ![call[t].curr] = @ - 1]
    /\ Become(t, [call[t] EXCEPT !.at = "drain_next"])
    /\ UNCHANGED <<first, next, m_last_assigned, local, given, held, pinned, usage, alone>>

DrainLoad(t) ==
    /\ At(t, "drain") /\ ~UnpinsAll(call[t])
    /\ Become(t, [call[t] EXCEPT !.at = "drain_cas", !.seen = pins[call[t].curr]])
    /\ UNCHANGED <<memory, m_last_assigned, local, given, held, pinned, usage, alone>>

DrainCas(t) ==
    LET c == call[t]
        done == [c EXCEPT !.seen = NoPage]
    IN  /\ At(t, "drain_cas")
        /\ \/ /\ pins[c.curr] = c.seen
              /\ pins' = [pins EXCEPT ![c.curr] = @ - 1]
              /\ Become(t, [done EXCEPT !.at = "drain_next", !.count = @ + 1])
              /\ UNCHANGED <<local, alone>>
           \/ /\ pins[c.curr] # c.seen \/ usage \in SpuriousFailures
              /\ Drained(t, done, c.curr)
              /\ alone' = NoThread
              /\ UNCHANGED pins
        /\ UNCHANGED <<first, next, m_last_assigned, given, held, pinned, usage>>

DrainNext(t) ==
    LET c == call[t]
        p == next[c.curr]
    IN  /\ At(t, "drain_next")
        /\ \/ /\ p # NoPage /\ c.count < MaxUnpins
              /\ Become(t, [c EXCEPT !.at = "drain", !.curr = p])
              /\ UNCHANGED local
           \/ /\ p = NoPage \/ c.count = MaxUnpins
              /\ Drained(t, c, p)
        /\ UNCHANGED <<memory, m_last_assigned, given, held, pinned, usage, alone>>

---------------------------------------------------------------------------
(* pin_page, try_pin_page and unpin_page.                                  *)

Changed(t, n) == IF call[t].op = "pin" THEN n + 1 ELSE n - 1

PinChanged(t) ==
    /\ pins' = [pins EXCEPT ![call[t].page] = Changed(t, @)]
    /\ pinned' = [pinned EXCEPT ![t] = IF call[t].op = "pin" THEN call[t].page ELSE NoPage]
    /\ Become(t, NoCall)

FetchAdd(t) ==
    /\ At(t, "add")
    /\ PinChanged(t)
    /\ UNCHANGED <<first, next, m_last_assigned, local, given, held, usage, alone>>

LoadPins(t) ==
    /\ At(t, "count")
    /\ Become(t, [call[t] EXCEPT !.at = "count_cas", !.seen = pins[call[t].page]])
    /\ UNCHANGED <<memory, m_last_assigned, local, given, held, pinned, usage, alone>>

\* A wait-free unpin that fails is left for later.
PinsCas(t) ==
    LET p == call[t].page
    IN  /\ At(t, "count_cas")
        /\ \/ /\ pins[p] = call[t].seen
              /\ PinChanged(t)
              /\ UNCHANGED <<next, local, alone>>
           \/ /\ pins[p] # call[t].seen \/ usage \in SpuriousFailures
              /\ \/ /\ call[t].op = "pin"
                    /\ UNCHANGED <<next, local, pinned>>
                 \/ /\ call[t].op = "unpin"
                    /\ next' = [next EXCEPT ![p] = local[t].pending]
                    /\ Keep(t, [local[t] EXCEPT !.pending = p])
                    /\ pinned' = [pinned EXCEPT ![t] = NoPage]
              /\ Become(t, NoCall)
              /\ alone' = NoThread
              /\ UNCHANGED pins
        /\ UNCHANGED <<first, m_last_assigned, given, held, usage>>

---------------------------------------------------------------------------
(* pop_unpinned, on the private stack, on the stack of the current slot    *)
(* while it is locked, and on the stack stolen from the victim.            *)

Scanned(t, c) ==
    LET l == local[t]
        done == [c EXCEPT !.curr = NoPage, !.prev = NoPage]
    IN  \/ /\ c.stack = "private"
           /\ Keep(t, [l EXCEPT !.private[c.kind] = c.list])
           /\ \/ c.page # NoPage /\ Return(t, c.page)
              \/ /\ c.page = NoPage
                 /\ Become(t, [done EXCEPT !.at = "exchange", !.list = NoPage])
                 /\ UNCHANGED held
        \/ /\ c.stack = "current"
           /\ Become(t, [done EXCEPT !.at = "restore"])
           /\ UNCHANGED <<local, held>>
        \/ /\ c.stack = "stolen" /\ c.list # NoPage
           /\ Become(t, [done EXCEPT !.at = "push"])
           /\ UNCHANGED <<local, held>>
        \/ /\ c.stack = "stolen" /\ c.list = NoPage
           /\ AfterSteal(t, done, l)

ScanPinned(t) ==
    LET c == call[t]
    IN  /\ At(t, "scan")
        /\ pins[c.curr] > 0
        /\ \/ /\ next[c.curr] # NoPage
              /\ Become(t, [c EXCEPT !.curr = next[c.curr], !.prev = c.curr])
              /\ UNCHANGED <<local, held>>
           \/ next[c.curr] = NoPage /\ Scanned(t, c)
        /\ UNCHANGED <<memory, m_last_assigned, given, pinned, usage, alone>>

ScanUnpinned(t) ==
    LET c == call[t]
    IN  /\ At(t, "scan")
        /\ pins[c.curr] = 0
        /\ \/ /\ c.prev # NoPage
              /\ next' = [next EXCEPT ![c.prev] = next[c.curr]]
              /\ Scanned(t, [c EXCEPT !.page = c.curr])
           \/ /\ c.prev = NoPage
              /\ Scanned(t, [c EXCEPT !.page = c.curr, !.list = next[c.curr]])
              /\ UNCHANGED next
        /\ UNCHANGED <<first, pins, m_last_assigned, given, pinned, usage, alone>>

---------------------------------------------------------------------------
(* try_allocate_page after the private stack.                              *)

Current(t) == first[local[t].slot][call[t].kind]
Victim(t) == first[local[t].victim][call[t].kind]
SetFirst(s, k, h) == first' = [first EXCEPT ![s][k] = h]

\* Mutant: the stack is searched without being locked.
ExchangeUnlocked(t) ==
    LET c == call[t]
        h == Current(t)
    IN  /\ At(t, "exchange")
        /\ Become(t, IF h \in Pages
                     THEN [c EXCEPT !.at = "scan", !.stack = "current", !.list = h, !.curr = h]
                     ELSE [c EXCEPT !.at = "steal"])
        /\ UNCHANGED <<memory, m_last_assigned, local, given, held, pinned, usage, alone>>

Exchange(t) ==
    LET c == call[t]
        h == Current(t)
    IN  /\ At(t, "exchange")
        /\ SetFirst(local[t].slot, c.kind, Marker)
        /\ Become(t, CASE h = Marker -> [c EXCEPT !.at = "steal"]
                       [] h = NoPage -> [c EXCEPT !.at = "restore"]
                       [] OTHER -> [c EXCEPT !.at = "scan", !.stack = "current",
                                             !.list = h, !.curr = h])
        /\ UNCHANGED <<next, pins, m_last_assigned, local, given, held, pinned, usage, alone>>

Restore(t) ==
    /\ At(t, "restore")
    /\ SetFirst(local[t].slot, call[t].kind, call[t].list)
    /\ \/ call[t].page # NoPage /\ Return(t, call[t].page)
       \/ /\ call[t].page = NoPage
          /\ Become(t, [call[t] EXCEPT !.at = "steal", !.list = NoPage])
          /\ UNCHANGED held
    /\ UNCHANGED <<next, pins, m_last_assigned, local, given, pinned, usage, alone>>

\* Removing all the pages of an empty stack changes nothing.
Steal(t) ==
    LET c == call[t]
    IN  /\ At(t, "steal")
        /\ \/ /\ Victim(t) \in Pages
              /\ Become(t, [c EXCEPT !.at = "steal_cas", !.seen = Victim(t)])
              /\ UNCHANGED <<local, held>>
           \/ /\ Victim(t) \notin Pages
              /\ AfterSteal(t, c, local[t])
        /\ UNCHANGED <<memory, m_last_assigned, given, pinned, usage, alone>>

StealCas(t) ==
    LET c == [call[t] EXCEPT !.seen = NoPage]
        h == call[t].seen
    IN  /\ At(t, "steal_cas")
        /\ \/ /\ Victim(t) = h
              /\ SetFirst(local[t].victim, c.kind, NoPage)
              /\ Become(t, [c EXCEPT !.at = "scan", !.stack = "stolen", !.list = h, !.curr = h])
              /\ UNCHANGED <<local, held, alone>>
           \/ /\ Victim(t) # h \/ usage \in SpuriousFailures
              /\ AfterSteal(t, c, local[t])
              /\ alone' = NoThread
              /\ UNCHANGED first
        /\ UNCHANGED <<next, pins, m_last_assigned, given, pinned, usage>>

\* Mutant: the loop over the victims stops one slot early.
SystemStopsEarly(t) ==
    LET c == call[t]
    IN  /\ At(t, "system")
        /\ \/ \E p \in Pages :
              /\ Source!Give(p)
              /\ Return(t, p)
           \/ /\ c.round = "first"
              /\ Become(t, [c EXCEPT !.at = "steal", !.round = "loop",
                                     !.start = NextSlot(local[t].victim)])
              /\ UNCHANGED <<given, held>>
        /\ UNCHANGED <<memory, m_last_assigned, local, pinned, usage, alone>>

\* What the system page manager does is in SystemPageManager: a call that may
\* not block can fail at any time, one that may fails when no page is left.
System(t) ==
    LET c == call[t]
    IN  /\ At(t, "system")
        /\ \/ \E p \in Pages :
              /\ Source!Give(p)
              /\ next' = [next EXCEPT ![p] = NoPage]
              /\ pins' = [pins EXCEPT ![p] = 0]
              /\ Return(t, p)
           \/ /\ c.round = "first"
              /\ Become(t, [c EXCEPT !.at = "steal", !.round = "loop",
                                     !.start = local[t].victim])
              /\ UNCHANGED <<next, pins, given, held>>
           \/ /\ c.round = "last" /\ \A p \in Pages : given[p] > 0
              /\ Return(t, NoPage)
              /\ UNCHANGED <<next, pins, given>>
        /\ UNCHANGED <<first, m_last_assigned, local, pinned, usage, alone>>

---------------------------------------------------------------------------
(* Pushing a page, or a stack, on the current slot.                        *)

Pushed(t, c, l) ==
    \/ c.op = "free" /\ Become(t, NoCall) /\ Keep(t, l) /\ UNCHANGED held
    \/ c.op = "allocate" /\ AfterSteal(t, c, l)
    \/ c.op = "exit" /\ Dump(t, c, l) /\ UNCHANGED held

\* After a failure: a stolen stack is pushed again in the loop of
\* discard_page_stack, which like that of deallocate_page goes once around the
\* slots and then to the private stack; the destructor goes round for ever.
PushFailed(t, c, last) ==
    LET l == local[t]
        s == NextSlot(l.slot)
        again == [c EXCEPT !.at = "push", !.last = IF c.op = "free" THEN @ ELSE NoPage,
                           !.seen = NoPage]
        restored == IF c.op = "free" THEN next ELSE [next EXCEPT ![last] = NoPage]
    IN  \/ /\ c.op = "allocate" /\ ~c.discard
           /\ Become(t, [again EXCEPT !.discard = TRUE, !.from = l.slot])
           /\ next' = restored
           /\ UNCHANGED <<local, held>>
        \/ /\ \/ c.op = "exit"
              \/ c.discard /\ s # c.from
           /\ Become(t, again)
           /\ Keep(t, [l EXCEPT !.slot = s])
           /\ next' = restored
           /\ UNCHANGED held
        \/ /\ c.op # "exit" /\ c.discard /\ s = c.from
           /\ next' = [next EXCEPT ![last] = l.private[c.kind]]
           /\ Pushed(t, again, [l EXCEPT !.slot = s, !.private[c.kind] = c.list])

Push(t) ==
    LET c == call[t]
        last == IF c.op = "free" THEN c.last ELSE FindLast(c.list)
    IN  /\ At(t, "push")
        /\ \/ Current(t) = Marker /\ PushFailed(t, c, last)
           \/ /\ Current(t) # Marker
              /\ next' = [next EXCEPT ![last] = Current(t)]
              /\ Become(t, [c EXCEPT !.at = "push_cas", !.last = last, !.seen = Current(t)])
              /\ UNCHANGED <<local, held>>
        /\ UNCHANGED <<first, pins, m_last_assigned, given, pinned, usage, alone>>

PushCas(t) ==
    LET c == call[t]
    IN  /\ At(t, "push_cas")
        /\ \/ /\ Current(t) = c.seen
              /\ SetFirst(local[t].slot, c.kind, c.list)
              /\ Pushed(t, c, local[t])
              /\ UNCHANGED <<next, alone>>
           \/ /\ Current(t) # c.seen \/ usage \in SpuriousFailures
              /\ PushFailed(t, c, c.last)
              /\ alone' = NoThread
              /\ UNCHANGED first
        /\ UNCHANGED <<pins, m_last_assigned, given, pinned, usage>>

---------------------------------------------------------------------------

Next ==
    \E t \in Threads :
        \/ try_allocate_page(t) \/ deallocate_page(t) \/ pin_page(t) \/ unpin_page(t)
        \/ try_reserve_lockfree_memory(t)
        \/ EndThread(t) \/ AssignSlot(t) \/ StoreLastAssigned(t)
        \/ DrainAll(t) \/ DrainLoad(t) \/ DrainCas(t) \/ DrainNext(t)
        \/ FetchAdd(t) \/ LoadPins(t) \/ PinsCas(t)
        \/ ScanPinned(t) \/ ScanUnpinned(t)
        \/ Exchange(t) \/ Restore(t) \/ Steal(t) \/ StealCas(t) \/ System(t)
        \/ Push(t) \/ PushCas(t)

Spec == Init /\ [][Next]_vars

---------------------------------------------------------------------------

\* The free pages of a kind: those in the stacks of the slots, and those a
\* thread keeps, in its private stack, or in the list it has taken or is about
\* to push.
FreePages(k) ==
    LET slots == {s \in Slots : first[s][k] \in Pages}
        keepers == {t \in Threads : local[t].private[k] # NoPage}
        movers == {t \in Threads : call[t].list # NoPage /\ call[t].kind = k}
    IN  UNION ({Chain(first[s][k], NoPage) : s \in slots}
               \cup {Chain(local[t].private[k], NoPage) : t \in keepers}
               \cup {Chain(call[t].list, call[t].last) : t \in movers})

\* The pages an allocation has found and not yet returned.
Taken == {call[t].page : t \in {u \in Threads : call[u].op = "allocate"}} \ {NoPage}

(* The allocator implements the pool of pages: a page is handed out only   *)
(* from the pool of the kind asked, and at the step that saw it unpinned;  *)
(* no page is in the hands of a client and in a stack, none is lost by the *)
(* pushes that fail, the stacks stolen, the threads that end.              *)
Pool == INSTANCE PagePool WITH
    fresh <- {p \in Pages : given[p] = 0},
    free <- [k \in Kinds |-> FreePages(k)],
    held <- held \cup Taken
PoolSpec == Pool!Spec

(* The pin count of a page is the number of threads that have it pinned or *)
(* still owe it an unpin: no unpin is lost, or made twice, by a wait-free  *)
(* call that leaves it for later and a later call that makes a part of     *)
(* what is left.                                                           *)
Owed(t) ==
    CASE At(t, "drain") \/ At(t, "drain_cas") -> Chain(call[t].curr, NoPage)
      [] At(t, "drain_next") -> Chain(next[call[t].curr], NoPage)
      [] OTHER -> Chain(local[t].pending, NoPage)
PinsExact ==
    \A p \in Pages : pins[p] = Cardinality({t \in Threads : pinned[t] = p})
                                 + Cardinality({t \in Threads : p \in Owed(t)})

\* The pages of a kind that a thread can come by.
Reachable(t, k) ==
    Chain(local[t].private[k], NoPage)
        \cup UNION {Chain(first[s][k], NoPage) : s \in {r \in Slots : first[r][k] \in Pages}}

(* An allocation that nobody disturbs, of any progress guarantee, fails    *)
(* only if no slot and no private stack of the thread has an unpinned page *)
(* of that kind, however the pages are spread on the slots; if it may      *)
(* block, only if the system has no page either.                           *)
Failed(t) == call[t].op = "allocate" /\ call'[t].op = "none" /\ held' = held
LoneAllocationFinds ==
    [][\A t \in Threads : Failed(t) /\ alone' = t =>
          /\ \A k \in Kinds : call[t].kind = k => \A p \in Reachable(t, k)' : pins[p] > 0
          /\ call[t].guarantee = "blocking" => \A p \in Pages : given[p] > 0]_vars

TypeOK ==
    /\ first \in [Slots -> [Kinds -> PageOrNull \cup {Marker}]]
    /\ next \in [Pages -> PageOrNull]
    /\ pins \in [Pages -> Nat]
    /\ local \in [Threads -> [slot : Slots, victim : Slots, private : [Kinds -> PageOrNull],
                              pending : PageOrNull]]
    /\ held \subseteq Pages
    /\ pinned \in [Threads -> PageOrNull]
==========================================================================
