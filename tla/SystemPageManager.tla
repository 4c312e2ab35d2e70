------------------------ MODULE SystemPageManager -------------------------
(***************************************************************************)
(* The source of all pages (detail/system_page_manager.h): memory regions  *)
(* in a list, each with a pointer to its next free page that threads move  *)
(* on, and that they may for a moment move past the end.                   *)
(*                                                                         *)
(* An address in a region is the number of pages before it, m_start is 0   *)
(* and m_end the capacity of the region.                                   *)
(***************************************************************************)
EXTENDS Integers, FiniteSets

CONSTANTS
    Threads,
    Regions,            \* the regions the system has memory for
    FirstRegion,        \* m_first_region, which has no pages
    NoRegion,           \* the null pointer
    Capacity,           \* pages of each region
    Guarantees,         \* progress guarantees callers ask for
    Reservations,       \* sizes, in pages, callers reserve
    SpuriousFailures    \* whether a weak CAS may fail with the value expected

ASSUME RegionAssumption ==
    /\ IsFiniteSet(Threads)
    /\ FirstRegion \in Regions
    /\ NoRegion \notin Regions
    /\ Capacity \in [Regions -> Nat]
    /\ Capacity[FirstRegion] = 0
    /\ Guarantees \subseteq {"blocking", "lock_free", "wait_free"}
    /\ Reservations \subseteq Nat
    /\ SpuriousFailures \in BOOLEAN

VARIABLES
    m_curr_region,  \* where allocation starts
    m_curr,         \* the next free page of each region
    m_next_region,  \* the list of regions
    m_cumulative_available_memory,  \* capacity of the list up to each region
    created,        \* regions taken from the system
    thr,            \* the calls in progress
    given           \* history: how many times each page has been returned

vars == <<m_curr_region, m_curr, m_next_region, m_cumulative_available_memory,
          created, thr, given>>
memory == <<m_curr_region, m_curr, m_next_region, m_cumulative_available_memory, created>>

---------------------------------------------------------------------------

RegionOrNull == Regions \cup {NoRegion}
Page == UNION {{r} \X (0 .. Capacity[r] - 1) : r \in Regions}

PC == {"idle", "allocate", "undo", "compare_exchange", "next", "create", "next_again",
       "link", "move", "finish"}

\* A call: region is i_curr_region, found the region after it, unused is
\* *io_new_region, size what a reservation asks for (an allocation asks for
\* none), seen the value of m_curr a wait-free allocation has loaded.
Thread == [pc : PC, guarantee : Guarantees \cup {"none"}, size : Nat,
           region : Regions, found : RegionOrNull, unused : RegionOrNull, seen : Nat]

NewThread == [pc |-> "idle", guarantee |-> "none", size |-> 0, region |-> FirstRegion,
              found |-> NoRegion, unused |-> NoRegion, seen |-> 0]

\* A call that has just been made; an allocation has size 0.
Call(g, size) == [NewThread EXCEPT !.guarantee = g, !.size = size]

At(t, pc) == thr[t].pc = pc
Goto(t, pc) == thr' = [thr EXCEPT ![t].pc = pc]
Allocates(t) == thr[t].size = 0

\* What the loop of either call does with a region.
Visit(q, r) ==
    [q EXCEPT !.region = r, !.found = NoRegion,
              !.pc = IF q.size = 0 THEN "allocate"
                     ELSE IF q.size > m_cumulative_available_memory[r] THEN "next"
                     ELSE "finish"]

\* A page is returned.
Give(p) == given' = [given EXCEPT ![p] = @ + 1]

---------------------------------------------------------------------------
(* try_allocate_page, try_reserve_region_memory *)

TryAllocatePage(t, g) ==
    /\ At(t, "idle")
    /\ thr' = [thr EXCEPT ![t] = Visit(Call(g, 0), m_curr_region)]
    /\ UNCHANGED <<memory, given>>

TryReserve(t, g, size) ==
    /\ At(t, "idle") /\ size > 0
    /\ thr' = [thr EXCEPT ![t] = Visit(Call(g, size), m_curr_region)]
    /\ UNCHANGED <<memory, given>>

\* The call returns; a region that found no place in the list is destroyed.
\* Mutant: it is not.
KeepUnused(t) ==
    /\ At(t, "finish")
    /\ thr' = [thr EXCEPT ![t] = NewThread]
    /\ UNCHANGED <<memory, given>>

Finish(t) ==
    /\ At(t, "finish")
    /\ created' = created \ {thr[t].unused}
    /\ thr' = [thr EXCEPT ![t] = NewThread]
    /\ UNCHANGED <<m_curr_region, m_curr, m_next_region, m_cumulative_available_memory, given>>

---------------------------------------------------------------------------
(* allocate_page_from_region *)

\* Lock-free: take the page, then look whether there was one.
FetchAdd(t) ==
    /\ At(t, "allocate") /\ thr[t].guarantee # "wait_free"
    /\ LET r == thr[t].region
       IN /\ m_curr' = [m_curr EXCEPT ![r] = @ + 1]
          /\ IF m_curr[r] < Capacity[r]
             THEN Give(<<r, m_curr[r]>>) /\ Goto(t, "finish")
             ELSE UNCHANGED given /\ Goto(t, "undo")
    /\ UNCHANGED <<m_curr_region, m_next_region, m_cumulative_available_memory, created>>

\* Mutant: the step past the end is not undone.
KeepOvershoot(t) == At(t, "undo") /\ Goto(t, "next") /\ UNCHANGED <<memory, given>>

FetchSub(t) ==
    /\ At(t, "undo")
    /\ m_curr' = [m_curr EXCEPT ![thr[t].region] = @ - 1]
    /\ Goto(t, "next")
    /\ UNCHANGED <<m_curr_region, m_next_region, m_cumulative_available_memory, created, given>>

\* Wait-free: look first, and try to take it once.
\* Mutant: without looking.
LoadCurrUnchecked(t) ==
    /\ At(t, "allocate") /\ thr[t].guarantee = "wait_free"
    /\ thr' = [thr EXCEPT ![t].pc = "compare_exchange", ![t].seen = m_curr[thr[t].region]]
    /\ UNCHANGED <<memory, given>>

LoadCurr(t) ==
    /\ At(t, "allocate") /\ thr[t].guarantee = "wait_free"
    /\ LET r == thr[t].region
       IN IF m_curr[r] >= Capacity[r]
          THEN Goto(t, "next")
          ELSE thr' = [thr EXCEPT ![t].pc = "compare_exchange", ![t].seen = m_curr[r]]
    /\ UNCHANGED <<memory, given>>

\* Mutant: m_curr is stored, not compared and exchanged.
StoreCurr(t) ==
    /\ At(t, "compare_exchange")
    /\ m_curr' = [m_curr EXCEPT ![thr[t].region] = thr[t].seen + 1]
    /\ Give(<<thr[t].region, thr[t].seen>>)
    /\ Goto(t, "finish")
    /\ UNCHANGED <<m_curr_region, m_next_region, m_cumulative_available_memory, created>>

CompareExchange(t) ==
    /\ At(t, "compare_exchange")
    /\ LET r == thr[t].region
       IN \/ /\ m_curr[r] = thr[t].seen
             /\ m_curr' = [m_curr EXCEPT ![r] = @ + 1]
             /\ Give(<<r, thr[t].seen>>)
          \/ /\ m_curr[r] # thr[t].seen \/ SpuriousFailures
             /\ UNCHANGED <<m_curr, given>>
    /\ Goto(t, "finish")
    /\ UNCHANGED <<m_curr_region, m_next_region, m_cumulative_available_memory, created>>

---------------------------------------------------------------------------
(* get_next_region *)

\* Only a blocking call asks the system for memory, and only once.
LoadNext(t) ==
    /\ At(t, "next")
    /\ LET n == m_next_region[thr[t].region]
       IN thr' = [thr EXCEPT ![t].found = n,
                    ![t].pc = IF n # NoRegion THEN "move"
                              ELSE IF thr[t].guarantee # "blocking" THEN "finish"
                              ELSE IF thr[t].unused = NoRegion THEN "create"
                              ELSE "link"]
    /\ UNCHANGED <<memory, given>>

CreateRegion(t) ==
    /\ At(t, "create")
    /\ \E r \in Regions \ created :
         /\ created' = created \cup {r}
         /\ m_curr' = [m_curr EXCEPT ![r] = 0]
         /\ m_next_region' = [m_next_region EXCEPT ![r] = NoRegion]
         /\ thr' = [thr EXCEPT ![t].pc = "link", ![t].unused = r]
    /\ UNCHANGED <<m_curr_region, m_cumulative_available_memory, given>>

\* The system has no memory to give.
CreateFails(t) ==
    /\ At(t, "create")
    /\ Goto(t, "next_again")
    /\ UNCHANGED <<memory, given>>

LoadNextAgain(t) ==
    /\ At(t, "next_again")
    /\ LET n == m_next_region[thr[t].region]
       IN thr' = [thr EXCEPT ![t].found = n,
                    ![t].pc = IF n # NoRegion THEN "move" ELSE "finish"]
    /\ UNCHANGED <<memory, given>>

\* m_cumulative_available_memory is set while the region is still private,
\* and again if it is tried at another place.
Cumulative(r, n) ==
    [m_cumulative_available_memory EXCEPT ![n] =
       m_cumulative_available_memory[r] + Capacity[n]]

LinkRegion(t) ==
    /\ At(t, "link")
    /\ LET r == thr[t].region
           new == thr[t].unused
       IN /\ m_cumulative_available_memory' = Cumulative(r, new)
          /\ IF m_next_region[r] = NoRegion
             THEN /\ m_next_region' = [m_next_region EXCEPT ![r] = new]
                  /\ thr' = [thr EXCEPT ![t].pc = "move", ![t].found = new,
                                        ![t].unused = NoRegion]
             ELSE /\ thr' = [thr EXCEPT ![t].pc = "move", ![t].found = m_next_region[r]]
                  /\ UNCHANGED m_next_region
    /\ UNCHANGED <<m_curr_region, m_curr, created, given>>

\* m_curr_region is moved on, if no other thread has done it.
MoveOn(t) ==
    /\ At(t, "move")
    /\ LET r == thr[t].region
           n == thr[t].found
       IN /\ \/ m_curr_region = r /\ m_curr_region' = n
             \/ /\ m_curr_region # r \/ SpuriousFailures
                /\ UNCHANGED m_curr_region
          /\ thr' = [thr EXCEPT ![t] = Visit(@, n)]
    /\ UNCHANGED <<m_curr, m_next_region, m_cumulative_available_memory, created, given>>

---------------------------------------------------------------------------

Init ==
    /\ m_curr_region = FirstRegion
    /\ m_curr = [r \in Regions |-> 0]
    /\ m_next_region = [r \in Regions |-> NoRegion]
    /\ m_cumulative_available_memory = [r \in Regions |-> 0]
    /\ created = {FirstRegion}
    /\ thr = [t \in Threads |-> NewThread]
    /\ given = [p \in Page |-> 0]

Step(t) ==
    \/ FetchAdd(t) \/ FetchSub(t) \/ LoadCurr(t) \/ CompareExchange(t)
    \/ LoadNext(t) \/ CreateRegion(t) \/ CreateFails(t) \/ LoadNextAgain(t)
    \/ LinkRegion(t) \/ MoveOn(t) \/ Finish(t)

Next ==
    \E t \in Threads :
        \/ \E g \in Guarantees : TryAllocatePage(t, g)
        \/ \E g \in Guarantees, size \in Reservations : TryReserve(t, g, size)
        \/ Step(t)

Spec == Init /\ [][Next]_vars

---------------------------------------------------------------------------
(* Properties *)

TypeOK ==
    /\ m_curr_region \in Regions
    /\ m_curr \in [Regions -> Nat]
    /\ m_next_region \in [Regions -> RegionOrNull]
    /\ m_cumulative_available_memory \in [Regions -> Nat]
    /\ created \subseteq Regions
    /\ thr \in [Threads -> Thread]
    /\ given \in [Page -> Nat]

\* Threads that have moved m_curr of a region past its end and have not yet
\* moved it back, and the pages of the region that have been given.
Undoing(r) == {t \in Threads : At(t, "undo") /\ thr[t].region = r}
Used(r) == m_curr[r] - Cardinality(Undoing(r))

\* The pages given are those before m_curr, less the steps still to be
\* undone, and there are such only in a region that is full: overshooting
\* neither loses a page nor gives one twice.
RegionExact(r) ==
    /\ Cardinality(Undoing(r)) <= m_curr[r]
    /\ Used(r) <= Capacity[r]
    /\ Undoing(r) # {} => Used(r) = Capacity[r]
    /\ \A i \in 0 .. Capacity[r] - 1 : given[<<r, i>>] = IF i < Used(r) THEN 1 ELSE 0
PagesExact == \A r \in Regions : RegionExact(r)

\* The regions of the list.
Linked == {FirstRegion} \cup ({m_next_region[r] : r \in Regions} \ {NoRegion})

\* Every region taken from the system is in the list, once, or is the private
\* region of one call, that nobody else can see; the list knows its capacity.
RegionsIntact ==
    /\ created = Linked \cup ({thr[t].unused : t \in Threads} \ {NoRegion})
    /\ \A t \in Threads : thr[t].unused \notin Linked
    /\ \A t, u \in Threads : t # u /\ thr[t].unused = thr[u].unused => thr[t].unused = NoRegion
    /\ \A r, s \in Regions : r # s /\ m_next_region[r] = m_next_region[s]
                                => m_next_region[r] = NoRegion
    /\ \A r \in Regions : LET n == m_next_region[r] IN n # NoRegion =>
            m_cumulative_available_memory[n] = m_cumulative_available_memory[r] + Capacity[n]
    /\ m_curr_region \in Linked

\* At each point of a call: the regions it knows are in the list, a region of
\* its own it has or has not, and a page it is about to take exists.
ThreadOK(t) ==
    /\ thr[t].region \in Linked /\ thr[t].found \in Linked \cup {NoRegion}
    /\ At(t, "move") => thr[t].found # NoRegion
    /\ At(t, "idle") \/ At(t, "create") => thr[t].unused = NoRegion
    /\ At(t, "link") => thr[t].unused # NoRegion
    /\ At(t, "compare_exchange") => thr[t].seen < Capacity[thr[t].region]
ThreadsOK == \A t \in Threads : ThreadOK(t)

\* A region is used only once it is in the list.
UnlinkedFresh ==
    \A r \in Regions \ Linked : m_curr[r] = 0 /\ m_next_region[r] = NoRegion

\* The inductive invariant of SystemPageManager_proof.
IInv == TypeOK /\ PagesExact /\ RegionsIntact /\ ThreadsOK /\ UnlinkedFresh

\* The promise to the page allocator: no page is given twice.
Source == INSTANCE PageSource WITH Pages <- Page
SourceSpec == Source!Spec

\* What lf_heter_queue says of the default allocator, that it manages pages
\* in lock freedom within its current capacity: an allocation that does not
\* block fails only if every region of the list is used up.
CapacityUsable ==
    [][\A t \in Threads :
          At(t, "next") /\ At(t, "finish")' /\ Allocates(t)
          => \A r \in Linked : m_curr[r] >= Capacity[r]]_thr
==========================================================================
