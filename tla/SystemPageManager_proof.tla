--------------------- MODULE SystemPageManager_proof ---------------------
(***************************************************************************)
(* The system page manager gives no page twice, and loses no region,       *)
(* whatever the number of threads, regions and pages.                      *)
(***************************************************************************)
EXTENDS SystemPageManager, FiniteSetTheorems, TLAPS

\* What a step of thread t does to the record of its call.
Becomes(t, q) == q \in Thread /\ thr' = [thr EXCEPT ![t] = q]

\* The threads that have added a page too many to a region are finitely many.
LEMMA UndoingFinite ==
    ASSUME NEW r
    PROVE  IsFiniteSet(Undoing(r)) /\ Cardinality(Undoing(r)) \in Nat
  BY RegionAssumption, FS_Subset, FS_CardinalityType DEF Undoing

\* The pages of a region are not touched by steps outside its pointer.
LEMMA PagesKept ==
    ASSUME TypeOK, PagesExact, NEW t \in Threads, NEW q, Becomes(t, q),
           ~At(t, "undo"), q.pc # "undo", UNCHANGED <<m_curr, given>>
    PROVE  PagesExact'
<1> SUFFICES ASSUME NEW r \in Regions PROVE RegionExact(r)'
  BY DEF PagesExact
<1>1. Undoing(r)' = Undoing(r)
  BY DEF Undoing, At, Becomes, TypeOK
<1> QED
  BY <1>1 DEF PagesExact, RegionExact, Used

\* The calls are as they should be if the one that moves is.
LEMMA Updated ==
    ASSUME TypeOK, ThreadsOK, NEW t \in Threads, NEW q, Becomes(t, q),
           Linked \subseteq Linked', ThreadOK(t)'
    PROVE  thr' \in [Threads -> Thread] /\ ThreadsOK'
<1>1. ASSUME NEW u \in Threads, u # t PROVE ThreadOK(u)'
  <2>1. thr'[u] = thr[u]
    BY <1>1 DEF TypeOK, Becomes
  <2> QED
    BY <1>1, <2>1 DEF ThreadsOK, ThreadOK, At
<1> QED
  BY <1>1 DEF ThreadsOK, TypeOK, Becomes

\* The list stays as it is, with the private regions of the calls.
LEMMA RegionsKept ==
    ASSUME TypeOK, RegionsIntact, UnlinkedFresh, NEW t \in Threads, NEW q, Becomes(t, q),
           q.unused = thr[t].unused, m_curr_region' \in Linked,
           UNCHANGED <<m_next_region, m_cumulative_available_memory, created>>,
           \A r \in Regions \ Linked : m_curr'[r] = m_curr[r]
    PROVE  RegionsIntact' /\ UnlinkedFresh' /\ Linked' = Linked
<1>1. Linked' = Linked
  BY DEF Linked
<1>2. \A u \in Threads : thr'[u].unused = thr[u].unused
  BY DEF Becomes, TypeOK
<1>3. {thr'[u].unused : u \in Threads} = {thr[u].unused : u \in Threads}
  BY <1>2
<1>4. RegionsIntact'
  BY <1>1, <1>2, <1>3 DEF RegionsIntact
<1>5. UnlinkedFresh'
  BY <1>1 DEF UnlinkedFresh
<1> QED
  BY <1>1, <1>4, <1>5

\* The regions linked so far, the first among them.
LEMMA LinkedTypes ==
    ASSUME TypeOK
    PROVE  Linked \subseteq Regions /\ FirstRegion \in Linked /\ NoRegion \notin Linked
  BY RegionAssumption DEF TypeOK, Linked, RegionOrNull

\* A step of a call that leaves the memory alone, but may move m_curr_region on.
LEMMA CallStep ==
    ASSUME IInv, NEW t \in Threads, NEW q, Becomes(t, q), q.unused = thr[t].unused,
           ~At(t, "undo"), q.pc # "undo", m_curr_region' \in Linked, ThreadOK(t)',
           UNCHANGED <<m_curr, m_next_region, m_cumulative_available_memory, created, given>>
    PROVE  IInv'
<1>1. RegionsIntact' /\ UnlinkedFresh' /\ Linked' = Linked
  BY RegionsKept DEF IInv
<1>2. thr' \in [Threads -> Thread] /\ ThreadsOK'
  BY <1>1, Updated DEF IInv
<1>3. PagesExact'
  BY PagesKept DEF IInv
<1>4. TypeOK'
  BY <1>2, LinkedTypes DEF IInv, TypeOK
<1> QED
  BY <1>1, <1>2, <1>3, <1>4 DEF IInv

\* A call that reaches a region of the list.
LEMMA VisitStep ==
    ASSUME IInv, NEW t \in Threads, NEW q \in Thread, NEW r \in Linked,
           thr' = [thr EXCEPT ![t] = Visit(q, r)],
           q.unused = thr[t].unused, ~At(t, "undo"), m_curr_region' \in Linked,
           UNCHANGED <<m_curr, m_next_region, m_cumulative_available_memory, created, given>>
    PROVE  IInv'
<1> DEFINE v == Visit(q, r)
<1>1. /\ v \in Thread /\ v.pc \in {"allocate", "next", "finish"}
      /\ v.region = r /\ v.found = NoRegion /\ v.unused = q.unused
  BY LinkedTypes DEF IInv, Visit, Thread, PC, RegionOrNull
<1>2. Becomes(t, v)
  BY <1>1 DEF Becomes
<1>3. ThreadOK(t)'
  <2>1. thr'[t] = v /\ Linked' = Linked
    BY DEF Linked, IInv, TypeOK
  <2> QED
    BY <1>1, <2>1 DEF ThreadOK, At
<1> QED
  BY <1>1, <1>2, <1>3, CallStep

\* try_allocate_page and try_reserve_region_memory are entered.
LEMMA Starts ==
    ASSUME IInv, NEW t \in Threads,
           \/ \E g \in Guarantees : TryAllocatePage(t, g)
           \/ \E g \in Guarantees, size \in Reservations : TryReserve(t, g, size)
    PROVE  IInv'
<1>1. At(t, "idle") /\ thr[t].unused = NoRegion /\ m_curr_region \in Linked
  BY DEF IInv, ThreadsOK, ThreadOK, RegionsIntact, TryAllocatePage, TryReserve
<1>2. PICK g \in Guarantees, size \in Nat :
        /\ thr' = [thr EXCEPT ![t] = Visit(Call(g, size), m_curr_region)]
        /\ UNCHANGED <<memory, given>>
  BY RegionAssumption DEF TryAllocatePage, TryReserve
<1> DEFINE q == Call(g, size)
<1>3. q \in Thread /\ q.unused = NoRegion
  BY RegionAssumption DEF Call, NewThread, Thread, PC, RegionOrNull
<1>4. /\ thr' = [thr EXCEPT ![t] = Visit(q, m_curr_region)] /\ q.unused = thr[t].unused
      /\ m_curr_region' \in Linked /\ ~At(t, "undo")
      /\ UNCHANGED <<m_curr, m_next_region, m_cumulative_available_memory, created, given>>
  BY <1>1, <1>2, <1>3 DEF memory, At
<1> HIDE DEF q
<1> QED
  BY <1>1, <1>3, <1>4, VisitStep

\* get_next_region, and the look of a wait-free allocation.
LEMMA Looks ==
    ASSUME IInv, NEW t \in Threads,
           LoadCurr(t) \/ LoadNext(t) \/ CreateFails(t) \/ LoadNextAgain(t)
    PROVE  IInv'
<1> DEFINE n == m_next_region[thr[t].region]
<1>1. /\ thr \in [Threads -> Thread] /\ thr[t] \in Thread /\ ThreadOK(t)
      /\ UNCHANGED <<memory, given>> /\ m_curr_region \in Linked
      /\ m_curr \in [Regions -> Nat]
  BY DEF IInv, TypeOK, ThreadsOK, RegionsIntact, LoadCurr, LoadNext, CreateFails, LoadNextAgain
<1>2. thr[t].region \in Regions /\ n \in Linked \cup {NoRegion} /\ n \in RegionOrNull
  BY <1>1, LinkedTypes DEF IInv, TypeOK, Thread, Linked, RegionOrNull
<1>3. Linked' = Linked
  BY <1>1 DEF Linked, memory
<1>4. CASE LoadCurr(t)
  <2> DEFINE q == IF m_curr[thr[t].region] >= Capacity[thr[t].region]
                  THEN [thr[t] EXCEPT !.pc = "next"]
                  ELSE [thr[t] EXCEPT !.pc = "compare_exchange", !.seen = m_curr[thr[t].region]]
  <2>1. thr' = [thr EXCEPT ![t] = q]
    BY <1>1, <1>4 DEF LoadCurr, Goto
  <2>2. q \in Thread /\ q.unused = thr[t].unused /\ q.pc # "undo"
    BY <1>1, <1>2, <1>4 DEF LoadCurr, Thread, PC
  <2>3. ThreadOK(t)'
    <3>1. thr'[t] = q
      BY <1>1, <2>1
    <3>2. q.seen < Capacity[q.region] \/ q.pc = "next"
      BY <1>1, <1>2, RegionAssumption DEF Thread
    <3> QED
      BY <1>1, <1>3, <3>1, <3>2 DEF ThreadOK, At, Thread
  <2> QED
    BY <1>1, <1>4, <2>1, <2>2, <2>3, CallStep DEF Becomes, memory, At, LoadCurr
<1>5. CASE LoadNext(t)
  <2> DEFINE q == [thr[t] EXCEPT !.found = n,
                     !.pc = IF n # NoRegion THEN "move"
                            ELSE IF thr[t].guarantee # "blocking" THEN "finish"
                            ELSE IF thr[t].unused = NoRegion THEN "create"
                            ELSE "link"]
  <2>1. thr' = [thr EXCEPT ![t] = q]
    BY <1>1, <1>5 DEF LoadNext
  <2>2. q \in Thread /\ q.unused = thr[t].unused /\ q.pc # "undo"
    BY <1>1, <1>2 DEF Thread, PC
  <2>3. ThreadOK(t)'
    <3>1. thr'[t] = q
      BY <1>1, <2>1
    <3> QED
      BY <1>1, <1>2, <1>3, <3>1 DEF ThreadOK, At, Thread
  <2> QED
    BY <1>1, <1>5, <2>1, <2>2, <2>3, CallStep DEF Becomes, memory, At, LoadNext
<1>6. CASE CreateFails(t)
  <2> DEFINE q == [thr[t] EXCEPT !.pc = "next_again"]
  <2>1. thr' = [thr EXCEPT ![t] = q]
    BY <1>6 DEF CreateFails, Goto
  <2>2. q \in Thread /\ q.unused = thr[t].unused /\ q.pc # "undo"
    BY <1>1 DEF Thread, PC
  <2>3. ThreadOK(t)'
    <3>1. thr'[t] = q
      BY <1>1, <2>1
    <3> QED
      BY <1>1, <1>3, <3>1 DEF ThreadOK, At, Thread
  <2> QED
    BY <1>1, <1>6, <2>1, <2>2, <2>3, CallStep DEF Becomes, memory, At, CreateFails
<1>7. CASE LoadNextAgain(t)
  <2> DEFINE q == [thr[t] EXCEPT !.found = n,
                     !.pc = IF n # NoRegion THEN "move" ELSE "finish"]
  <2>1. thr' = [thr EXCEPT ![t] = q]
    BY <1>1, <1>7 DEF LoadNextAgain
  <2>2. q \in Thread /\ q.unused = thr[t].unused /\ q.pc # "undo"
    BY <1>1, <1>2 DEF Thread, PC
  <2>3. ThreadOK(t)'
    <3>1. thr'[t] = q
      BY <1>1, <2>1
    <3> QED
      BY <1>1, <1>2, <1>3, <3>1 DEF ThreadOK, At, Thread
  <2> QED
    BY <1>1, <1>7, <2>1, <2>2, <2>3, CallStep DEF Becomes, memory, At, LoadNextAgain
<1> QED
  BY <1>4, <1>5, <1>6, <1>7

\* The call goes on with the region found, after m_curr_region has followed.
LEMMA MovesOn ==
    ASSUME IInv, NEW t \in Threads, MoveOn(t)
    PROVE  IInv'
<1>1. /\ thr[t] \in Thread /\ ThreadOK(t) /\ At(t, "move") /\ m_curr_region \in Linked
  BY DEF IInv, TypeOK, ThreadsOK, RegionsIntact, MoveOn
<1>2. thr[t].found \in Linked
  BY <1>1 DEF ThreadOK
<1> QED
  BY <1>1, <1>2, VisitStep DEF MoveOn, IInv, TypeOK, At

---------------------------------------------------------------------------
(* The steps that move m_curr *)

\* A page is taken from region r by a call that has not overshot: the pointer
\* was within the region, so nobody has.
LEMMA Takes ==
    ASSUME TypeOK, PagesExact, NEW t \in Threads, NEW q, Becomes(t, q),
           ~At(t, "undo"), q.pc # "undo",
           NEW r \in Regions, m_curr[r] < Capacity[r],
           m_curr' = [m_curr EXCEPT ![r] = @ + 1], Give(<<r, m_curr[r]>>)
    PROVE  /\ PagesExact' /\ m_curr' \in [Regions -> Nat] /\ given' \in [Page -> Nat]
           /\ <<r, m_curr[r]>> \in Page /\ given[<<r, m_curr[r]>>] = 0
<1> DEFINE p == <<r, m_curr[r]>>
<1>1. \A s \in Regions : Undoing(s)' = Undoing(s)
  BY DEF Undoing, At, Becomes, TypeOK
<1>2. m_curr[r] \in Nat /\ Capacity[r] \in Nat /\ RegionExact(r)
  BY RegionAssumption DEF TypeOK, PagesExact
<1>3. Undoing(r) = {} /\ Used(r) = m_curr[r]
  BY <1>2, UndoingFinite, FS_EmptySet DEF RegionExact, Used
<1>4. m_curr[r] \in 0 .. Capacity[r] - 1
  BY <1>2
<1>5. p \in Page
  BY <1>4 DEF Page
<1>6. given[p] = 0
  BY <1>2, <1>3, <1>4 DEF RegionExact
<1>7. given' = [given EXCEPT ![p] = 1]
  BY <1>5, <1>6 DEF Give, TypeOK
<1>8. ASSUME NEW s \in Regions, s # r PROVE RegionExact(s)'
  <2>1. Used(s)' = Used(s) /\ m_curr'[s] = m_curr[s]
    BY <1>1, <1>8 DEF Used, TypeOK
  <2>2. \A i \in 0 .. Capacity[s] - 1 : <<s, i>> \in Page /\ given'[<<s, i>>] = given[<<s, i>>]
    BY <1>7, <1>8 DEF Page, TypeOK
  <2> QED
    BY <1>1, <2>1, <2>2 DEF PagesExact, RegionExact
<1>9. RegionExact(r)'
  <2>1. m_curr'[r] = m_curr[r] + 1 /\ Used(r)' = m_curr[r] + 1 /\ Undoing(r)' = {}
    <3>1. m_curr'[r] = m_curr[r] + 1
      BY DEF TypeOK
    <3>2. Undoing(r)' = {} /\ Cardinality(Undoing(r)') = 0
      BY <1>1, <1>3, FS_EmptySet
    <3> QED
      BY <1>2, <3>1, <3>2 DEF Used
  <2>2. ASSUME NEW i \in 0 .. Capacity[r] - 1
        PROVE  given'[<<r, i>>] = IF i < m_curr[r] + 1 THEN 1 ELSE 0
    <3>1. <<r, i>> \in Page
      BY DEF Page
    <3>2. given'[<<r, i>>] = IF i = m_curr[r] THEN 1 ELSE given[<<r, i>>]
      BY <1>7, <3>1 DEF TypeOK
    <3> QED
      BY <1>2, <1>3, <3>2 DEF RegionExact
  <2>3. Cardinality(Undoing(r)') <= m_curr'[r]
    BY <1>2, <2>1, FS_EmptySet
  <2> QED
    BY <1>2, <2>1, <2>2, <2>3 DEF RegionExact
<1>10. m_curr' \in [Regions -> Nat] /\ given' \in [Page -> Nat]
  <2>1. m_curr[r] + 1 \in Nat
    BY <1>2
  <2>2. m_curr' \in [Regions -> Nat]
    BY <2>1 DEF TypeOK
  <2>3. given' \in [Page -> Nat]
    BY <1>7 DEF TypeOK
  <2> QED
    BY <2>2, <2>3
<1> QED
  BY <1>5, <1>6, <1>8, <1>9, <1>10 DEF PagesExact

\* A call overshoots region r, which is full, or undoes it.
LEMMA Overshoots ==
    ASSUME TypeOK, PagesExact, NEW t \in Threads, NEW q, Becomes(t, q), NEW r \in Regions,
           thr[t].region = r, q.region = r, UNCHANGED given,
           \/ /\ ~At(t, "undo") /\ q.pc = "undo" /\ m_curr[r] >= Capacity[r]
              /\ m_curr' = [m_curr EXCEPT ![r] = @ + 1]
           \/ /\ At(t, "undo") /\ q.pc # "undo"
              /\ m_curr' = [m_curr EXCEPT ![r] = @ - 1]
    PROVE  PagesExact' /\ m_curr' \in [Regions -> Nat]
<1>1. m_curr[r] \in Nat /\ Capacity[r] \in Nat /\ RegionExact(r)
  BY RegionAssumption DEF TypeOK, PagesExact
<1>2. ASSUME NEW s \in Regions, s # r PROVE RegionExact(s)'
  <2>1. Undoing(s)' = Undoing(s)
    BY <1>2 DEF Undoing, At, Becomes, TypeOK
  <2>2. Used(s)' = Used(s) /\ m_curr'[s] = m_curr[s]
    BY <1>2, <2>1 DEF Used, TypeOK
  <2> QED
    BY <2>1, <2>2 DEF PagesExact, RegionExact
<1>3. CASE ~At(t, "undo")
  <2>1. Undoing(r)' = Undoing(r) \cup {t} /\ t \notin Undoing(r)
    BY <1>3 DEF Undoing, At, Becomes, TypeOK
  <2>2. Cardinality(Undoing(r)') = Cardinality(Undoing(r)) + 1
    BY <2>1, UndoingFinite, FS_AddElement
  <2>3. m_curr'[r] = m_curr[r] + 1
    BY <1>1, <1>3 DEF TypeOK
  <2>4. Used(r)' = Used(r)
    BY <1>1, <2>2, <2>3, UndoingFinite DEF Used
  <2>5. Used(r) = Capacity[r]
    <3>1. CASE Undoing(r) = {}
      BY <1>1, <1>3, <3>1, FS_EmptySet DEF RegionExact, Used
    <3> QED
      BY <1>1, <3>1 DEF RegionExact
  <2>6. Cardinality(Undoing(r)') <= m_curr'[r]
    BY <1>1, <2>2, <2>3, UndoingFinite DEF RegionExact
  <2>7. RegionExact(r)'
    BY <1>1, <2>4, <2>5, <2>6 DEF RegionExact
  <2> QED
    BY <1>1, <1>2, <1>3, <2>7 DEF PagesExact, TypeOK
<1>4. CASE At(t, "undo")
  <2>1. Undoing(r)' = Undoing(r) \ {t} /\ t \in Undoing(r)
    BY <1>4 DEF Undoing, At, Becomes, TypeOK
  <2>2. Cardinality(Undoing(r)') = Cardinality(Undoing(r)) - 1
    BY <2>1, UndoingFinite, FS_RemoveElement
  <2>3. m_curr'[r] = m_curr[r] - 1 /\ m_curr[r] > 0
    <3>1. Cardinality(Undoing(r)) > 0
      BY <2>1, UndoingFinite, FS_EmptySet
    <3> QED
      BY <1>1, <1>4, <3>1, UndoingFinite DEF TypeOK, RegionExact
  <2>4. Used(r)' = Used(r)
    BY <1>1, <2>2, <2>3, UndoingFinite DEF Used
  <2>5. Used(r) = Capacity[r]
    BY <1>1, <2>1 DEF RegionExact
  <2>6. Cardinality(Undoing(r)') <= m_curr'[r]
    BY <1>1, <2>2, <2>3, UndoingFinite DEF RegionExact
  <2>7. RegionExact(r)'
    BY <1>1, <2>4, <2>5, <2>6 DEF RegionExact
  <2> QED
    BY <1>1, <1>2, <1>4, <2>3, <2>7 DEF PagesExact, TypeOK
<1> QED
  BY <1>3, <1>4

\* The list is not touched by the steps that move m_curr of a region in it.
LEMMA PointerStep ==
    ASSUME IInv, NEW t \in Threads, NEW q, Becomes(t, q), q.unused = thr[t].unused,
           ThreadOK(t)', PagesExact', m_curr' \in [Regions -> Nat], given' \in [Page -> Nat],
           \A r \in Regions : r # thr[t].region => m_curr'[r] = m_curr[r],
           UNCHANGED <<m_curr_region, m_next_region, m_cumulative_available_memory, created>>
    PROVE  IInv'
<1>1. thr[t].region \in Linked /\ m_curr_region \in Linked
  BY DEF IInv, ThreadsOK, ThreadOK, RegionsIntact
<1>2. RegionsIntact' /\ UnlinkedFresh' /\ Linked' = Linked
  BY <1>1, RegionsKept DEF IInv
<1>3. thr' \in [Threads -> Thread] /\ ThreadsOK'
  BY <1>2, Updated DEF IInv
<1>4. TypeOK'
  BY <1>3 DEF IInv, TypeOK
<1> QED
  BY <1>2, <1>3, <1>4 DEF IInv

\* Unless the call is wait-free: the fetch_add gives a page, or passes the end.
LEMMA FetchAdds ==
    ASSUME IInv, NEW t \in Threads, FetchAdd(t)
    PROVE  IInv' /\ (UNCHANGED given \/ \E p \in Page : given[p] = 0 /\ Give(p))
<1> DEFINE r == thr[t].region
           pc == IF m_curr[r] < Capacity[r] THEN "finish" ELSE "undo"
           q == [thr[t] EXCEPT !.pc = pc]
<1>1. /\ thr \in [Threads -> Thread] /\ thr[t] \in Thread /\ ThreadOK(t) /\ At(t, "allocate")
      /\ m_curr \in [Regions -> Nat] /\ r \in Regions
  BY DEF IInv, TypeOK, ThreadsOK, FetchAdd, Thread
<1>2. Becomes(t, q) /\ q.unused = thr[t].unused /\ q.region = r /\ q.pc = pc
  BY <1>1 DEF FetchAdd, Goto, Becomes, Thread, PC
<1>3. ThreadOK(t)'
  <2>1. thr'[t] = q /\ Linked' = Linked
    BY <1>1, <1>2 DEF Becomes, Linked, FetchAdd
  <2> QED
    BY <1>1, <2>1 DEF ThreadOK, At, Thread
<1>4. m_curr' = [m_curr EXCEPT ![r] = @ + 1]
  BY DEF FetchAdd
<1>5. m_curr[r] \in Nat /\ Capacity[r] \in Nat /\ TypeOK /\ PagesExact
  BY <1>1, RegionAssumption DEF IInv
<1>6. CASE m_curr[r] < Capacity[r]
  <2>1. Give(<<r, m_curr[r]>>) /\ q.pc # "undo" /\ ~At(t, "undo")
    BY <1>1, <1>2, <1>6 DEF FetchAdd, At
  <2> HIDE DEF q, pc
  <2>2. /\ PagesExact' /\ m_curr' \in [Regions -> Nat] /\ given' \in [Page -> Nat]
        /\ <<r, m_curr[r]>> \in Page /\ given[<<r, m_curr[r]>>] = 0
    BY <1>1, <1>2, <1>4, <1>5, <1>6, <2>1, Takes
  <2> QED
    BY <1>1, <1>2, <1>3, <1>4, <2>1, <2>2, PointerStep DEF FetchAdd
<1>7. CASE ~(m_curr[r] < Capacity[r])
  <2>1. UNCHANGED given /\ q.pc = "undo" /\ ~At(t, "undo") /\ m_curr[r] >= Capacity[r]
    BY <1>1, <1>2, <1>5, <1>7 DEF FetchAdd, At
  <2> HIDE DEF q, pc
  <2>2. PagesExact' /\ m_curr' \in [Regions -> Nat]
    BY <1>1, <1>2, <1>4, <1>5, <2>1, Overshoots
  <2>3. given' \in [Page -> Nat]
    BY <1>5, <2>1 DEF TypeOK
  <2> QED
    BY <1>1, <1>2, <1>3, <1>4, <2>1, <2>2, <2>3, PointerStep DEF FetchAdd
<1> QED
  BY <1>6, <1>7

\* ... and the fetch_sub takes back what passed the end.
LEMMA FetchSubs ==
    ASSUME IInv, NEW t \in Threads, FetchSub(t)
    PROVE  IInv'
<1> DEFINE r == thr[t].region
           q == [thr[t] EXCEPT !.pc = "next"]
<1>1. /\ thr \in [Threads -> Thread] /\ thr[t] \in Thread /\ ThreadOK(t) /\ At(t, "undo")
      /\ m_curr \in [Regions -> Nat] /\ r \in Regions /\ TypeOK /\ PagesExact
  BY DEF IInv, TypeOK, ThreadsOK, FetchSub, Thread
<1>2. Becomes(t, q) /\ q.unused = thr[t].unused /\ q.region = r /\ q.pc # "undo"
  BY <1>1 DEF FetchSub, Goto, Becomes, Thread, PC
<1>3. ThreadOK(t)'
  <2>1. thr'[t] = q /\ Linked' = Linked
    BY <1>1, <1>2 DEF Becomes, Linked, FetchSub
  <2> QED
    BY <1>1, <2>1 DEF ThreadOK, At, Thread
<1>4. m_curr' = [m_curr EXCEPT ![r] = @ - 1] /\ UNCHANGED given
  BY DEF FetchSub
<1> HIDE DEF q
<1>5. PagesExact' /\ m_curr' \in [Regions -> Nat]
  BY <1>1, <1>2, <1>4, Overshoots
<1>6. given' \in [Page -> Nat]
  BY <1>1, <1>4 DEF TypeOK
<1> QED
  BY <1>1, <1>2, <1>3, <1>4, <1>5, <1>6, PointerStep DEF FetchSub

\* A wait-free call: the CAS gives the page it has seen free, or nothing.
LEMMA CompareExchanges ==
    ASSUME IInv, NEW t \in Threads, CompareExchange(t)
    PROVE  IInv' /\ (UNCHANGED given \/ \E p \in Page : given[p] = 0 /\ Give(p))
<1> DEFINE r == thr[t].region
           q == [thr[t] EXCEPT !.pc = "finish"]
<1>1. /\ thr \in [Threads -> Thread] /\ thr[t] \in Thread /\ ThreadOK(t)
      /\ At(t, "compare_exchange") /\ m_curr \in [Regions -> Nat] /\ r \in Regions
      /\ TypeOK /\ PagesExact
  BY DEF IInv, TypeOK, ThreadsOK, CompareExchange, Thread
<1>2. /\ Becomes(t, q) /\ q.unused = thr[t].unused /\ q.region = r /\ q.pc # "undo"
      /\ ~At(t, "undo")
  BY <1>1 DEF CompareExchange, Goto, Becomes, Thread, PC, At
<1>3. ThreadOK(t)'
  <2>1. thr'[t] = q /\ Linked' = Linked
    BY <1>1, <1>2 DEF Becomes, Linked, CompareExchange
  <2> QED
    BY <1>1, <2>1 DEF ThreadOK, At, Thread
<1> HIDE DEF q
<1>4. CASE UNCHANGED <<m_curr, given>>
  <2>1. PagesExact'
    BY <1>1, <1>2, <1>4, PagesKept
  <2> QED
    BY <1>1, <1>2, <1>3, <1>4, <2>1, PointerStep DEF CompareExchange, TypeOK
<1>5. CASE m_curr[r] = thr[t].seen /\ m_curr' = [m_curr EXCEPT ![r] = @ + 1]
           /\ Give(<<r, thr[t].seen>>)
  <2>1. m_curr[r] < Capacity[r] /\ Give(<<r, m_curr[r]>>)
    BY <1>1, <1>5 DEF ThreadOK
  <2>2. /\ PagesExact' /\ m_curr' \in [Regions -> Nat] /\ given' \in [Page -> Nat]
        /\ <<r, m_curr[r]>> \in Page /\ given[<<r, m_curr[r]>>] = 0
    BY <1>1, <1>2, <1>5, <2>1, Takes
  <2> QED
    BY <1>1, <1>2, <1>3, <1>5, <2>1, <2>2, PointerStep DEF CompareExchange
<1> QED
  BY <1>4, <1>5 DEF CompareExchange

---------------------------------------------------------------------------
(* The steps that change the list, or who owns a region outside it *)

\* A new region belongs to the call that creates it.
LEMMA Creates ==
    ASSUME IInv, NEW t \in Threads, CreateRegion(t)
    PROVE  IInv'
<1>1. PICK n \in Regions \ created :
        /\ created' = created \cup {n}
        /\ m_curr' = [m_curr EXCEPT ![n] = 0]
        /\ m_next_region' = [m_next_region EXCEPT ![n] = NoRegion]
        /\ thr' = [thr EXCEPT ![t].pc = "link", ![t].unused = n]
        /\ UNCHANGED <<m_curr_region, m_cumulative_available_memory, given>>
  BY DEF CreateRegion
<1> DEFINE q == [thr[t] EXCEPT !.pc = "link", !.unused = n]
<1>2. /\ TypeOK /\ PagesExact /\ RegionsIntact /\ ThreadsOK /\ UnlinkedFresh
      /\ thr \in [Threads -> Thread] /\ thr[t] \in Thread /\ ThreadOK(t)
      /\ At(t, "create") /\ thr[t].unused = NoRegion
  BY DEF IInv, TypeOK, ThreadsOK, ThreadOK, CreateRegion
<1>3. n \notin Linked /\ n # NoRegion /\ \A u \in Threads : thr[u].unused # n
  BY <1>2, RegionAssumption DEF RegionsIntact
<1>4. m_curr' = m_curr /\ m_next_region' = m_next_region
  BY <1>1, <1>2, <1>3 DEF UnlinkedFresh, TypeOK
<1>5. Linked' = Linked
  BY <1>4 DEF Linked
<1>6. Becomes(t, q) /\ q.pc = "link" /\ q.unused = n
  BY <1>1, <1>2 DEF Becomes, Thread, PC, RegionOrNull
<1>7. thr'[t] = q /\ \A u \in Threads : u # t => thr'[u] = thr[u]
  BY <1>2, <1>6 DEF Becomes
<1>7a. thr'[t].unused = n /\ \A u \in Threads : u # t => thr'[u].unused = thr[u].unused
  BY <1>6, <1>7
<1>8. ThreadOK(t)'
  BY <1>2, <1>3, <1>5, <1>7 DEF ThreadOK, At, Thread
<1>9. PagesExact'
  <2>1. ~At(t, "undo") /\ q.pc # "undo"
    BY <1>2, <1>6 DEF At
  <2> QED
    BY <1>1, <1>2, <1>4, <1>6, <2>1, PagesKept
<1>10. RegionsIntact'
  <2>1. created' = Linked' \cup ({thr'[u].unused : u \in Threads} \ {NoRegion})
    <3>1. {thr'[u].unused : u \in Threads} \ {NoRegion}
            = ({thr[u].unused : u \in Threads} \ {NoRegion}) \cup {n}
      BY <1>2, <1>3, <1>7a
    <3> QED
      BY <1>1, <1>2, <1>5, <3>1 DEF RegionsIntact
  <2>2. \A u \in Threads : thr'[u].unused \notin Linked'
    BY <1>2, <1>3, <1>5, <1>7a DEF RegionsIntact
  <2>3. \A u, w \in Threads : u # w /\ thr'[u].unused = thr'[w].unused
                                => thr'[u].unused = NoRegion
    BY <1>2, <1>3, <1>7a DEF RegionsIntact
  <2> QED
    BY <1>1, <1>2, <1>4, <1>5, <2>1, <2>2, <2>3 DEF RegionsIntact
<1>11. UnlinkedFresh'
  BY <1>2, <1>4, <1>5 DEF UnlinkedFresh
<1>12. thr' \in [Threads -> Thread] /\ ThreadsOK'
  BY <1>2, <1>5, <1>6, <1>8, Updated
<1>13. TypeOK'
  BY <1>1, <1>2, <1>4, <1>12 DEF TypeOK
<1> QED
  BY <1>9, <1>10, <1>11, <1>12, <1>13 DEF IInv

\* A call that returns destroys the region it has not linked.
LEMMA Finishes ==
    ASSUME IInv, NEW t \in Threads, Finish(t)
    PROVE  IInv'
<1>1. /\ TypeOK /\ PagesExact /\ RegionsIntact /\ ThreadsOK /\ UnlinkedFresh
      /\ thr \in [Threads -> Thread] /\ At(t, "finish")
      /\ thr' = [thr EXCEPT ![t] = NewThread] /\ created' = created \ {thr[t].unused}
      /\ UNCHANGED <<m_curr_region, m_curr, m_next_region, m_cumulative_available_memory, given>>
  BY DEF IInv, TypeOK, Finish
<1>2. Linked' = Linked
  BY <1>1 DEF Linked
<1>3. Becomes(t, NewThread) /\ NewThread.unused = NoRegion /\ NewThread.pc = "idle"
  BY <1>1, RegionAssumption DEF Becomes, NewThread, Thread, PC, RegionOrNull
<1>4. thr'[t] = NewThread /\ \A u \in Threads : u # t => thr'[u] = thr[u]
  BY <1>1
<1>5. ThreadOK(t)'
  BY <1>1, <1>2, <1>4, LinkedTypes DEF ThreadOK, At, NewThread
<1>6. PagesExact'
  BY <1>1, <1>3, PagesKept DEF At
<1>7. RegionsIntact'
  <2>1. created' = Linked' \cup ({thr'[u].unused : u \in Threads} \ {NoRegion})
    <3>1. {thr'[u].unused : u \in Threads} \ {NoRegion}
            = ({thr[u].unused : u \in Threads} \ {NoRegion}) \ {thr[t].unused}
      BY <1>1, <1>3, <1>4 DEF RegionsIntact
    <3>2. thr[t].unused \notin Linked
      BY <1>1 DEF RegionsIntact
    <3> QED
      BY <1>1, <1>2, <3>1, <3>2 DEF RegionsIntact
  <2>2. \A u \in Threads : thr'[u].unused \notin Linked'
    BY <1>1, <1>2, <1>3, <1>4, LinkedTypes DEF RegionsIntact
  <2>3. \A u, w \in Threads : u # w /\ thr'[u].unused = thr'[w].unused
                                => thr'[u].unused = NoRegion
    BY <1>1, <1>3, <1>4 DEF RegionsIntact
  <2> QED
    BY <1>1, <1>2, <2>1, <2>2, <2>3 DEF RegionsIntact
<1>8. UnlinkedFresh'
  BY <1>1, <1>2 DEF UnlinkedFresh
<1>9. thr' \in [Threads -> Thread] /\ ThreadsOK'
  BY <1>1, <1>2, <1>3, <1>5, Updated
<1>10. TypeOK'
  BY <1>1, <1>9 DEF TypeOK
<1> QED
  BY <1>6, <1>7, <1>8, <1>9, <1>10 DEF IInv

\* A private region enters the list, or waits for another place.
LEMMA Links ==
    ASSUME IInv, NEW t \in Threads, LinkRegion(t)
    PROVE  IInv'
<1> DEFINE r == thr[t].region
           n == thr[t].unused
<1>1. /\ TypeOK /\ PagesExact /\ RegionsIntact /\ ThreadsOK /\ UnlinkedFresh
      /\ thr \in [Threads -> Thread] /\ thr[t] \in Thread /\ ThreadOK(t) /\ At(t, "link")
      /\ UNCHANGED <<m_curr_region, m_curr, created, given>>
      /\ m_cumulative_available_memory' = [m_cumulative_available_memory EXCEPT
                                 ![n] = m_cumulative_available_memory[r] + Capacity[n]]
  BY DEF IInv, TypeOK, ThreadsOK, LinkRegion, Cumulative
<1>2. /\ n \in Regions \ Linked /\ r \in Linked /\ r \in Regions /\ n # NoRegion
      /\ \A s \in Regions : m_next_region[s] # n
  BY <1>1, LinkedTypes DEF ThreadOK, Thread, RegionOrNull, RegionsIntact, Linked
<1>3. m_cumulative_available_memory' \in [Regions -> Nat]
  <2>1. m_cumulative_available_memory[r] + Capacity[n] \in Nat
    <3>1. m_cumulative_available_memory[r] \in Nat /\ Capacity[n] \in Nat
      BY <1>1, <1>2, RegionAssumption DEF TypeOK
    <3> QED
      BY <3>1
  <2> QED
    BY <1>1, <2>1 DEF TypeOK
<1>4. \A s \in Linked : m_cumulative_available_memory'[s] = m_cumulative_available_memory[s]
  BY <1>1, <1>2, LinkedTypes DEF TypeOK
<1>5. CASE m_next_region[r] = NoRegion
  <2> DEFINE q == [thr[t] EXCEPT !.pc = "move", !.found = n, !.unused = NoRegion]
  <2>1. /\ m_next_region' = [m_next_region EXCEPT ![r] = n]
        /\ thr' = [thr EXCEPT ![t] = q]
    BY <1>1, <1>5 DEF LinkRegion
  <2>2. Becomes(t, q) /\ q.pc = "move" /\ q.unused = NoRegion
    BY <1>1, <1>2, <2>1 DEF Becomes, Thread, PC, RegionOrNull
  <2>3. thr'[t] = q /\ \A u \in Threads : u # t => thr'[u] = thr[u]
    BY <1>1, <2>1
  <2>3a. thr'[t].unused = NoRegion /\ \A u \in Threads : u # t => thr'[u].unused = thr[u].unused
    BY <2>2, <2>3
  <2>4. m_next_region' \in [Regions -> RegionOrNull]
    BY <1>1, <1>2, <2>1 DEF TypeOK, RegionOrNull
  <2>5. /\ m_next_region'[r] = n
        /\ \A s \in Regions : s # r => m_next_region'[s] = m_next_region[s]
    BY <1>1, <1>2, <2>1 DEF TypeOK
  <2>6. Linked' = Linked \cup {n}
    BY <1>2, <1>5, <2>5 DEF Linked
  <2>7. ThreadOK(t)'
    BY <1>1, <1>2, <2>3, <2>6 DEF ThreadOK, At, Thread
  <2>8. PagesExact'
    BY <1>1, <2>2, PagesKept DEF At
  <2>9. RegionsIntact'
    <3>1. created' = Linked' \cup ({thr'[u].unused : u \in Threads} \ {NoRegion})
      <4>1. {thr'[u].unused : u \in Threads} \ {NoRegion}
              = ({thr[u].unused : u \in Threads} \ {NoRegion}) \ {n}
        <5>1. \A u \in Threads : u # t => thr[u].unused # n
          BY <1>1, <1>2 DEF RegionsIntact
        <5> QED
          BY <2>3a, <5>1
      <4>2. n \in created
        BY <1>1, <1>2 DEF RegionsIntact
      <4> QED
        BY <1>1, <1>2, <2>6, <4>1, <4>2 DEF RegionsIntact
    <3>2. \A u \in Threads : thr'[u].unused \notin Linked'
      <4>1. \A u \in Threads : u # t => thr[u].unused # n /\ thr[u].unused \notin Linked
        BY <1>1, <1>2 DEF RegionsIntact
      <4> QED
        BY <1>1, <1>2, <2>3a, <2>6, <4>1, LinkedTypes
    <3>3. \A u, w \in Threads : u # w /\ thr'[u].unused = thr'[w].unused
                                  => thr'[u].unused = NoRegion
      BY <1>1, <2>3a DEF RegionsIntact
    <3>4. \A s, w \in Regions : s # w /\ m_next_region'[s] = m_next_region'[w]
                                  => m_next_region'[s] = NoRegion
      BY <1>1, <1>2, <2>5 DEF RegionsIntact
    <3>5. ASSUME NEW s \in Regions, m_next_region'[s] # NoRegion
          PROVE  m_cumulative_available_memory'[m_next_region'[s]]
                   = m_cumulative_available_memory'[s] + Capacity[m_next_region'[s]]
      <4>1. CASE s = r
        BY <1>1, <1>2, <1>4, <2>5, <4>1 DEF TypeOK
      <4>2. CASE s # r
        <5>1. m_next_region'[s] = m_next_region[s] /\ m_next_region[s] \in Linked
          BY <2>5, <3>5, <4>2 DEF Linked
        <5>2. s \in Linked
          BY <1>1, <3>5, <5>1 DEF UnlinkedFresh
        <5> QED
          BY <1>1, <1>4, <3>5, <5>1, <5>2 DEF RegionsIntact
      <4> QED
        BY <4>1, <4>2
    <3>6. m_curr_region' \in Linked'
      BY <1>1, <2>6 DEF RegionsIntact
    <3> QED
      BY <3>1, <3>2, <3>3, <3>4, <3>5, <3>6 DEF RegionsIntact
  <2>10. UnlinkedFresh'
    BY <1>1, <1>2, <2>5, <2>6 DEF UnlinkedFresh
  <2>11. thr' \in [Threads -> Thread] /\ ThreadsOK'
    BY <1>1, <2>2, <2>6, <2>7, Updated
  <2>12. TypeOK'
    BY <1>1, <1>3, <2>4, <2>11 DEF TypeOK
  <2> QED
    BY <2>8, <2>9, <2>10, <2>11, <2>12 DEF IInv
<1>6. CASE m_next_region[r] # NoRegion
  <2> DEFINE q == [thr[t] EXCEPT !.pc = "move", !.found = m_next_region[r]]
  <2>1. thr' = [thr EXCEPT ![t] = q] /\ m_next_region' = m_next_region
    BY <1>1, <1>6 DEF LinkRegion
  <2>2. m_next_region[r] \in Linked
    BY <1>2, <1>6 DEF Linked
  <2>3. Becomes(t, q) /\ q.pc = "move" /\ q.unused = thr[t].unused
    BY <1>1, <2>1, <2>2, LinkedTypes DEF Becomes, Thread, PC, RegionOrNull
  <2>4. thr'[t] = q /\ \A u \in Threads : u # t => thr'[u] = thr[u]
    BY <1>1, <2>1
  <2>5. Linked' = Linked
    BY <2>1 DEF Linked
  <2>6. ThreadOK(t)'
    BY <1>1, <1>2, <1>6, <2>2, <2>4, <2>5 DEF ThreadOK, At, Thread
  <2>7. PagesExact'
    BY <1>1, <2>3, PagesKept DEF At
  <2>8. \A u \in Threads : thr'[u].unused = thr[u].unused
    BY <2>3, <2>4
  <2>9. \A s \in Regions : m_next_region[s] # NoRegion =>
          m_next_region[s] \in Linked /\ s \in Linked
    BY <1>1 DEF UnlinkedFresh, Linked
  <2>10. RegionsIntact'
    <3>1. {thr'[u].unused : u \in Threads} = {thr[u].unused : u \in Threads}
      BY <2>8
    <3>2. \A s \in Regions : m_next_region'[s] # NoRegion =>
            m_cumulative_available_memory'[m_next_region'[s]]
              = m_cumulative_available_memory'[s] + Capacity[m_next_region'[s]]
      BY <1>1, <1>4, <2>1, <2>9 DEF RegionsIntact
    <3> QED
      BY <1>1, <2>1, <2>5, <2>8, <3>1, <3>2 DEF RegionsIntact
  <2>11. UnlinkedFresh'
    BY <1>1, <2>1, <2>5 DEF UnlinkedFresh
  <2>12. thr' \in [Threads -> Thread] /\ ThreadsOK'
    BY <1>1, <2>3, <2>5, <2>6, Updated
  <2>13. TypeOK'
    BY <1>1, <1>3, <2>1, <2>12 DEF TypeOK
  <2> QED
    BY <2>7, <2>10, <2>11, <2>12, <2>13 DEF IInv
<1> QED
  BY <1>5, <1>6

---------------------------------------------------------------------------

\* The inductive invariant holds of the state the constructor leaves.
LEMMA InitInv == Init => IInv
<1> SUFFICES ASSUME Init PROVE IInv
  OBVIOUS
<1> USE DEF Init
<1>1. Linked = {FirstRegion}
  BY RegionAssumption DEF Linked
<1>2. NewThread \in Thread /\ NewThread.pc = "idle" /\ NewThread.region = FirstRegion
      /\ NewThread.found = NoRegion /\ NewThread.unused = NoRegion
  BY RegionAssumption DEF NewThread, Thread, PC, RegionOrNull
<1>3. TypeOK
  BY <1>2, RegionAssumption DEF TypeOK, RegionOrNull
<1>4. ThreadsOK
  BY <1>1, <1>2 DEF ThreadsOK, ThreadOK, At
<1>5. RegionsIntact /\ UnlinkedFresh
  BY <1>1, <1>2, RegionAssumption DEF RegionsIntact, UnlinkedFresh
<1>6. ASSUME NEW r \in Regions PROVE RegionExact(r)
  <2>1. Undoing(r) = {} /\ Cardinality(Undoing(r)) = 0
    BY <1>2, FS_EmptySet DEF Undoing, At
  <2>2. Used(r) = 0 /\ Capacity[r] \in Nat
    BY <2>1, RegionAssumption DEF Used
  <2>3. \A i \in 0 .. Capacity[r] - 1 : <<r, i>> \in Page /\ given[<<r, i>>] = 0
    BY DEF Page
  <2> QED
    BY <2>1, <2>2, <2>3 DEF RegionExact
<1> QED
  BY <1>3, <1>4, <1>5, <1>6 DEF IInv, PagesExact

\* Every step keeps the invariant, and gives at most one page, a new one.
LEMMA NextInv ==
    ASSUME IInv, [Next]_vars
    PROVE  IInv' /\ (UNCHANGED given \/ \E p \in Page : given[p] = 0 /\ Give(p))
<1>1. CASE UNCHANGED vars
  <2>1. TypeOK' /\ Linked' = Linked /\ ThreadsOK'
    BY <1>1 DEF vars, IInv, TypeOK, Linked, ThreadsOK, ThreadOK, At
  <2>2. \A r \in Regions : Undoing(r)' = Undoing(r)
    BY <1>1 DEF vars, Undoing, At
  <2>3. PagesExact'
    BY <1>1, <2>2 DEF vars, IInv, PagesExact, RegionExact, Used
  <2>4. RegionsIntact' /\ UnlinkedFresh'
    BY <1>1, <2>1 DEF vars, IInv, RegionsIntact, UnlinkedFresh
  <2> QED
    BY <1>1, <2>1, <2>3, <2>4 DEF vars, IInv
<1>2. ASSUME NEW t \in Threads,
             \/ \E g \in Guarantees : TryAllocatePage(t, g)
             \/ \E g \in Guarantees, size \in Reservations : TryReserve(t, g, size)
      PROVE  IInv' /\ UNCHANGED given
  BY <1>2, Starts DEF TryAllocatePage, TryReserve
<1>3. ASSUME NEW t \in Threads, Step(t)
      PROVE  IInv' /\ (UNCHANGED given \/ \E p \in Page : given[p] = 0 /\ Give(p))
  <2>1. CASE FetchAdd(t)
    BY <2>1, FetchAdds
  <2>2. CASE FetchSub(t)
    BY <2>2, FetchSubs DEF FetchSub
  <2>3. CASE LoadCurr(t)
    BY <2>3, Looks DEF LoadCurr
  <2>4. CASE CompareExchange(t)
    BY <2>4, CompareExchanges
  <2>5. CASE LoadNext(t)
    BY <2>5, Looks DEF LoadNext
  <2>6. CASE CreateRegion(t)
    BY <2>6, Creates DEF CreateRegion
  <2>7. CASE CreateFails(t)
    BY <2>7, Looks DEF CreateFails
  <2>8. CASE LoadNextAgain(t)
    BY <2>8, Looks DEF LoadNextAgain
  <2>9. CASE LinkRegion(t)
    BY <2>9, Links DEF LinkRegion
  <2>10. CASE MoveOn(t)
    BY <2>10, MovesOn DEF MoveOn
  <2>11. CASE Finish(t)
    BY <2>11, Finishes DEF Finish
  <2> QED
    BY <1>3, <2>1, <2>2, <2>3, <2>4, <2>5, <2>6, <2>7, <2>8, <2>9, <2>10, <2>11 DEF Step
<1> QED
  BY <1>1, <1>2, <1>3 DEF Next

\* The inductive invariant holds whatever the numbers of threads, regions and
\* pages, and whether a weak compare-exchange fails spuriously or not.
THEOREM Invariance == Spec => []IInv
<1>1. IInv /\ [Next]_vars => IInv'
  BY NextInv
<1> QED
  BY <1>1, InitInv, PTL DEF Spec

\* The steps past the end of a region, and their undoing, neither lose a page
\* nor give one twice.
THEOREM AllPagesExact == Spec => []PagesExact
<1>1. IInv => PagesExact
  BY DEF IInv
<1> QED
  BY <1>1, Invariance, PTL

\* No region taken from the system is lost, or linked at two places.
THEOREM NoRegionLost == Spec => []RegionsIntact
<1>1. IInv => RegionsIntact
  BY DEF IInv
<1> QED
  BY <1>1, Invariance, PTL

\* The system page manager implements a source of pages that gives each once.
THEOREM Refinement == Spec => SourceSpec
<1>1. Init => Source!Init
  BY DEF Init, Source!Init
<1>2. IInv /\ [Next]_vars => [Source!Next]_given
  BY NextInv DEF Source!Next, Source!Give, Give
<1> QED
  BY <1>1, <1>2, Invariance, PTL DEF Spec, SourceSpec, Source!Spec
==========================================================================
