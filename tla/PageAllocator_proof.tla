----------------------- MODULE PageAllocator_proof ------------------------
(***************************************************************************)
(* The page allocator keeps its types, its pin counts are exact and it     *)
(* implements the pool of pages, for any pages, threads and slots, if its  *)
(* clients pin pages in one of the two ways that MayFree tells; the run    *)
(* page_unpin shows that it does not in general.                           *)
(*                                                                         *)
(* The argument: at any moment the free pages are spread on disjoint       *)
(* lists, one for each place (a slot, a private stack, or the stack that a *)
(* call moves), each linked from its head to its end.  A step moves a list *)
(* as a whole, puts it on another, or takes one page out of it; the links  *)
(* it writes are those of pages in its own hands.  The pages to unpin are  *)
(* in lists of their own, of pages that clients have.  The sets are first  *)
(* any sets with that property, and in the end those that Chain gives.     *)
(***************************************************************************)
EXTENDS PageAllocatorLists, TLAPS, FiniteSetTheorems, WellFoundedInduction

---------------------------------------------------------------------------
(* What is done to linked lists *)

\* No page is the null pointer or the marker of a locked stack.
LEMMA PagesNotNull == NoPage \notin Pages /\ Marker \notin Pages /\ NoPage # Marker
BY AllocatorAssumption

\* A list has pages only, its first one among them.
LEMMA ListTyped ==
    ASSUME NEW nx, NEW S, NEW h, NEW last, IsList(nx, S, h, last)
    PROVE  /\ S \subseteq Pages /\ NoPage \notin S /\ h \in S \cup {NoPage}
           /\ h = NoPage <=> S = {}
           /\ last # NoPage => last \in S
           /\ h = NoPage => last = NoPage
BY PagesNotNull DEF IsList, RankedList

\* The links of other pages, and that of the last one, do not matter.
LEMMA ListFrame ==
    ASSUME NEW nx, NEW nx2, NEW S, NEW h, NEW last, IsList(nx, S, h, last),
           \A p \in S : p # last => nx2[p] = nx[p]
    PROVE  IsList(nx2, S, h, last)
<1>1. CASE h = NoPage
  BY <1>1 DEF IsList
<1>2. CASE h # NoPage
  <2>1. PICK rank \in [Pages -> Nat], end \in Pages : RankedList(rank, end, nx, S, h, last)
    BY <1>2 DEF IsList
  <2>2. RankedList(rank, end, nx2, S, h, last)
    <3>1. last # NoPage => end = last
      BY <2>1 DEF RankedList
    <3> QED
      BY <2>1, <3>1, PagesNotNull DEF RankedList
  <2>3. \E r \in [Pages -> Nat], e \in Pages : RankedList(r, e, nx2, S, h, last)
    BY <2>2
  <2> QED
    BY <1>2, <2>3 DEF IsList
<1> QED
  BY <1>1, <1>2

\* The empty list.
LEMMA NoList == ASSUME NEW nx PROVE IsList(nx, {}, NoPage, NoPage)
BY DEF IsList

\* A page by itself.
LEMMA ListOfOne == ASSUME NEW nx, NEW p \in Pages PROVE IsList(nx, {p}, p, p)
<1> DEFINE rank == [q \in Pages |-> 0]
<1>1. RankedList(rank, p, nx, {p}, p, p)
  BY PagesNotNull DEF RankedList
<1>2. rank \in [Pages -> Nat]
  OBVIOUS
<1> QED
  BY <1>1, <1>2, PagesNotNull DEF IsList

\* The first page is taken.
LEMMA ListRest ==
    ASSUME NEW nx, NEW S, NEW h, IsList(nx, S, h, NoPage), h # NoPage
    PROVE  IsList(nx, S \ {h}, nx[h], NoPage)
<1>1. PICK rank \in [Pages -> Nat], end \in Pages : RankedList(rank, end, nx, S, h, NoPage)
  BY DEF IsList
<1>2. CASE h = end
  <2>1. S = {h} /\ nx[h] = NoPage
    BY <1>1, <1>2 DEF RankedList
  <2> QED
    BY <2>1 DEF IsList
<1>3. CASE h # end
  <2>1. nx[h] \in S /\ nx[h] # h /\ nx[h] # NoPage
    BY <1>1, <1>3, PagesNotNull DEF RankedList
  <2>2. \A p \in S \ {end} : nx[p] # h
    <3> SUFFICES ASSUME NEW p \in S \ {end} PROVE rank[h] < rank[nx[p]]
      BY <1>1 DEF RankedList
    <3> QED
      BY <1>1 DEF RankedList
  <2>3. \A p \in S \ {h} : rank[nx[h]] <= rank[p]
    BY <1>1, <1>3 DEF RankedList
  <2>4. RankedList(rank, end, nx, S \ {h}, nx[h], NoPage)
    BY <1>1, <1>3, <2>1, <2>2, <2>3 DEF RankedList
  <2> QED
    BY <2>1, <2>4 DEF IsList
<1> QED
  BY <1>2, <1>3

\* A page is taken out after another one.
LEMMA ListWithout ==
    ASSUME NEW nx, NEW nx2, NEW S, NEW h, IsList(nx, S, h, NoPage), NEW a \in S, nx[a] # NoPage,
           nx2[a] = nx[nx[a]], \A p \in S \ {a} : nx2[p] = nx[p]
    PROVE  nx[a] \in S /\ IsList(nx2, S \ {nx[a]}, h, NoPage)
<1> DEFINE b == nx[a]
<1>1. h # NoPage
  BY ListTyped
<1>2. PICK rank \in [Pages -> Nat], end \in Pages : RankedList(rank, end, nx, S, h, NoPage)
  BY <1>1 DEF IsList
<1>3. a # end /\ b \in S /\ rank[a] < rank[b] /\ rank[h] <= rank[a]
  BY <1>2 DEF RankedList
<1>4. b # h /\ a # b
  BY <1>2, <1>3 DEF RankedList
<1>5. \A p \in S \ {a, end} : nx[p] # b
  <2> SUFFICES ASSUME NEW p \in S \ {a, end}, nx[p] = b PROVE FALSE
    OBVIOUS
  <2>1. rank[p] # rank[a] /\ rank[p] \in Nat /\ rank[a] \in Nat
    BY <1>2 DEF RankedList
  <2>2. CASE rank[p] < rank[a]
    BY <1>2, <1>3, <2>1, <2>2 DEF RankedList
  <2>3. CASE rank[a] < rank[p]
    BY <1>2, <1>3, <2>1, <2>3 DEF RankedList
  <2> QED
    BY <2>1, <2>2, <2>3
<1>6. CASE b = end
  <2>1. nx2[a] = NoPage
    BY <1>2, <1>6 DEF RankedList
  <2>2. \A p \in S \ {b} : rank[p] <= rank[a]
    <3> SUFFICES ASSUME NEW p \in S \ {b}, rank[a] < rank[p] PROVE FALSE
      BY <1>2, <1>3 DEF RankedList
    <3>1. rank[b] <= rank[p] /\ rank[p] <= rank[b]
      BY <1>2, <1>3, <1>6 DEF RankedList
    <3> QED
      BY <1>2, <1>3, <3>1 DEF RankedList
  <2>3. RankedList(rank, a, nx2, S \ {b}, h, NoPage)
    <3>1. \A p \in (S \ {b}) \ {a} : /\ nx2[p] = nx[p] /\ nx[p] \in S \ {b} /\ rank[p] < rank[nx[p]]
                                     /\ \A q \in S : rank[p] < rank[q] => rank[nx[p]] <= rank[q]
      BY <1>2, <1>5, <1>6 DEF RankedList
    <3> QED
      BY <1>2, <1>3, <1>4, <2>1, <2>2, <3>1 DEF RankedList
  <2> QED
    BY <1>1, <1>2, <1>3, <2>3 DEF IsList, RankedList
<1>7. CASE b # end
  <2>1. nx[b] \in S /\ rank[b] < rank[nx[b]] /\ \A q \in S : rank[b] < rank[q] => rank[nx[b]] <= rank[q]
    BY <1>2, <1>3, <1>7 DEF RankedList
  <2>2. \A q \in S \ {b} : rank[a] < rank[q] => rank[nx[b]] <= rank[q]
    <3> SUFFICES ASSUME NEW q \in S \ {b}, rank[a] < rank[q] PROVE rank[b] < rank[q]
      BY <2>1
    <3>1. rank[b] <= rank[q] /\ rank[b] # rank[q]
      BY <1>2, <1>3 DEF RankedList
    <3> QED
      BY <1>2, <1>3, <3>1 DEF RankedList
  <2>3. rank[a] < rank[nx[b]] /\ nx[b] # b
    BY <1>2, <1>3, <2>1 DEF RankedList
  <2>4. \A p \in (S \ {b}) \ {end} : /\ nx2[p] \in S \ {b} /\ rank[p] < rank[nx2[p]]
                                     /\ \A q \in S \ {b} : rank[p] < rank[q] => rank[nx2[p]] <= rank[q]
    <3> SUFFICES ASSUME NEW p \in (S \ {b}) \ {end}
                 PROVE  /\ nx2[p] \in S \ {b} /\ rank[p] < rank[nx2[p]]
                        /\ \A q \in S \ {b} : rank[p] < rank[q] => rank[nx2[p]] <= rank[q]
      OBVIOUS
    <3>1. CASE p = a
      BY <2>1, <2>2, <2>3, <3>1
    <3>2. CASE p # a
      BY <1>2, <1>5, <3>2 DEF RankedList
    <3> QED
      BY <3>1, <3>2
  <2>5. nx2[end] = NoPage
    BY <1>2, <1>3 DEF RankedList
  <2>6. RankedList(rank, end, nx2, S \ {b}, h, NoPage)
    BY <1>2, <1>4, <1>7, <2>4, <2>5 DEF RankedList
  <2> QED
    BY <1>1, <1>3, <2>6 DEF IsList
<1> QED
  BY <1>6, <1>7

\* One list is put before another.
LEMMA ListJoined ==
    ASSUME NEW nx, NEW A, NEW h, NEW z, IsList(nx, A, h, z), z # NoPage,
           NEW B, IsList(nx, B, nx[z], NoPage), A \cap B = {}
    PROVE  IsList(nx, A \cup B, h, NoPage)
<1>1. h # NoPage /\ z \in A
  BY ListTyped
<1>2. PICK r \in [Pages -> Nat] : RankedList(r, z, nx, A, h, z)
  BY <1>1 DEF IsList, RankedList
<1>3. CASE nx[z] = NoPage
  <2>1. B = {}
    BY <1>3, ListTyped
  <2>2. RankedList(r, z, nx, A, h, NoPage)
    BY <1>2, <1>3 DEF RankedList
  <2> QED
    BY <1>1, <1>2, <2>1, <2>2 DEF IsList, RankedList
<1>4. CASE nx[z] # NoPage
  <2>1. PICK s \in [Pages -> Nat], end \in Pages : RankedList(s, end, nx, B, nx[z], NoPage)
    BY <1>4 DEF IsList
  <2> DEFINE t == [p \in Pages |-> IF p \in B THEN r[z] + 1 + s[p] ELSE r[p]]
  <2>2. t \in [Pages -> Nat] /\ A \subseteq Pages /\ B \subseteq Pages
    BY <1>2, <2>1 DEF RankedList
  <2>3. /\ \A p \in A : t[p] = r[p] /\ r[p] <= r[z] /\ r[p] \in Nat
        /\ \A p \in B : t[p] = r[z] + 1 + s[p] /\ s[p] \in Nat
    BY <1>2, <2>1, <2>2 DEF RankedList
  <2> HIDE DEF t
  <2>4. \A p \in A, q \in B : t[p] < t[q]
    BY <1>2, <2>3 DEF RankedList
  <2>5. \A p \in A \cup B : t[h] <= t[p] /\ t[p] <= t[end]
    <3>1. h \in A /\ end \in B /\ nx[z] \in B
      BY <1>2, <2>1 DEF RankedList
    <3>2. \A p \in A : t[h] <= t[p] /\ t[p] <= t[end]
      BY <1>2, <2>2, <2>3, <2>4, <3>1 DEF RankedList
    <3>3. \A p \in B : t[p] <= t[end]
      BY <1>2, <2>1, <2>3, <3>1 DEF RankedList
    <3>4. \A p \in B : t[h] <= t[p]
      BY <2>2, <2>4, <3>1
    <3> QED
      BY <3>2, <3>3, <3>4
  <2>6. \A p, q \in A \cup B : t[p] = t[q] => p = q
    <3>1. \A p, q \in A : t[p] = t[q] => p = q
      BY <1>2, <2>3 DEF RankedList
    <3>2. \A p, q \in B : t[p] = t[q] => p = q
      BY <1>2, <2>1, <2>3 DEF RankedList
    <3>3. \A p \in A, q \in B : t[p] # t[q]
      BY <2>2, <2>3, <2>4
    <3> QED
      BY <3>1, <3>2, <3>3
  <2>7. \A p \in (A \cup B) \ {end} :
           /\ nx[p] \in A \cup B /\ t[p] < t[nx[p]]
           /\ \A q \in A \cup B : t[p] < t[q] => t[nx[p]] <= t[q]
    <3> SUFFICES ASSUME NEW p \in (A \cup B) \ {end}
                 PROVE  /\ nx[p] \in A \cup B /\ t[p] < t[nx[p]]
                        /\ \A q \in A \cup B : t[p] < t[q] => t[nx[p]] <= t[q]
      OBVIOUS
    <3>1. CASE p \in A \ {z}
      <4>1. nx[p] \in A /\ t[p] < t[nx[p]]
        BY <1>2, <2>3, <3>1 DEF RankedList
      <4>2. \A q \in A : t[p] < t[q] => t[nx[p]] <= t[q]
        <5>1. \A q \in A : r[p] < r[q] => r[nx[p]] <= r[q]
          BY <1>2, <3>1 DEF RankedList
        <5> QED
          BY <2>3, <3>1, <4>1, <5>1
      <4>3. \A q \in B : t[nx[p]] <= t[q]
        BY <2>2, <2>3, <2>4, <4>1
      <4> QED
        BY <4>1, <4>2, <4>3
    <3>2. CASE p = z
      <4>1. nx[z] \in B /\ z \in A /\ t[z] < t[nx[z]]
        BY <1>1, <2>1, <2>4 DEF RankedList
      <4>2. \A q \in A : ~ (t[z] < t[q])
        BY <2>3, <4>1
      <4>3. \A q \in B : t[nx[z]] <= t[q]
        BY <2>1, <2>3, <4>1 DEF RankedList
      <4> QED
        BY <3>2, <4>1, <4>2, <4>3
    <3>3. CASE p \in B
      <4>1. nx[p] \in B /\ s[p] < s[nx[p]] /\ \A q \in B : s[p] < s[q] => s[nx[p]] <= s[q]
        BY <2>1, <3>3 DEF RankedList
      <4>2. t[p] < t[nx[p]] /\ \A q \in B : t[p] < t[q] => t[nx[p]] <= t[q]
        BY <1>2, <2>3, <3>3, <4>1 DEF RankedList
      <4>3. \A q \in A : ~ (t[p] < t[q])
        BY <2>2, <2>3, <2>4, <3>3
      <4> QED
        BY <4>1, <4>2, <4>3
    <3> QED
      BY <3>1, <3>2, <3>3
  <2>8. RankedList(t, end, nx, A \cup B, h, NoPage)
    BY <1>2, <2>1, <2>2, <2>5, <2>6, <2>7 DEF RankedList
  <2> QED
    BY <1>1, <2>2, <2>8 DEF IsList
<1> QED
  BY <1>3, <1>4

\* A list up to the page that has no next one, and back.
LEMMA ListEnds ==
    ASSUME NEW nx, NEW S, NEW h, IsList(nx, S, h, NoPage), h # NoPage
    PROVE  /\ \E z \in S : nx[z] = NoPage
           /\ \A z \in S : nx[z] = NoPage => IsList(nx, S, h, z)
<1>1. PICK rank \in [Pages -> Nat], end \in Pages : RankedList(rank, end, nx, S, h, NoPage)
  BY DEF IsList
<1>2. \A z \in S : nx[z] = NoPage <=> z = end
  BY <1>1, PagesNotNull DEF RankedList
<1>3. RankedList(rank, end, nx, S, h, end)
  BY <1>1, PagesNotNull DEF RankedList
<1> QED
  BY <1>1, <1>2, <1>3 DEF IsList, RankedList

\* A list that ends at a page ends at the null pointer once that page links to
\* it.
LEMMA ListClosed ==
    ASSUME NEW nx, NEW nx2, NEW S, NEW h, NEW z, IsList(nx, S, h, z), z # NoPage, nx2[z] = NoPage,
           \A p \in S : p # z => nx2[p] = nx[p]
    PROVE  IsList(nx2, S, h, NoPage)
<1>1. IsList(nx2, S, h, z)
  BY ListFrame
<1> QED
  BY <1>1, PagesNotNull DEF IsList, RankedList

---------------------------------------------------------------------------
(* The pages that a walk along the links meets *)

\* A set of numbers has a least one.
LEMMA LeastNumber == ASSUME NEW T \in SUBSET Nat, T # {} PROVE \E x \in T : \A y \in T : x <= y
<1> DEFINE F == {0 .. n : n \in T}
<1>1. F \subseteq FiniteSubsetsOf(Nat) /\ F # {}
  <2>1. \A n \in T : 0 .. n \in SUBSET Nat /\ IsFiniteSet(0 .. n)
    BY FS_Interval
  <2> QED
    BY <2>1 DEF FiniteSubsetsOf
<1>2. PICK s \in F : \A u \in F : <<u, s>> \notin StrictSubsetOrdering(Nat)
  BY <1>1, FS_StrictSubsetOrderingWellFounded, WFMin
<1>3. PICK x \in T : s = 0 .. x
  BY <1>2
<1>4. \A y \in T : ~ (y < x)
  <2> SUFFICES ASSUME NEW y \in T, y < x PROVE FALSE
    OBVIOUS
  <2>1. 0 .. y \in F /\ 0 .. y \in SUBSET Nat /\ s \in SUBSET Nat
    BY <1>3
  <2>2. (0 .. y) \subseteq s /\ (0 .. y) # s
    BY <1>3
  <2> QED
    BY <1>2, <2>1, <2>2 DEF StrictSubsetOrdering
<1> QED
  BY <1>4

\* What holds of 0, and of every number if it holds of the one before, holds
\* up to any bound.
LEMMA UpTo ==
    ASSUME NEW N \in Nat, NEW S, 0 \in S, \A n \in 0 .. N - 1 : n \in S => n + 1 \in S
    PROVE  0 .. N \subseteq S
<1> SUFFICES ASSUME NEW k \in 0 .. N, k \notin S PROVE FALSE
  OBVIOUS
<1> DEFINE T == {n \in 0 .. N : n \notin S}
<1>1. PICK n \in T : \A m \in T : n <= m
  <2>1. T \in SUBSET Nat /\ k \in T
    OBVIOUS
  <2> QED
    BY <2>1, LeastNumber
<1>2. n \in 1 .. N /\ n - 1 \in 0 .. N - 1 /\ n - 1 \notin T
  BY <1>1
<1> QED
  BY <1>1, <1>2

\* f gives the page after each number of steps from h, up to n.
After(nx, p, last) == IF p \in {NoPage, last} THEN NoPage ELSE nx[p]
Walk(nx, f, n, h, last) == f = [k \in 0 .. n |-> IF k = 0 THEN h ELSE After(nx, f[k - 1], last)]
PageAt(nx, h, last) == CHOOSE f : Walk(nx, f, Cardinality(Pages), h, last)

\* The pages met from h on, one after the other, as a function.
LEMMA WalkExists == ASSUME NEW nx, NEW h, NEW last, NEW N \in Nat PROVE \E f : Walk(nx, f, N, h, last)
<1> DEFINE S == {n \in Nat : \E f : Walk(nx, f, n, h, last)}
<1>1. 0 \in S
  <2> DEFINE f == [k \in 0 .. 0 |-> h]
  <2>1. Walk(nx, f, 0, h, last)
    BY DEF Walk
  <2> QED
    BY <2>1
<1>2. ASSUME NEW n \in Nat, n \in S PROVE n + 1 \in S
  <2>1. PICK f : Walk(nx, f, n, h, last)
    BY <1>2
  <2> DEFINE g == [k \in 0 .. n + 1 |-> IF k = 0 THEN h ELSE After(nx, f[k - 1], last)]
  <2>2. \A k \in 0 .. n : g[k] = f[k]
    BY <2>1 DEF Walk
  <2>3. \A k \in 0 .. n + 1 : k # 0 => k - 1 \in 0 .. n
    OBVIOUS
  <2>4. g = [k \in 0 .. n + 1 |-> IF k = 0 THEN h ELSE After(nx, g[k - 1], last)]
    BY <2>2, <2>3, Zenon
  <2>5. Walk(nx, g, n + 1, h, last)
    BY <2>4 DEF Walk
  <2> HIDE DEF g
  <2> QED
    BY <2>5
<1>3. \A n \in 0 .. N - 1 : n \in S => n + 1 \in S
  BY <1>2
<1> HIDE DEF S
<1>4. 0 .. N \subseteq S
  BY <1>1, <1>3, UpTo
<1> QED
  BY <1>4 DEF S

\* There are finitely many pages.
LEMMA FiniteMemory == IsFiniteSet(Pages) /\ Cardinality(Pages) \in Nat
BY AllocatorAssumption, FS_CardinalityType

\* The chain of the model is the set of the pages so met.
LEMMA ChainWalk ==
    ASSUME NEW nx, NEW h, NEW last
    PROVE  /\ ChainOf(nx, h, last) = {PageAt(nx, h, last)[n] : n \in 0 .. Cardinality(Pages) - 1} \ {NoPage}
           /\ PageAt(nx, h, last)[0] = h
           /\ \A n \in 0 .. Cardinality(Pages) - 1 :
                 PageAt(nx, h, last)[n + 1] = After(nx, PageAt(nx, h, last)[n], last)
<1> DEFINE f == PageAt(nx, h, last)
<1>1. ChainOf(nx, h, last) = {f[n] : n \in 0 .. Cardinality(Pages) - 1} \ {NoPage}
  BY DEF ChainOf, PageAt, Walk, After
<1>2. Walk(nx, f, Cardinality(Pages), h, last)
  BY WalkExists, FiniteMemory DEF PageAt
<1>3. \A n \in 0 .. Cardinality(Pages) : f[n] = IF n = 0 THEN h ELSE After(nx, f[n - 1], last)
  <2> HIDE DEF f
  <2> QED
    BY <1>2 DEF Walk
<1> HIDE DEF f
<1>4. f[0] = h /\ \A n \in 0 .. Cardinality(Pages) - 1 : f[n + 1] = After(nx, f[n], last)
  BY <1>3, FiniteMemory
<1> QED
  BY <1>1, <1>4 DEF f

\* The walk from the first page of a list meets its pages and no other.
LEMMA ChainIs ==
    ASSUME NEW nx, NEW S, NEW h, NEW last, IsList(nx, S, h, last)
    PROVE  ChainOf(nx, h, last) = S
<1> DEFINE N == Cardinality(Pages)
           at == PageAt(nx, h, last)
<1>1. /\ ChainOf(nx, h, last) = {at[n] : n \in 0 .. N - 1} \ {NoPage}
      /\ at[0] = h
      /\ \A n \in 0 .. N - 1 : at[n + 1] = After(nx, at[n], last)
  BY ChainWalk
<1>2. N \in Nat
  BY FiniteMemory
<1> HIDE DEF at, N
<1>3. CASE h = NoPage
  <2> DEFINE G == {n \in 0 .. N : at[n] = NoPage}
  <2>1. 0 \in G /\ \A n \in 0 .. N - 1 : n \in G => n + 1 \in G
    BY <1>1, <1>2, <1>3 DEF After
  <2>2. 0 .. N \subseteq G
    <3> HIDE DEF G
    <3> QED
      BY <1>2, <2>1, UpTo
  <2> QED
    BY <1>1, <1>2, <1>3, <2>2 DEF IsList
<1>4. CASE h # NoPage
  <2>1. PICK rank \in [Pages -> Nat], end \in Pages : RankedList(rank, end, nx, S, h, last)
    BY <1>4 DEF IsList
  <2>2. /\ S \subseteq Pages /\ h \in S /\ end \in S
        /\ \A p \in S : rank[p] \in Nat /\ rank[h] <= rank[p] /\ rank[p] <= rank[end]
        /\ \A p, q \in S : rank[p] = rank[q] => p = q
        /\ \A p \in S \ {end} : /\ nx[p] \in S /\ rank[p] < rank[nx[p]] /\ After(nx, p, last) = nx[p]
                                /\ \A q \in S : rank[p] < rank[q] => rank[nx[p]] <= rank[q]
        /\ After(nx, end, last) = NoPage /\ NoPage \notin S
        /\ After(nx, NoPage, last) = NoPage
    BY <2>1, PagesNotNull DEF RankedList, After
  <2> DEFINE Passed(p) == {q \in S : rank[q] < rank[p]}
             Met(n) == {at[m] : m \in 0 .. n - 1}
             G == {n \in 0 .. N : /\ at[n] \in S \cup {NoPage}
                                  /\ IF at[n] = NoPage THEN S \subseteq Met(n)
                                     ELSE Passed(at[n]) \subseteq Met(n) /\ n <= Cardinality(Passed(at[n]))}
  <2>3. \A p \in S : Passed(p) \subseteq Pages /\ IsFiniteSet(Passed(p)) /\ Cardinality(Passed(p)) \in Nat
                     /\ Cardinality(Passed(p)) < N
    <3> SUFFICES ASSUME NEW p \in S
                 PROVE  Passed(p) \subseteq Pages /\ IsFiniteSet(Passed(p)) /\ Cardinality(Passed(p)) \in Nat
                        /\ Cardinality(Passed(p)) < N
      OBVIOUS
    <3>1. Passed(p) \subseteq Pages /\ p \in Pages /\ p \notin Passed(p)
      BY <2>2
    <3> HIDE DEF Passed
    <3>2. IsFiniteSet(Passed(p)) /\ Cardinality(Passed(p)) <= N /\ (Cardinality(Passed(p)) = N => Passed(p) = Pages)
      BY <3>1, FiniteMemory, FS_Subset DEF N
    <3>3. Cardinality(Passed(p)) \in Nat
      BY <3>2, FS_CardinalityType
    <3> QED
      BY <1>2, <3>1, <3>2, <3>3
  <2>4. 0 \in G
    <3>1. Passed(h) = {}
      BY <2>2
    <3>2. Cardinality(Passed(h)) \in Nat
      BY <2>2, <2>3
    <3>3. 0 \in 0 .. N /\ at[0] = h /\ at[0] \in S \cup {NoPage} /\ at[0] # NoPage
      BY <1>1, <1>2, <1>4, <2>2
    <3>4. Passed(at[0]) \subseteq Met(0) /\ 0 <= Cardinality(Passed(at[0]))
      BY <3>1, <3>2, <3>3
    <3> HIDE DEF Passed, Met
    <3> QED
      BY <3>3, <3>4
  <2>5. ASSUME NEW n \in 0 .. N - 1, n \in G PROVE n + 1 \in G
    <3>1. at[n + 1] = After(nx, at[n], last) /\ n + 1 \in 0 .. N /\ n \in Nat
      BY <1>1, <1>2
    <3>2. Met(n) \cup {at[n]} \subseteq Met(n + 1)
      BY <1>2
    <3>3. CASE at[n] = NoPage
      BY <2>2, <2>5, <3>1, <3>2, <3>3
    <3>4. CASE at[n] \in S /\ at[n] = end
      <4>1. \A q \in S : q # end => q \in Passed(end)
        BY <2>2
      <4>2. Passed(end) \subseteq Met(n)
        <5> HIDE DEF Passed, Met
        <5> QED
          BY <2>2, <2>5, <3>4
      <4>3. S \subseteq Met(n + 1)
        <5> HIDE DEF Passed, Met
        <5> QED
          BY <3>2, <3>4, <4>1, <4>2
      <4> HIDE DEF Met, Passed
      <4> QED
        BY <2>2, <3>1, <3>4, <4>3
    <3>5. CASE at[n] \in S /\ at[n] # end
      <4> DEFINE p == at[n]
                 x == nx[p]
      <4>1. at[n + 1] = x /\ x \in S /\ p \in S
        BY <2>2, <3>1, <3>5
      <4>2. Passed(x) = Passed(p) \cup {p} /\ p \notin Passed(p)
        <5>1. \A q \in S : rank[q] < rank[x] => rank[q] < rank[p] \/ q = p
          BY <2>2, <3>5, <4>1
        <5>2. \A q \in S : rank[q] < rank[p] \/ q = p => rank[q] < rank[x]
          BY <2>2, <3>5, <4>1
        <5> QED
          BY <4>1, <5>1, <5>2, <2>2
      <4>3. Passed(p) \subseteq Met(n) /\ n <= Cardinality(Passed(p))
        <5> HIDE DEF Passed, Met
        <5> QED
          BY <2>2, <2>5, <4>1
      <4> HIDE DEF Passed, Met, p, x
      <4>4. Cardinality(Passed(x)) = Cardinality(Passed(p)) + 1
        BY <2>3, <4>1, <4>2, FS_AddElement
      <4>5. Cardinality(Passed(p)) \in Nat
        BY <2>3, <4>1
      <4>6. Passed(x) \subseteq Met(n + 1)
        BY <3>2, <4>2, <4>3 DEF p
      <4> QED
        BY <2>2, <3>1, <4>1, <4>3, <4>4, <4>5, <4>6
    <3> QED
      BY <2>5, <3>3, <3>4, <3>5
  <2>6. N \in G
    <3> HIDE DEF G
    <3>1. 0 .. N \subseteq G
      BY <1>2, <2>4, <2>5, UpTo
    <3> QED
      BY <1>2, <3>1
  <2>7. at[N] = NoPage /\ S \subseteq Met(N)
    <3>1. at[N] \in S => Cardinality(Passed(at[N])) \in Nat /\ Cardinality(Passed(at[N])) < N
      BY <2>3
    <3> HIDE DEF Passed, Met
    <3> QED
      BY <1>2, <2>6, <3>1
  <2>8. \A n \in 0 .. N : at[n] \in S \cup {NoPage}
    <3>1. \A n \in 0 .. N : n \in G
      <4> HIDE DEF G
      <4> QED
        BY <1>2, <2>4, <2>5, UpTo
    <3> HIDE DEF Passed, Met
    <3> QED
      BY <3>1
  <2> QED
    BY <1>1, <1>2, <2>2, <2>7, <2>8
<1> QED
  BY <1>3, <1>4

\* Two lists from the same page have the same pages.
LEMMA SameList ==
    ASSUME NEW nx, NEW S, NEW T, NEW h, NEW last, IsList(nx, S, h, last), IsList(nx, T, h, last)
    PROVE  S = T
BY ChainIs

---------------------------------------------------------------------------
(* What is done to the stacks: H and L are where they begin and end, K the *)
(* kind of their pages.                                                    *)

Stack == [Places -> SUBSET Pages]
Within(p, K, P, k) == \E x \in Places : K[x] = k /\ p \in P[x]
SameWithin(K, P, K2, P2) == \A p, k : Within(p, K2, P2, k) <=> Within(p, K, P, k)
MoreWithin(K, P, K2, P2, q, j) ==
    \A p, k : Within(p, K2, P2, k) <=> Within(p, K, P, k) \/ (p = q /\ k = j)
SameBut(A, H, L, K, H2, L2, K2) ==
    \A x \in Places \ A : H2[x] = H[x] /\ L2[x] = L[x] /\ K2[x] = K[x]

\* The stack a goes to b, which is empty, or is put on b, to which its last page
\* is linked.
Carries(a, b, H, L, K, H2, L2, K2) ==
    /\ a \in Places /\ b \in Places /\ a # b /\ H[b] = NoPage
    /\ H2[a] = NoPage /\ L2[a] = NoPage /\ H2[b] = H[a] /\ L2[b] = L[a] /\ K2[b] = K[a]
    /\ SameBut({a, b}, H, L, K, H2, L2, K2)
Joins(nx, a, b, H, L, K, H2, L2, K2) ==
    /\ a \in Places /\ b \in Places /\ a # b
    /\ L[a] # NoPage /\ nx[L[a]] = H[b] /\ L[b] = NoPage
    /\ H2[a] = NoPage /\ L2[a] = NoPage /\ H2[b] = H[a] /\ L2[b] = NoPage
    /\ K2[b] = K[a] /\ K2[b] = K[b]
    /\ SameBut({a, b}, H, L, K, H2, L2, K2)
Together(a, b, P) == [P EXCEPT ![a] = {}, ![b] = P[a] \cup P[b]]

\* A stack moves as a whole to a place that is empty.
LEMMA StackCarried ==
    ASSUME NEW nx, NEW H, NEW L, NEW K, NEW P \in Stack, AreStacks(nx, H, L, P),
           NEW H2, NEW L2, NEW K2, NEW a, NEW b, Carries(a, b, H, L, K, H2, L2, K2)
    PROVE  /\ Together(a, b, P) \in Stack /\ AreStacks(nx, H2, L2, Together(a, b, P))
           /\ SameWithin(K, P, K2, Together(a, b, P))
<1> DEFINE P2 == Together(a, b, P)
<1>0. /\ a \in Places /\ b \in Places /\ a # b /\ H[b] = NoPage
      /\ H2[a] = NoPage /\ L2[a] = NoPage /\ H2[b] = H[a] /\ L2[b] = L[a] /\ K2[b] = K[a]
      /\ \A x \in Places \ {a, b} : H2[x] = H[x] /\ L2[x] = L[x] /\ K2[x] = K[x]
  BY DEF SameBut, Carries
<1>1. P[b] = {} /\ P2[a] = {} /\ P2[b] = P[a] /\ \A x \in Places \ {a, b} : P2[x] = P[x]
  <2>1. IsList(nx, P[b], H[b], L[b])
    BY <1>0 DEF AreStacks
  <2> QED
    BY <1>0, <2>1, ListTyped DEF Together, Stack
<1>2. P2 \in Stack
  BY <1>0 DEF Stack, Together
<1> HIDE DEF P2
<1>3. AreStacks(nx, H2, L2, P2)
  <2>1. \A x \in Places : IsList(nx, P2[x], H2[x], L2[x])
    <3> SUFFICES ASSUME NEW x \in Places PROVE IsList(nx, P2[x], H2[x], L2[x])
      OBVIOUS
    <3>1. CASE x = a
      BY <1>0, <1>1, <3>1, NoList
    <3>2. CASE x = b
      BY <1>0, <1>1, <3>2 DEF AreStacks
    <3>3. CASE x \in Places \ {a, b}
      BY <1>0, <1>1, <3>3 DEF AreStacks
    <3> QED
      BY <3>1, <3>2, <3>3
  <2>2. ASSUME NEW x \in Places, NEW y \in Places, x # y PROVE P2[x] \cap P2[y] = {}
    <3>1. \A z \in Places : P2[z] = {} \/ (z = b /\ P2[z] = P[a]) \/ (z \notin {a, b} /\ P2[z] = P[z])
      BY <1>0, <1>1
    <3> QED
      BY <1>0, <2>2, <3>1 DEF AreStacks
  <2> QED
    BY <2>1, <2>2 DEF AreStacks
<1>4. ASSUME NEW p, NEW k
      PROVE  Within(p, K2, P2, k) <=> Within(p, K, P, k)
  <2>1. ASSUME NEW x \in Places, K2[x] = k, p \in P2[x] PROVE \E y \in Places : K[y] = k /\ p \in P[y]
    <3>1. x = b \/ x \in Places \ {a, b}
      BY <1>1, <2>1
    <3> QED
      BY <1>0, <1>1, <2>1, <3>1
  <2>2. ASSUME NEW x \in Places, K[x] = k, p \in P[x] PROVE \E y \in Places : K2[y] = k /\ p \in P2[y]
    <3>1. x = a \/ x \in Places \ {a, b}
      BY <1>0, <1>1, <2>2
    <3> QED
      BY <1>0, <1>1, <2>2, <3>1
  <2> QED
    BY <2>1, <2>2 DEF Within
<1> QED
  BY <1>2, <1>3, <1>4 DEF SameWithin, P2

\* A page is taken out of the stack a, its first one or a later one.
Leaves(nx, nx2, a, H, L, P, H2, q) ==
    /\ a \in Places /\ q \in P[a] /\ L[a] = NoPage
    /\ \/ H[a] = q /\ H2[a] = nx[q] /\ nx2 = nx
       \/ /\ H2[a] = H[a]
          /\ \E p \in P[a] : nx[p] = q /\ nx2[p] = nx[q] /\ \A r \in Pages \ {p} : nx2[r] = nx[r]
    /\ \A x \in Places \ {a} : H2[x] = H[x]
Without(a, P, q) == [P EXCEPT ![a] = @ \ {q}]

\* A page that leaves its stack leaves the other stacks alone.
LEMMA StackLess ==
    ASSUME NEW nx, NEW H, NEW L, NEW P \in Stack, AreStacks(nx, H, L, P),
           NEW H2, NEW nx2, NEW a, NEW q, Leaves(nx, nx2, a, H, L, P, H2, q)
    PROVE  /\ Without(a, P, q) \in Stack /\ AreStacks(nx2, H2, L, Without(a, P, q))
           /\ \A x \in Places \ {a} : \A p \in P[x] : nx2[p] = nx[p]
           /\ Without(a, P, q)[a] = P[a] \ {q}
           /\ \A x \in Places \ {a} : Without(a, P, q)[x] = P[x] /\ q \notin P[x]
<1> DEFINE P2 == Without(a, P, q)
<1>0. /\ a \in Places /\ q \in P[a] /\ L[a] = NoPage
      /\ \/ H[a] = q /\ H2[a] = nx[q] /\ nx2 = nx
         \/ /\ H2[a] = H[a]
            /\ \E p \in P[a] : nx[p] = q /\ nx2[p] = nx[q] /\ \A r \in Pages \ {p} : nx2[r] = nx[r]
      /\ \A x \in Places \ {a} : H2[x] = H[x]
  BY DEF Leaves
<1>1. P2[a] = P[a] \ {q} /\ \A x \in Places \ {a} : P2[x] = P[x] /\ q \notin P[x]
  BY <1>0 DEF Stack, AreStacks, Without
<1>2. P2 \in Stack /\ \A x \in Places : P[x] \subseteq Pages
  BY DEF Stack, Without
<1> HIDE DEF P2
<1>3. \A x \in Places \ {a} : \A p \in P[x] : nx2[p] = nx[p]
  BY <1>0, <1>2 DEF AreStacks
<1>4. \A x \in Places \ {a} : IsList(nx2, P2[x], H2[x], L[x])
  BY <1>0, <1>1, <1>3, ListFrame DEF AreStacks
<1>5. IsList(nx2, P2[a], H2[a], L[a])
  <2>1. IsList(nx, P[a], H[a], NoPage) /\ q # NoPage
    BY <1>0, <1>2, PagesNotNull DEF AreStacks
  <2>2. CASE H[a] = q /\ H2[a] = nx[q] /\ nx2 = nx
    <3>1. IsList(nx, P[a] \ {H[a]}, nx[H[a]], NoPage)
      BY <1>0, <1>2, <2>1, <2>2, PagesNotNull, ListRest
    <3> QED
      BY <1>0, <1>1, <2>2, <3>1
  <2>3. CASE H2[a] = H[a] /\ \E p \in P[a] : nx[p] = q /\ nx2[p] = nx[q] /\ \A r \in Pages \ {p} : nx2[r] = nx[r]
    <3>1. PICK p \in P[a] : nx[p] = q /\ nx2[p] = nx[q] /\ \A r \in Pages \ {p} : nx2[r] = nx[r]
      BY <2>3
    <3>2. IsList(nx2, P[a] \ {nx[p]}, H[a], NoPage)
      BY <1>0, <1>2, <2>1, <3>1, PagesNotNull, ListWithout
    <3> QED
      BY <1>0, <1>1, <2>3, <3>1, <3>2
  <2> QED
    BY <1>0, <2>2, <2>3
<1>6. AreStacks(nx2, H2, L, P2)
  <2>1. \A x, y \in Places : x # y => P2[x] \cap P2[y] = {}
    BY <1>0, <1>1 DEF AreStacks
  <2> QED
    BY <1>0, <1>4, <1>5, <2>1 DEF AreStacks
<1> QED
  BY <1>1, <1>2, <1>3, <1>6 DEF P2

\* The stack a, the last page of which is linked to b, is put on b.
LEMMA StackJoined ==
    ASSUME NEW nx, NEW H, NEW L, NEW K, NEW P \in Stack, AreStacks(nx, H, L, P),
           NEW H2, NEW L2, NEW K2, NEW a, NEW b, Joins(nx, a, b, H, L, K, H2, L2, K2)
    PROVE  /\ Together(a, b, P) \in Stack /\ AreStacks(nx, H2, L2, Together(a, b, P))
           /\ SameWithin(K, P, K2, Together(a, b, P))
<1> DEFINE P2 == Together(a, b, P)
<1>0. /\ a \in Places /\ b \in Places /\ a # b
      /\ L[a] # NoPage /\ nx[L[a]] = H[b] /\ L[b] = NoPage
      /\ H2[a] = NoPage /\ L2[a] = NoPage /\ H2[b] = H[a] /\ L2[b] = NoPage
      /\ K2[b] = K[a] /\ K2[b] = K[b]
      /\ \A x \in Places \ {a, b} : H2[x] = H[x] /\ L2[x] = L[x] /\ K2[x] = K[x]
  BY DEF SameBut, Joins
<1>1. P2[a] = {} /\ P2[b] = P[a] \cup P[b] /\ \A x \in Places \ {a, b} : P2[x] = P[x]
  BY <1>0 DEF Stack, Together
<1>2. P2 \in Stack
  BY <1>0 DEF Stack, Together
<1> HIDE DEF P2
<1>3. IsList(nx, P2[b], H2[b], L2[b])
  <2>1. IsList(nx, P[a], H[a], L[a]) /\ IsList(nx, P[b], nx[L[a]], NoPage) /\ P[a] \cap P[b] = {}
    BY <1>0 DEF AreStacks
  <2>2. IsList(nx, P[a] \cup P[b], H[a], NoPage)
    BY <1>0, <2>1, ListJoined
  <2> QED
    BY <1>0, <1>1, <2>2
<1>4. AreStacks(nx, H2, L2, P2)
  <2>1. \A x \in Places : IsList(nx, P2[x], H2[x], L2[x])
    <3> SUFFICES ASSUME NEW x \in Places PROVE IsList(nx, P2[x], H2[x], L2[x])
      OBVIOUS
    <3>1. CASE x = a
      BY <1>0, <1>1, <3>1, NoList
    <3>2. CASE x = b
      BY <1>3, <3>2
    <3>3. CASE x \in Places \ {a, b}
      BY <1>0, <1>1, <3>3 DEF AreStacks
    <3> QED
      BY <3>1, <3>2, <3>3
  <2>2. ASSUME NEW x \in Places, NEW y \in Places, x # y PROVE P2[x] \cap P2[y] = {}
    <3>1. \A z \in Places : P2[z] = {} \/ (z = b /\ P2[z] = P[a] \cup P[b]) \/ (z \notin {a, b} /\ P2[z] = P[z])
      BY <1>0, <1>1
    <3>2. \A z \in Places \ {a, b} : (P[a] \cup P[b]) \cap P[z] = {}
      BY <1>0 DEF AreStacks
    <3> QED
      BY <1>0, <2>2, <3>1, <3>2 DEF AreStacks
  <2> QED
    BY <2>1, <2>2 DEF AreStacks
<1>5. ASSUME NEW p, NEW k
      PROVE  Within(p, K2, P2, k) <=> Within(p, K, P, k)
  <2>1. ASSUME NEW x \in Places, K2[x] = k, p \in P2[x] PROVE \E y \in Places : K[y] = k /\ p \in P[y]
    <3>1. x = b \/ x \in Places \ {a, b}
      BY <1>1, <2>1
    <3> QED
      BY <1>0, <1>1, <2>1, <3>1
  <2>2. ASSUME NEW x \in Places, K[x] = k, p \in P[x] PROVE \E y \in Places : K2[y] = k /\ p \in P2[y]
    <3>1. x = a \/ x = b \/ x \in Places \ {a, b}
      OBVIOUS
    <3> QED
      BY <1>0, <1>1, <2>2, <3>1
  <2> QED
    BY <2>1, <2>2 DEF Within
<1> QED
  BY <1>2, <1>4, <1>5 DEF SameWithin, P2

\* The last page z of the stack a is linked elsewhere, or to nothing again.
Ends(nx, nx2, a, z, L, L2, P) ==
    /\ a \in Places /\ z \in P[a] /\ \A r \in Pages \ {z} : nx2[r] = nx[r]
    /\ L[a] = z \/ (L[a] = NoPage /\ nx[z] = NoPage)
    /\ L2[a] = z \/ (L2[a] = NoPage /\ nx2[z] = NoPage)
    /\ \A x \in Places \ {a} : L2[x] = L[x]

\* The last page of a stack on the move gets another link.
LEMMA StackLinked ==
    ASSUME NEW nx, NEW H, NEW L, NEW P \in Stack, AreStacks(nx, H, L, P), NEW L2, NEW nx2,
           NEW a, NEW z, Ends(nx, nx2, a, z, L, L2, P)
    PROVE  /\ AreStacks(nx2, H, L2, P)
           /\ \A x \in Places \ {a} : \A p \in P[x] : nx2[p] = nx[p]
<1>0. /\ a \in Places /\ z \in P[a] /\ \A r \in Pages \ {z} : nx2[r] = nx[r]
      /\ L[a] = z \/ (L[a] = NoPage /\ nx[z] = NoPage)
      /\ L2[a] = z \/ (L2[a] = NoPage /\ nx2[z] = NoPage)
      /\ \A x \in Places \ {a} : L2[x] = L[x]
  BY DEF Ends
<1>1. \A x \in Places : P[x] \subseteq Pages
  BY DEF Stack
<1>2. \A x \in Places \ {a} : \A p \in P[x] : nx2[p] = nx[p]
  BY <1>0, <1>1 DEF AreStacks
<1>3. \A x \in Places \ {a} : IsList(nx2, P[x], H[x], L2[x])
  BY <1>0, <1>2, ListFrame DEF AreStacks
<1>4. z # NoPage /\ H[a] # NoPage /\ IsList(nx, P[a], H[a], L[a])
  BY <1>0, <1>1, PagesNotNull, ListTyped DEF AreStacks
<1>5. IsList(nx, P[a], H[a], z)
  BY <1>0, <1>4, ListEnds
<1>6. IsList(nx2, P[a], H[a], z)
  BY <1>0, <1>1, <1>5, ListFrame
<1>7. IsList(nx2, P[a], H[a], L2[a])
  <2>1. CASE L2[a] = z
    BY <1>0, <1>6, <2>1
  <2>2. CASE L2[a] = NoPage /\ nx2[z] = NoPage
    BY <1>0, <1>4, <1>6, <2>2, ListClosed
  <2> QED
    BY <1>0, <2>1, <2>2
<1> QED
  BY <1>0, <1>2, <1>3, <1>7 DEF AreStacks

\* Links of other pages change.
LEMMA StacksFrame ==
    ASSUME NEW nx, NEW H, NEW L, NEW P \in Stack, AreStacks(nx, H, L, P), NEW nx2, NEW H2, NEW L2,
           \A x \in Places : \A p \in P[x] : nx2[p] = nx[p],
           \A x \in Places : H2[x] = H[x] /\ L2[x] = L[x]
    PROVE  AreStacks(nx2, H2, L2, P)
BY ListFrame DEF AreStacks

\* A page that is in no stack becomes one.
Begins(a, q, H, L, K, P, H2, L2, K2) ==
    /\ a \in Places /\ H[a] = NoPage /\ q \in Pages /\ \A x \in Places : q \notin P[x]
    /\ H2[a] = q /\ L2[a] = q /\ SameBut({a}, H, L, K, H2, L2, K2)
With(a, P, q) == [P EXCEPT ![a] = {q}]

\* A page of no stack is a stack of its own.
LEMMA StackOfOne ==
    ASSUME NEW nx, NEW H, NEW L, NEW K, NEW P \in Stack, AreStacks(nx, H, L, P),
           NEW H2, NEW L2, NEW K2, NEW a, NEW q, Begins(a, q, H, L, K, P, H2, L2, K2)
    PROVE  /\ With(a, P, q) \in Stack /\ AreStacks(nx, H2, L2, With(a, P, q))
           /\ MoreWithin(K, P, K2, With(a, P, q), q, K2[a])
<1> DEFINE P2 == With(a, P, q)
<1>0. /\ a \in Places /\ H[a] = NoPage /\ q \in Pages /\ \A x \in Places : q \notin P[x]
      /\ H2[a] = q /\ L2[a] = q
      /\ \A x \in Places \ {a} : H2[x] = H[x] /\ L2[x] = L[x] /\ K2[x] = K[x]
  BY DEF SameBut, Begins
<1>1. P[a] = {} /\ P2[a] = {q} /\ \A x \in Places \ {a} : P2[x] = P[x]
  <2>1. IsList(nx, P[a], H[a], L[a])
    BY <1>0 DEF AreStacks
  <2> QED
    BY <1>0, <2>1, ListTyped DEF Stack, With
<1>2. P2 \in Stack
  BY <1>0 DEF Stack, With
<1> HIDE DEF P2
<1>3. AreStacks(nx, H2, L2, P2)
  <2>1. \A x \in Places : IsList(nx, P2[x], H2[x], L2[x])
    BY <1>0, <1>1, ListOfOne DEF AreStacks
  <2>2. \A x, y \in Places : x # y => P2[x] \cap P2[y] = {}
    BY <1>0, <1>1 DEF AreStacks
  <2> QED
    BY <2>1, <2>2 DEF AreStacks
<1>4. ASSUME NEW p, NEW k
      PROVE  Within(p, K2, P2, k) <=> Within(p, K, P, k) \/ (p = q /\ K2[a] = k)
  BY <1>0, <1>1 DEF Within
<1> QED
  BY <1>2, <1>3, <1>4 DEF P2, MoreWithin

---------------------------------------------------------------------------
(* The stacks by slot and thread *)

Spread(nx, fi, lo, ca, P) == AreStacks(nx, HeadsOf(fi, lo, ca), LastsOf(ca), P)
\* The private stack, unless it is searched.
Own(c, l, k) == IF Searches(c, k) THEN NoPage ELSE l.private[k]
SlotHead(fi, s, k) == IF fi[s][k] = Marker THEN NoPage ELSE fi[s][k]
Others(t, f, g) == \A u \in Threads \ {t} : g[u] = f[u]
SameFree(ca, P, ca2, P2) == SameWithin(KindsOf(ca), P, KindsOf(ca2), P2)
OthersMoved(t, P, P2) == \A u \in Threads \ {t} : P2[Moved(u)] = P[Moved(u)]

\* The places are all different.
LEMMA PlacesApart ==
    /\ \A s, k, r, j : InSlot(s, k) = InSlot(r, j) => s = r /\ k = j
    /\ \A t, k, u, j : Private(t, k) = Private(u, j) => t = u /\ k = j
    /\ \A t, u : Moved(t) = Moved(u) => t = u
    /\ \A s, k, t, j : InSlot(s, k) # Private(t, j)
    /\ \A s, k, t : InSlot(s, k) # Moved(t)
    /\ \A t, k, u : Private(t, k) # Moved(u)
    /\ \A s \in Slots, k \in Kinds : InSlot(s, k) \in Places
    /\ \A t \in Threads, k \in Kinds : Private(t, k) \in Places
    /\ \A t \in Threads : Moved(t) \in Places
BY DEF InSlot, Private, Moved, Places

\* There are three sorts of places.
LEMMA PlacesAre ==
    ASSUME NEW x \in Places
    PROVE  \/ \E s \in Slots, k \in Kinds : x = InSlot(s, k)
           \/ \E t \in Threads, k \in Kinds : x = Private(t, k)
           \/ \E t \in Threads : x = Moved(t)
BY DEF Places

\* What is at each place.
PlacesHave(fi, lo, ca) ==
    /\ \A s \in Slots, k \in Kinds :
          /\ HeadsOf(fi, lo, ca)[InSlot(s, k)] = SlotHead(fi, s, k)
          /\ LastsOf(ca)[InSlot(s, k)] = NoPage /\ KindsOf(ca)[InSlot(s, k)] = k
    /\ \A t \in Threads, k \in Kinds :
          /\ HeadsOf(fi, lo, ca)[Private(t, k)] = Own(ca[t], lo[t], k)
          /\ LastsOf(ca)[Private(t, k)] = NoPage /\ KindsOf(ca)[Private(t, k)] = k
    /\ \A t \in Threads :
          /\ HeadsOf(fi, lo, ca)[Moved(t)] = ca[t].list
          /\ LastsOf(ca)[Moved(t)] = ca[t].last /\ KindsOf(ca)[Moved(t)] = ca[t].kind

\* Where the stack of each place begins and ends, and its kind.
LEMMA HeadsAre == ASSUME NEW fi, NEW lo, NEW ca PROVE PlacesHave(fi, lo, ca)
<1>1. ASSUME NEW s \in Slots, NEW k \in Kinds
      PROVE  /\ HeadsOf(fi, lo, ca)[InSlot(s, k)] = SlotHead(fi, s, k)
             /\ LastsOf(ca)[InSlot(s, k)] = NoPage /\ KindsOf(ca)[InSlot(s, k)] = k
  <2>1. InSlot(s, k) \in Places
    BY PlacesApart
  <2>2. InSlot(s, k)[1] = "slot" /\ InSlot(s, k)[2] = s /\ InSlot(s, k)[3] = k
    BY DEF InSlot
  <2> QED
    BY <2>1, <2>2 DEF HeadsOf, LastsOf, KindsOf, SlotHead
<1>2. ASSUME NEW t \in Threads, NEW k \in Kinds
      PROVE  /\ HeadsOf(fi, lo, ca)[Private(t, k)] = Own(ca[t], lo[t], k)
             /\ LastsOf(ca)[Private(t, k)] = NoPage /\ KindsOf(ca)[Private(t, k)] = k
  <2>1. Private(t, k) \in Places
    BY PlacesApart
  <2>2. Private(t, k)[1] = "private" /\ Private(t, k)[2] = t /\ Private(t, k)[3] = k
    BY DEF Private
  <2> QED
    BY <2>1, <2>2 DEF HeadsOf, LastsOf, KindsOf, Own
<1>3. ASSUME NEW t \in Threads
      PROVE  /\ HeadsOf(fi, lo, ca)[Moved(t)] = ca[t].list
             /\ LastsOf(ca)[Moved(t)] = ca[t].last /\ KindsOf(ca)[Moved(t)] = ca[t].kind
  <2>1. Moved(t) \in Places
    BY PlacesApart
  <2>2. Moved(t)[1] = "moved" /\ Moved(t)[2] = t
    BY DEF Moved
  <2> QED
    BY <2>1, <2>2 DEF HeadsOf, LastsOf, KindsOf
<1> QED
  BY <1>1, <1>2, <1>3 DEF PlacesHave

\* Only the places of the thread, and slots that change, are different.
OnlyBy(t, x, fi, lo, ca, fi2, lo2, ca2) ==
    \/ /\ HeadsOf(fi2, lo2, ca2)[x] = HeadsOf(fi, lo, ca)[x]
       /\ LastsOf(ca2)[x] = LastsOf(ca)[x] /\ KindsOf(ca2)[x] = KindsOf(ca)[x]
    \/ x = Moved(t)
    \/ \E k \in Kinds : x = Private(t, k) /\ Own(ca2[t], lo2[t], k) # Own(ca[t], lo[t], k)
    \/ \E s \in Slots, k \in Kinds : x = InSlot(s, k) /\ SlotHead(fi2, s, k) # SlotHead(fi, s, k)

\* What a thread does changes its own places, and those of the slots it writes.
LEMMA OtherPlaces ==
    ASSUME NEW fi, NEW lo, NEW ca, NEW fi2, NEW lo2, NEW ca2, NEW t \in Threads,
           Others(t, lo, lo2), Others(t, ca, ca2), NEW x \in Places
    PROVE  OnlyBy(t, x, fi, lo, ca, fi2, lo2, ca2)
<1>0. PlacesHave(fi, lo, ca) /\ PlacesHave(fi2, lo2, ca2)
  BY HeadsAre
<1>1. ASSUME NEW s \in Slots, NEW k \in Kinds, x = InSlot(s, k), SlotHead(fi2, s, k) = SlotHead(fi, s, k)
      PROVE  /\ HeadsOf(fi2, lo2, ca2)[x] = HeadsOf(fi, lo, ca)[x]
             /\ LastsOf(ca2)[x] = LastsOf(ca)[x] /\ KindsOf(ca2)[x] = KindsOf(ca)[x]
  BY <1>0, <1>1 DEF PlacesHave
<1>2. ASSUME NEW u \in Threads, NEW k \in Kinds, x = Private(u, k), Own(ca2[u], lo2[u], k) = Own(ca[u], lo[u], k)
      PROVE  /\ HeadsOf(fi2, lo2, ca2)[x] = HeadsOf(fi, lo, ca)[x]
             /\ LastsOf(ca2)[x] = LastsOf(ca)[x] /\ KindsOf(ca2)[x] = KindsOf(ca)[x]
  BY <1>0, <1>2 DEF PlacesHave
<1>3. ASSUME NEW u \in Threads \ {t}, x = Moved(u)
      PROVE  /\ HeadsOf(fi2, lo2, ca2)[x] = HeadsOf(fi, lo, ca)[x]
             /\ LastsOf(ca2)[x] = LastsOf(ca)[x] /\ KindsOf(ca2)[x] = KindsOf(ca)[x]
  BY <1>0, <1>3 DEF Others, PlacesHave
<1>4. \A u \in Threads \ {t}, k \in Kinds : Own(ca2[u], lo2[u], k) = Own(ca[u], lo[u], k)
  BY DEF Others
<1> QED
  BY <1>1, <1>2, <1>3, <1>4, PlacesAre DEF OnlyBy

\* What a thread has does not change.
Stays(t, lo, ca, lo2, ca2) ==
    /\ t \in Threads /\ Others(t, lo, lo2) /\ Others(t, ca, ca2)
    /\ ca2[t].list = ca[t].list /\ ca2[t].last = ca[t].last
    /\ ca[t].list = NoPage \/ ca2[t].kind = ca[t].kind
    /\ \A k \in Kinds : Own(ca2[t], lo2[t], k) = Own(ca[t], lo[t], k)

\* A step of a thread that keeps its stacks keeps them all.
LEMMA SpreadSame ==
    ASSUME NEW nx, NEW fi, NEW lo, NEW ca, NEW lo2, NEW ca2, NEW P \in Stack, NEW t,
           Spread(nx, fi, lo, ca, P), Stays(t, lo, ca, lo2, ca2)
    PROVE  Spread(nx, fi, lo2, ca2, P) /\ SameFree(ca, P, ca2, P)
<1> USE DEF Stays
<1>0. PlacesHave(fi, lo, ca) /\ PlacesHave(fi, lo2, ca2)
  BY HeadsAre
<1>1. \A x \in Places : /\ HeadsOf(fi, lo2, ca2)[x] = HeadsOf(fi, lo, ca)[x] /\ LastsOf(ca2)[x] = LastsOf(ca)[x]
                        /\ x = Moved(t) \/ KindsOf(ca2)[x] = KindsOf(ca)[x]
  <2> SUFFICES ASSUME NEW x \in Places
               PROVE  /\ HeadsOf(fi, lo2, ca2)[x] = HeadsOf(fi, lo, ca)[x] /\ LastsOf(ca2)[x] = LastsOf(ca)[x]
                      /\ x = Moved(t) \/ KindsOf(ca2)[x] = KindsOf(ca)[x]
    OBVIOUS
  <2>1. OnlyBy(t, x, fi, lo, ca, fi, lo2, ca2)
    BY OtherPlaces
  <2> QED
    BY <1>0, <2>1 DEF PlacesHave, OnlyBy
<1>2. Spread(nx, fi, lo2, ca2, P)
  BY <1>1 DEF Spread, AreStacks
<1>3. KindsOf(ca2)[Moved(t)] = KindsOf(ca)[Moved(t)] \/ P[Moved(t)] = {}
  <2>1. IsList(nx, P[Moved(t)], ca[t].list, ca[t].last)
    BY <1>0, PlacesApart DEF Spread, AreStacks, PlacesHave
  <2> QED
    BY <1>0, <2>1, ListTyped DEF PlacesHave
<1> QED
  BY <1>1, <1>2, <1>3 DEF SameFree, SameWithin, Within

\* Stacks that go from one place to another.
CarriesIn(a, b, fi, lo, ca, fi2, lo2, ca2) ==
    Carries(a, b, HeadsOf(fi, lo, ca), LastsOf(ca), KindsOf(ca),
                  HeadsOf(fi2, lo2, ca2), LastsOf(ca2), KindsOf(ca2))
JoinsIn(nx, a, b, fi, lo, ca, fi2, lo2, ca2) ==
    Joins(nx, a, b, HeadsOf(fi, lo, ca), LastsOf(ca), KindsOf(ca),
                    HeadsOf(fi2, lo2, ca2), LastsOf(ca2), KindsOf(ca2))

\* A stack goes from one place to another, and the pages of each kind are the
\* same.
LEMMA SpreadCarried ==
    ASSUME NEW nx, NEW fi, NEW lo, NEW ca, NEW fi2, NEW lo2, NEW ca2, NEW P \in Stack,
           Spread(nx, fi, lo, ca, P), NEW a, NEW b, CarriesIn(a, b, fi, lo, ca, fi2, lo2, ca2)
    PROVE  /\ Together(a, b, P) \in Stack /\ Spread(nx, fi2, lo2, ca2, Together(a, b, P))
           /\ SameFree(ca, P, ca2, Together(a, b, P))
BY StackCarried DEF CarriesIn, Spread, SameFree

\* A stack is put on another of its kind.
LEMMA SpreadJoined ==
    ASSUME NEW nx, NEW fi, NEW lo, NEW ca, NEW fi2, NEW lo2, NEW ca2, NEW P \in Stack,
           Spread(nx, fi, lo, ca, P), NEW a, NEW b, JoinsIn(nx, a, b, fi, lo, ca, fi2, lo2, ca2)
    PROVE  /\ Together(a, b, P) \in Stack /\ Spread(nx, fi2, lo2, ca2, Together(a, b, P))
           /\ SameFree(ca, P, ca2, Together(a, b, P))
BY StackJoined DEF JoinsIn, Spread, SameFree

SlotChanged(fi, fi2, s, k) ==
    \A r \in Slots, j \in Kinds : (r = s /\ j = k) \/ fi2[r][j] = fi[r][j]
OwnSame(c, l, c2, l2, A) == \A j \in Kinds \ A : Own(c2, l2, j) = Own(c, l, j)

\* All places are the same, but those of the thread and a slot that are named.
LEMMA SameElsewhere ==
    ASSUME NEW fi, NEW lo, NEW ca, NEW fi2, NEW lo2, NEW ca2,
           NEW t \in Threads, Others(t, lo, lo2), Others(t, ca, ca2), NEW A, Moved(t) \in A,
           \A k \in Kinds : Private(t, k) \in A \/ Own(ca2[t], lo2[t], k) = Own(ca[t], lo[t], k),
           \A s \in Slots, k \in Kinds : InSlot(s, k) \in A \/ fi2[s][k] = fi[s][k]
    PROVE  SameBut(A, HeadsOf(fi, lo, ca), LastsOf(ca), KindsOf(ca),
                      HeadsOf(fi2, lo2, ca2), LastsOf(ca2), KindsOf(ca2))
<1> SUFFICES ASSUME NEW x \in Places \ A
             PROVE  /\ HeadsOf(fi2, lo2, ca2)[x] = HeadsOf(fi, lo, ca)[x]
                    /\ LastsOf(ca2)[x] = LastsOf(ca)[x] /\ KindsOf(ca2)[x] = KindsOf(ca)[x]
  BY DEF SameBut
<1>1. OnlyBy(t, x, fi, lo, ca, fi2, lo2, ca2)
  BY OtherPlaces
<1>2. \A s \in Slots, k \in Kinds : InSlot(s, k) \in A \/ SlotHead(fi2, s, k) = SlotHead(fi, s, k)
  BY DEF SlotHead
<1> QED
  BY <1>1, <1>2 DEF OnlyBy

\* A thread takes a private stack of its own.
TakesPrivate(t, k, fi, lo, ca, fi2, lo2, ca2) ==
    /\ t \in Threads /\ k \in Kinds /\ Others(t, lo, lo2) /\ Others(t, ca, ca2)
    /\ fi2 = fi /\ ca[t].list = NoPage /\ ca2[t].list = Own(ca[t], lo[t], k)
    /\ ca2[t].last = NoPage /\ ca2[t].kind = k /\ Own(ca2[t], lo2[t], k) = NoPage
    /\ OwnSame(ca[t], lo[t], ca2[t], lo2[t], {k})

\* A call takes the private stack of its thread.
LEMMA TakePrivate ==
    ASSUME NEW nx, NEW fi, NEW lo, NEW ca, NEW fi2, NEW lo2, NEW ca2, NEW P \in Stack,
           Spread(nx, fi, lo, ca, P), NEW t, NEW k,
           TakesPrivate(t, k, fi, lo, ca, fi2, lo2, ca2)
    PROVE  \E P2 \in Stack : /\ Spread(nx, fi2, lo2, ca2, P2) /\ SameFree(ca, P, ca2, P2)
                             /\ OthersMoved(t, P, P2) /\ P2[Moved(t)] = P[Moved(t)] \cup P[Private(t, k)]
<1> DEFINE a == Private(t, k)
           b == Moved(t)
<1>0. /\ t \in Threads /\ k \in Kinds /\ Others(t, lo, lo2) /\ Others(t, ca, ca2)
      /\ fi2 = fi /\ ca[t].list = NoPage /\ ca2[t].list = Own(ca[t], lo[t], k)
      /\ ca2[t].last = NoPage /\ ca2[t].kind = k /\ Own(ca2[t], lo2[t], k) = NoPage
      /\ OwnSame(ca[t], lo[t], ca2[t], lo2[t], {k})
  BY DEF TakesPrivate
<1>1. a \in Places /\ b \in Places /\ a # b
  BY <1>0, PlacesApart
<1>2. PlacesHave(fi, lo, ca) /\ PlacesHave(fi2, lo2, ca2)
  BY HeadsAre
<1>3. SameBut({a, b}, HeadsOf(fi, lo, ca), LastsOf(ca), KindsOf(ca),
               HeadsOf(fi2, lo2, ca2), LastsOf(ca2), KindsOf(ca2))
  BY <1>0, SameElsewhere DEF OwnSame, SlotChanged
<1>4. CarriesIn(a, b, fi, lo, ca, fi2, lo2, ca2)
  BY <1>0, <1>1, <1>2, <1>3, PagesNotNull DEF Carries, CarriesIn, PlacesHave, SlotHead
<1> DEFINE P2 == Together(a, b, P)
<1>5. P2 \in Stack /\ Spread(nx, fi2, lo2, ca2, P2) /\ SameFree(ca, P, ca2, P2)
  <2> HIDE DEF a, b
  <2> QED
    BY <1>4, SpreadCarried
<1>6. OthersMoved(t, P, P2) /\ P2[Moved(t)] = P[Moved(t)] \cup P[Private(t, k)]
  BY <1>0, <1>1, PlacesApart DEF OthersMoved, Stack, Together
<1> QED
  BY <1>5, <1>6

\* It takes the stack of a slot.
TakesSlot(t, s, k, fi, lo, ca, fi2, lo2, ca2) ==
    /\ t \in Threads /\ s \in Slots /\ k \in Kinds /\ Others(t, lo, lo2) /\ Others(t, ca, ca2)
    /\ SlotChanged(fi, fi2, s, k) /\ fi2[s][k] \in {Marker, NoPage} /\ ca[t].list = NoPage
    /\ fi[s][k] \in Pages \cup {NoPage} /\ ca2[t].list = fi[s][k] /\ ca2[t].last = NoPage
    /\ ca2[t].kind = k /\ OwnSame(ca[t], lo[t], ca2[t], lo2[t], {})

\* A call takes the stack of a slot: exchange with the marker, or CAS with the
\* null pointer.
LEMMA TakeSlot ==
    ASSUME NEW nx, NEW fi, NEW lo, NEW ca, NEW fi2, NEW lo2, NEW ca2, NEW P \in Stack,
           Spread(nx, fi, lo, ca, P), NEW t, NEW s, NEW k,
           TakesSlot(t, s, k, fi, lo, ca, fi2, lo2, ca2)
    PROVE  \E P2 \in Stack : /\ Spread(nx, fi2, lo2, ca2, P2) /\ SameFree(ca, P, ca2, P2)
                             /\ OthersMoved(t, P, P2) /\ P2[Moved(t)] = P[Moved(t)] \cup P[InSlot(s, k)]
<1> DEFINE a == InSlot(s, k)
           b == Moved(t)
<1>0. /\ t \in Threads /\ s \in Slots /\ k \in Kinds /\ Others(t, lo, lo2) /\ Others(t, ca, ca2)
      /\ SlotChanged(fi, fi2, s, k) /\ fi2[s][k] \in {Marker, NoPage} /\ ca[t].list = NoPage
      /\ fi[s][k] \in Pages \cup {NoPage} /\ ca2[t].list = fi[s][k] /\ ca2[t].last = NoPage
      /\ ca2[t].kind = k /\ OwnSame(ca[t], lo[t], ca2[t], lo2[t], {})
  BY DEF TakesSlot
<1>1. a \in Places /\ b \in Places /\ a # b
  BY <1>0, PlacesApart
<1>2. PlacesHave(fi, lo, ca) /\ PlacesHave(fi2, lo2, ca2)
  BY HeadsAre
<1>3. SameBut({a, b}, HeadsOf(fi, lo, ca), LastsOf(ca), KindsOf(ca),
               HeadsOf(fi2, lo2, ca2), LastsOf(ca2), KindsOf(ca2))
  BY <1>0, SameElsewhere DEF OwnSame, SlotChanged
<1>4. CarriesIn(a, b, fi, lo, ca, fi2, lo2, ca2)
  BY <1>0, <1>1, <1>2, <1>3, PagesNotNull DEF Carries, CarriesIn, PlacesHave, SlotHead
<1> DEFINE P2 == Together(a, b, P)
<1>5. P2 \in Stack /\ Spread(nx, fi2, lo2, ca2, P2) /\ SameFree(ca, P, ca2, P2)
  <2> HIDE DEF a, b
  <2> QED
    BY <1>4, SpreadCarried
<1>6. OthersMoved(t, P, P2) /\ P2[Moved(t)] = P[Moved(t)] \cup P[InSlot(s, k)]
  BY <1>0, <1>1, PlacesApart DEF OthersMoved, Stack, Together
<1> QED
  BY <1>5, <1>6

\* It gives back the stack of a slot that it has locked.
GivesSlot(t, s, k, fi, lo, ca, fi2, lo2, ca2) ==
    /\ t \in Threads /\ s \in Slots /\ k \in Kinds /\ Others(t, lo, lo2) /\ Others(t, ca, ca2)
    /\ SlotChanged(fi, fi2, s, k) /\ fi[s][k] \in {Marker, NoPage} /\ ca[t].kind = k
    /\ ca[t].last = NoPage /\ ca[t].list \in Pages \cup {NoPage} /\ fi2[s][k] = ca[t].list
    /\ ca2[t].list = NoPage /\ ca2[t].last = NoPage /\ OwnSame(ca[t], lo[t], ca2[t], lo2[t], {})

\* A call gives its stack to a slot that is locked, or empty.
LEMMA GiveSlot ==
    ASSUME NEW nx, NEW fi, NEW lo, NEW ca, NEW fi2, NEW lo2, NEW ca2, NEW P \in Stack,
           Spread(nx, fi, lo, ca, P), NEW t, NEW s, NEW k,
           GivesSlot(t, s, k, fi, lo, ca, fi2, lo2, ca2)
    PROVE  \E P2 \in Stack : /\ Spread(nx, fi2, lo2, ca2, P2) /\ SameFree(ca, P, ca2, P2)
                             /\ OthersMoved(t, P, P2) /\ P2[Moved(t)] = {}
<1> DEFINE a == Moved(t)
           b == InSlot(s, k)
<1>0. /\ t \in Threads /\ s \in Slots /\ k \in Kinds /\ Others(t, lo, lo2) /\ Others(t, ca, ca2)
      /\ SlotChanged(fi, fi2, s, k) /\ fi[s][k] \in {Marker, NoPage} /\ ca[t].kind = k
      /\ ca[t].last = NoPage /\ ca[t].list \in Pages \cup {NoPage} /\ fi2[s][k] = ca[t].list
      /\ ca2[t].list = NoPage /\ ca2[t].last = NoPage /\ OwnSame(ca[t], lo[t], ca2[t], lo2[t], {})
  BY DEF GivesSlot
<1>1. a \in Places /\ b \in Places /\ a # b
  BY <1>0, PlacesApart
<1>2. PlacesHave(fi, lo, ca) /\ PlacesHave(fi2, lo2, ca2)
  BY HeadsAre
<1>3. SameBut({a, b}, HeadsOf(fi, lo, ca), LastsOf(ca), KindsOf(ca),
               HeadsOf(fi2, lo2, ca2), LastsOf(ca2), KindsOf(ca2))
  BY <1>0, SameElsewhere DEF OwnSame, SlotChanged
<1>4. CarriesIn(a, b, fi, lo, ca, fi2, lo2, ca2)
  BY <1>0, <1>1, <1>2, <1>3, PagesNotNull DEF Carries, CarriesIn, PlacesHave, SlotHead
<1> DEFINE P2 == Together(a, b, P)
<1>5. P2 \in Stack /\ Spread(nx, fi2, lo2, ca2, P2) /\ SameFree(ca, P, ca2, P2)
  <2> HIDE DEF a, b
  <2> QED
    BY <1>4, SpreadCarried
<1>6. OthersMoved(t, P, P2) /\ P2[Moved(t)] = {}
  BY <1>0, <1>1, PlacesApart DEF OthersMoved, Stack, Together
<1> QED
  BY <1>5, <1>6

\* It gives back its private stack after the search.
GivesPrivate(t, k, fi, lo, ca, fi2, lo2, ca2) ==
    /\ t \in Threads /\ k \in Kinds /\ Others(t, lo, lo2) /\ Others(t, ca, ca2)
    /\ fi2 = fi /\ ca[t].kind = k /\ ca[t].last = NoPage /\ Own(ca[t], lo[t], k) = NoPage
    /\ Own(ca2[t], lo2[t], k) = ca[t].list /\ ca2[t].list = NoPage /\ ca2[t].last = NoPage
    /\ OwnSame(ca[t], lo[t], ca2[t], lo2[t], {k})

\* A call gives its stack to its thread, which had none of that kind.
LEMMA GivePrivate ==
    ASSUME NEW nx, NEW fi, NEW lo, NEW ca, NEW fi2, NEW lo2, NEW ca2, NEW P \in Stack,
           Spread(nx, fi, lo, ca, P), NEW t, NEW k,
           GivesPrivate(t, k, fi, lo, ca, fi2, lo2, ca2)
    PROVE  \E P2 \in Stack : /\ Spread(nx, fi2, lo2, ca2, P2) /\ SameFree(ca, P, ca2, P2)
                             /\ OthersMoved(t, P, P2) /\ P2[Moved(t)] = {}
<1> DEFINE a == Moved(t)
           b == Private(t, k)
<1>0. /\ t \in Threads /\ k \in Kinds /\ Others(t, lo, lo2) /\ Others(t, ca, ca2)
      /\ fi2 = fi /\ ca[t].kind = k /\ ca[t].last = NoPage /\ Own(ca[t], lo[t], k) = NoPage
      /\ Own(ca2[t], lo2[t], k) = ca[t].list /\ ca2[t].list = NoPage /\ ca2[t].last = NoPage
      /\ OwnSame(ca[t], lo[t], ca2[t], lo2[t], {k})
  BY DEF GivesPrivate
<1>1. a \in Places /\ b \in Places /\ a # b
  BY <1>0, PlacesApart
<1>2. PlacesHave(fi, lo, ca) /\ PlacesHave(fi2, lo2, ca2)
  BY HeadsAre
<1>3. SameBut({a, b}, HeadsOf(fi, lo, ca), LastsOf(ca), KindsOf(ca),
               HeadsOf(fi2, lo2, ca2), LastsOf(ca2), KindsOf(ca2))
  BY <1>0, SameElsewhere DEF OwnSame, SlotChanged
<1>4. CarriesIn(a, b, fi, lo, ca, fi2, lo2, ca2)
  BY <1>0, <1>1, <1>2, <1>3, PagesNotNull DEF Carries, CarriesIn, PlacesHave, SlotHead
<1> DEFINE P2 == Together(a, b, P)
<1>5. P2 \in Stack /\ Spread(nx, fi2, lo2, ca2, P2) /\ SameFree(ca, P, ca2, P2)
  <2> HIDE DEF a, b
  <2> QED
    BY <1>4, SpreadCarried
<1>6. OthersMoved(t, P, P2) /\ P2[Moved(t)] = {}
  BY <1>0, <1>1, PlacesApart DEF OthersMoved, Stack, Together
<1> QED
  BY <1>5, <1>6

\* A stack linked to that of a slot is pushed there.
JoinsSlot(t, s, k, nx, fi, lo, ca, fi2, lo2, ca2) ==
    /\ t \in Threads /\ s \in Slots /\ k \in Kinds /\ Others(t, lo, lo2) /\ Others(t, ca, ca2)
    /\ SlotChanged(fi, fi2, s, k) /\ fi[s][k] \in Pages \cup {NoPage} /\ ca[t].kind = k
    /\ ca[t].last # NoPage /\ nx[ca[t].last] = fi[s][k] /\ ca[t].list \in Pages
    /\ fi2[s][k] = ca[t].list /\ ca2[t].list = NoPage /\ ca2[t].last = NoPage
    /\ OwnSame(ca[t], lo[t], ca2[t], lo2[t], {})

\* A call puts its stack on the one of a slot, to which its last page is
\* linked.
LEMMA JoinSlot ==
    ASSUME NEW nx, NEW fi, NEW lo, NEW ca, NEW fi2, NEW lo2, NEW ca2, NEW P \in Stack,
           Spread(nx, fi, lo, ca, P), NEW t, NEW s, NEW k,
           JoinsSlot(t, s, k, nx, fi, lo, ca, fi2, lo2, ca2)
    PROVE  \E P2 \in Stack : /\ Spread(nx, fi2, lo2, ca2, P2) /\ SameFree(ca, P, ca2, P2)
                             /\ OthersMoved(t, P, P2) /\ P2[Moved(t)] = {}
<1> DEFINE a == Moved(t)
           b == InSlot(s, k)
<1>0. /\ t \in Threads /\ s \in Slots /\ k \in Kinds /\ Others(t, lo, lo2) /\ Others(t, ca, ca2)
      /\ SlotChanged(fi, fi2, s, k) /\ fi[s][k] \in Pages \cup {NoPage} /\ ca[t].kind = k
      /\ ca[t].last # NoPage /\ nx[ca[t].last] = fi[s][k] /\ ca[t].list \in Pages
      /\ fi2[s][k] = ca[t].list /\ ca2[t].list = NoPage /\ ca2[t].last = NoPage
      /\ OwnSame(ca[t], lo[t], ca2[t], lo2[t], {})
  BY DEF JoinsSlot
<1>1. a \in Places /\ b \in Places /\ a # b
  BY <1>0, PlacesApart
<1>2. PlacesHave(fi, lo, ca) /\ PlacesHave(fi2, lo2, ca2)
  BY HeadsAre
<1>3. SameBut({a, b}, HeadsOf(fi, lo, ca), LastsOf(ca), KindsOf(ca),
               HeadsOf(fi2, lo2, ca2), LastsOf(ca2), KindsOf(ca2))
  BY <1>0, SameElsewhere DEF OwnSame, SlotChanged
<1>4. JoinsIn(nx, a, b, fi, lo, ca, fi2, lo2, ca2)
  BY <1>0, <1>1, <1>2, <1>3, PagesNotNull DEF Joins, JoinsIn, PlacesHave, SlotHead
<1> DEFINE P2 == Together(a, b, P)
<1>5. P2 \in Stack /\ Spread(nx, fi2, lo2, ca2, P2) /\ SameFree(ca, P, ca2, P2)
  <2> HIDE DEF a, b
  <2> QED
    BY <1>4, SpreadJoined
<1>6. OthersMoved(t, P, P2) /\ P2[Moved(t)] = {}
  BY <1>0, <1>1, PlacesApart DEF OthersMoved, Stack, Together
<1> QED
  BY <1>5, <1>6

\* A stack linked to a private one is pushed there.
JoinsPrivate(t, k, nx, fi, lo, ca, fi2, lo2, ca2) ==
    /\ t \in Threads /\ k \in Kinds /\ Others(t, lo, lo2) /\ Others(t, ca, ca2)
    /\ fi2 = fi /\ ca[t].kind = k /\ ca[t].last # NoPage
    /\ nx[ca[t].last] = Own(ca[t], lo[t], k) /\ Own(ca2[t], lo2[t], k) = ca[t].list
    /\ ca2[t].list = NoPage /\ ca2[t].last = NoPage
    /\ OwnSame(ca[t], lo[t], ca2[t], lo2[t], {k})

\* A call puts its stack on the private one.
LEMMA JoinPrivate ==
    ASSUME NEW nx, NEW fi, NEW lo, NEW ca, NEW fi2, NEW lo2, NEW ca2, NEW P \in Stack,
           Spread(nx, fi, lo, ca, P), NEW t, NEW k,
           JoinsPrivate(t, k, nx, fi, lo, ca, fi2, lo2, ca2)
    PROVE  \E P2 \in Stack : /\ Spread(nx, fi2, lo2, ca2, P2) /\ SameFree(ca, P, ca2, P2)
                             /\ OthersMoved(t, P, P2) /\ P2[Moved(t)] = {}
<1> DEFINE a == Moved(t)
           b == Private(t, k)
<1>0. /\ t \in Threads /\ k \in Kinds /\ Others(t, lo, lo2) /\ Others(t, ca, ca2)
      /\ fi2 = fi /\ ca[t].kind = k /\ ca[t].last # NoPage
      /\ nx[ca[t].last] = Own(ca[t], lo[t], k) /\ Own(ca2[t], lo2[t], k) = ca[t].list
      /\ ca2[t].list = NoPage /\ ca2[t].last = NoPage
      /\ OwnSame(ca[t], lo[t], ca2[t], lo2[t], {k})
  BY DEF JoinsPrivate
<1>1. a \in Places /\ b \in Places /\ a # b
  BY <1>0, PlacesApart
<1>2. PlacesHave(fi, lo, ca) /\ PlacesHave(fi2, lo2, ca2)
  BY HeadsAre
<1>3. SameBut({a, b}, HeadsOf(fi, lo, ca), LastsOf(ca), KindsOf(ca),
               HeadsOf(fi2, lo2, ca2), LastsOf(ca2), KindsOf(ca2))
  BY <1>0, SameElsewhere DEF OwnSame, SlotChanged
<1>4. JoinsIn(nx, a, b, fi, lo, ca, fi2, lo2, ca2)
  BY <1>0, <1>1, <1>2, <1>3, PagesNotNull DEF Joins, JoinsIn, PlacesHave, SlotHead
<1> DEFINE P2 == Together(a, b, P)
<1>5. P2 \in Stack /\ Spread(nx, fi2, lo2, ca2, P2) /\ SameFree(ca, P, ca2, P2)
  <2> HIDE DEF a, b
  <2> QED
    BY <1>4, SpreadJoined
<1>6. OthersMoved(t, P, P2) /\ P2[Moved(t)] = {}
  BY <1>0, <1>1, PlacesApart DEF OthersMoved, Stack, Together
<1> QED
  BY <1>5, <1>6

---------------------------------------------------------------------------
(* Pages that leave a stack or become one, and links that change *)

LinksKept(t, nx, nx2, P) == \A u \in Threads \ {t} : \A p \in P[Moved(u)] : nx2[p] = nx[p]
\* q leaves the list S, which is its first page or comes after another.
Unlinked(nx, nx2, S, h, h2, q) ==
    \/ h = q /\ h2 = nx[q] /\ nx2 = nx
    \/ /\ h2 = h
       /\ \E p \in S : nx[p] = q /\ nx2[p] = nx[q] /\ \A r \in Pages \ {p} : nx2[r] = nx[r]
FreeLess(ca, P, ca2, P2, q) ==
    \A p, k : Within(p, KindsOf(ca2), P2, k) <=> Within(p, KindsOf(ca), P, k) /\ p # q
FreeMore(ca, P, ca2, P2, q, j) == MoreWithin(KindsOf(ca), P, KindsOf(ca2), P2, q, j)

\* A thread takes a page out of the stack that it has.
LosesPage(t, q, nx, lo, ca, nx2, lo2, ca2, S) ==
    /\ t \in Threads /\ Others(t, lo, lo2) /\ Others(t, ca, ca2)
    /\ q \in S /\ Unlinked(nx, nx2, S, ca[t].list, ca2[t].list, q)
    /\ ca[t].last = NoPage /\ ca2[t].last = NoPage /\ ca2[t].kind = ca[t].kind
    /\ OwnSame(ca[t], lo[t], ca2[t], lo2[t], {})

\* A page found in the stack of a call is free no more.
LEMMA SpreadLess ==
    ASSUME NEW nx, NEW fi, NEW lo, NEW ca, NEW nx2, NEW lo2, NEW ca2, NEW P \in Stack,
           Spread(nx, fi, lo, ca, P), NEW t, NEW q,
           LosesPage(t, q, nx, lo, ca, nx2, lo2, ca2, P[Moved(t)])
    PROVE  \E P2 \in Stack : /\ Spread(nx2, fi, lo2, ca2, P2) /\ FreeLess(ca, P, ca2, P2, q)
                             /\ OthersMoved(t, P, P2) /\ P2[Moved(t)] = P[Moved(t)] \ {q}
                             /\ LinksKept(t, nx, nx2, P) /\ Within(q, KindsOf(ca), P, ca[t].kind)
<1> DEFINE a == Moved(t)
           H == HeadsOf(fi, lo, ca)
           H2 == HeadsOf(fi, lo2, ca2)
           L == LastsOf(ca)
           L2 == LastsOf(ca2)
           P2 == Without(a, P, q)
<1>0. /\ t \in Threads /\ Others(t, lo, lo2) /\ Others(t, ca, ca2)
      /\ q \in P[Moved(t)] /\ Unlinked(nx, nx2, P[Moved(t)], ca[t].list, ca2[t].list, q)
      /\ ca[t].last = NoPage /\ ca2[t].last = NoPage /\ ca2[t].kind = ca[t].kind
      /\ OwnSame(ca[t], lo[t], ca2[t], lo2[t], {})
  BY DEF LosesPage
<1>1. a \in Places /\ \A u \in Threads \ {t} : Moved(u) \in Places \ {a}
  BY <1>0, PlacesApart
<1>2. PlacesHave(fi, lo, ca) /\ PlacesHave(fi, lo2, ca2)
  BY HeadsAre
<1>3. SameBut({a}, H, L, KindsOf(ca), H2, L2, KindsOf(ca2))
  BY <1>0, SameElsewhere DEF OwnSame
<1>4. \A x \in Places : L2[x] = L[x] /\ KindsOf(ca2)[x] = KindsOf(ca)[x]
  BY <1>0, <1>2, <1>3 DEF SameBut, PlacesHave
<1>5. /\ q \in P[a] /\ L[a] = NoPage
      /\ Unlinked(nx, nx2, P[a], H[a], H2[a], q)
      /\ \A x \in Places \ {a} : H2[x] = H[x]
  BY <1>0, <1>2, <1>3 DEF SameBut, PlacesHave
<1>6. Leaves(nx, nx2, a, H, L, P, H2, q)
  <2> HIDE DEF H, L, H2, L2, a
  <2> QED
    BY <1>0, <1>1, <1>5 DEF Leaves, Unlinked
<1>7. P2[Moved(t)] = P[Moved(t)] \ {q} /\ P2[a] = P[a] \ {q} /\ OthersMoved(t, P, P2)
  BY <1>0, <1>1 DEF Stack, OthersMoved, Without
<1>8. Within(q, KindsOf(ca), P, ca[t].kind)
  BY <1>0, <1>1, <1>2 DEF Within, PlacesHave
<1> HIDE DEF P2, H, L, H2, L2, a
<1>9. /\ P2 \in Stack /\ AreStacks(nx2, H2, L, P2)
      /\ \A x \in Places \ {a} : \A p \in P[x] : nx2[p] = nx[p]
      /\ \A x \in Places \ {a} : P2[x] = P[x] /\ q \notin P[x]
  <2>1. AreStacks(nx, H, L, P)
    BY DEF Spread, H, L
  <2> QED
    BY <1>6, <2>1, StackLess DEF P2
<1>10. Spread(nx2, fi, lo2, ca2, P2)
  BY <1>0, <1>4, <1>9 DEF Spread, AreStacks, H2, L2
<1>11. FreeLess(ca, P, ca2, P2, q)
  BY <1>1, <1>4, <1>5, <1>7, <1>9 DEF FreeLess, Within
<1>12. LinksKept(t, nx, nx2, P)
  BY <1>0, <1>1, <1>9 DEF LinksKept
<1> QED
  BY <1>7, <1>8, <1>9, <1>10, <1>11, <1>12

\* The last page z of the stack that a thread has is linked elsewhere.
Relinks(t, z, nx, lo, ca, nx2, lo2, ca2, S) ==
    /\ t \in Threads /\ Others(t, lo, lo2) /\ Others(t, ca, ca2)
    /\ z \in S /\ \A r \in Pages \ {z} : nx2[r] = nx[r]
    /\ ca[t].last = z \/ (ca[t].last = NoPage /\ nx[z] = NoPage)
    /\ ca2[t].last = z \/ (ca2[t].last = NoPage /\ nx2[z] = NoPage)
    /\ ca2[t].list = ca[t].list /\ ca2[t].kind = ca[t].kind
    /\ OwnSame(ca[t], lo[t], ca2[t], lo2[t], {})

\* A call links the last page of its stack to another one: no stack changes.
LEMMA SpreadLinked ==
    ASSUME NEW nx, NEW fi, NEW lo, NEW ca, NEW nx2, NEW lo2, NEW ca2, NEW P \in Stack,
           Spread(nx, fi, lo, ca, P), NEW t, NEW z,
           Relinks(t, z, nx, lo, ca, nx2, lo2, ca2, P[Moved(t)])
    PROVE  Spread(nx2, fi, lo2, ca2, P) /\ SameFree(ca, P, ca2, P) /\ LinksKept(t, nx, nx2, P)
<1> DEFINE a == Moved(t)
           H == HeadsOf(fi, lo, ca)
           H2 == HeadsOf(fi, lo2, ca2)
           L == LastsOf(ca)
           L2 == LastsOf(ca2)
<1>0. /\ t \in Threads /\ Others(t, lo, lo2) /\ Others(t, ca, ca2)
      /\ z \in P[Moved(t)] /\ \A r \in Pages \ {z} : nx2[r] = nx[r]
      /\ ca[t].last = z \/ (ca[t].last = NoPage /\ nx[z] = NoPage)
      /\ ca2[t].last = z \/ (ca2[t].last = NoPage /\ nx2[z] = NoPage)
      /\ ca2[t].list = ca[t].list /\ ca2[t].kind = ca[t].kind
      /\ OwnSame(ca[t], lo[t], ca2[t], lo2[t], {})
  BY DEF Relinks
<1>1. a \in Places /\ \A u \in Threads \ {t} : Moved(u) \in Places \ {a}
  BY <1>0, PlacesApart
<1>2. PlacesHave(fi, lo, ca) /\ PlacesHave(fi, lo2, ca2)
  BY HeadsAre
<1>3. SameBut({a}, H, L, KindsOf(ca), H2, L2, KindsOf(ca2))
  BY <1>0, SameElsewhere DEF OwnSame
<1>4. \A x \in Places : H2[x] = H[x] /\ KindsOf(ca2)[x] = KindsOf(ca)[x]
  BY <1>0, <1>2, <1>3 DEF SameBut, PlacesHave
<1>5. /\ z \in P[a] /\ \A x \in Places \ {a} : L2[x] = L[x]
      /\ L[a] = z \/ (L[a] = NoPage /\ nx[z] = NoPage)
      /\ L2[a] = z \/ (L2[a] = NoPage /\ nx2[z] = NoPage)
  BY <1>0, <1>2, <1>3 DEF SameBut, PlacesHave
<1> HIDE DEF H, L, H2, L2, a
<1>6. AreStacks(nx2, H, L2, P) /\ \A x \in Places \ {a} : \A p \in P[x] : nx2[p] = nx[p]
  <2>1. AreStacks(nx, H, L, P)
    BY DEF Spread, H, L
  <2>2. Ends(nx, nx2, a, z, L, L2, P)
    BY <1>0, <1>1, <1>5 DEF Ends
  <2> QED
    BY <2>1, <2>2, StackLinked
<1>7. Spread(nx2, fi, lo2, ca2, P)
  BY <1>4, <1>6 DEF Spread, AreStacks, H2, L2
<1>8. SameFree(ca, P, ca2, P)
  BY <1>4 DEF SameFree, SameWithin, Within
<1> QED
  BY <1>0, <1>1, <1>6, <1>7, <1>8 DEF LinksKept

\* A page that is in no stack becomes one.
BeginsWith(t, q, lo, ca, lo2, ca2, P) ==
    /\ t \in Threads /\ Others(t, lo, lo2) /\ Others(t, ca, ca2)
    /\ q \in Pages /\ \A x \in Places : q \notin P[x]
    /\ ca[t].list = NoPage /\ ca2[t].list = q /\ ca2[t].last = q
    /\ OwnSame(ca[t], lo[t], ca2[t], lo2[t], {})

\* A page given back is the stack of the call that pushes it.
LEMMA SpreadOfOne ==
    ASSUME NEW nx, NEW fi, NEW lo, NEW ca, NEW lo2, NEW ca2, NEW P \in Stack,
           Spread(nx, fi, lo, ca, P), NEW t, NEW q, BeginsWith(t, q, lo, ca, lo2, ca2, P)
    PROVE  \E P2 \in Stack : /\ Spread(nx, fi, lo2, ca2, P2) /\ OthersMoved(t, P, P2)
                             /\ FreeMore(ca, P, ca2, P2, q, ca2[t].kind)
<1> DEFINE a == Moved(t)
           H == HeadsOf(fi, lo, ca)
           H2 == HeadsOf(fi, lo2, ca2)
           L == LastsOf(ca)
           L2 == LastsOf(ca2)
           P2 == With(a, P, q)
<1>0. /\ t \in Threads /\ Others(t, lo, lo2) /\ Others(t, ca, ca2)
      /\ q \in Pages /\ \A x \in Places : q \notin P[x]
      /\ ca[t].list = NoPage /\ ca2[t].list = q /\ ca2[t].last = q
      /\ OwnSame(ca[t], lo[t], ca2[t], lo2[t], {})
  BY DEF BeginsWith
<1>1. a \in Places /\ \A u \in Threads \ {t} : Moved(u) \in Places \ {a}
  BY <1>0, PlacesApart
<1>2. PlacesHave(fi, lo, ca) /\ PlacesHave(fi, lo2, ca2)
  BY HeadsAre
<1>3. SameBut({a}, H, L, KindsOf(ca), H2, L2, KindsOf(ca2))
  BY <1>0, SameElsewhere DEF OwnSame
<1>4. H[a] = NoPage /\ H2[a] = q /\ L2[a] = q /\ KindsOf(ca2)[a] = ca2[t].kind
  BY <1>0, <1>2 DEF PlacesHave
<1>5. OthersMoved(t, P, P2)
  BY <1>0, <1>1 DEF Stack, OthersMoved, With
<1> HIDE DEF P2, H, L, H2, L2, a
<1>9. Begins(a, q, H, L, KindsOf(ca), P, H2, L2, KindsOf(ca2))
  BY <1>0, <1>1, <1>3, <1>4 DEF Begins
<1>6. /\ P2 \in Stack /\ AreStacks(nx, H2, L2, P2)
      /\ MoreWithin(KindsOf(ca), P, KindsOf(ca2), P2, q, KindsOf(ca2)[a])
  <2>1. AreStacks(nx, H, L, P)
    BY DEF Spread, H, L
  <2> QED
    BY <1>9, <2>1, StackOfOne DEF P2
<1>7. Spread(nx, fi, lo2, ca2, P2)
  BY <1>6 DEF Spread, H2, L2
<1>8. FreeMore(ca, P, ca2, P2, q, ca2[t].kind)
  BY <1>4, <1>6 DEF FreeMore
<1> QED
  BY <1>5, <1>6, <1>7, <1>8

\* The links of pages that are in no stack do not matter.
LEMMA SpreadFrame ==
    ASSUME NEW nx, NEW fi, NEW lo, NEW ca, NEW nx2, NEW P \in Stack, Spread(nx, fi, lo, ca, P),
           \A x \in Places : \A p \in P[x] : nx2[p] = nx[p]
    PROVE  Spread(nx2, fi, lo, ca, P) /\ \A t : LinksKept(t, nx, nx2, P)
<1>1. \A t \in Threads : Moved(t) \in Places
  BY PlacesApart
<1> QED
  BY <1>1, ListFrame DEF Spread, AreStacks, LinksKept

---------------------------------------------------------------------------
(* The ends of the actions: what they leave the thread with *)

TypedCalls == call \in [Threads -> Call] /\ local \in [Threads -> Local]
ChangedBy(t) ==
    /\ call' \in [Threads -> Call] /\ local' \in [Threads -> Local]
    /\ Others(t, call, call') /\ Others(t, local, local')
\* No stack, no page, no lock, nothing that is searched.
Waits(c) ==
    /\ c.list = NoPage /\ c.last = NoPage /\ c.page = NoPage /\ c.prev = NoPage /\ c.count = 0
    /\ \/ c.op = "none" /\ c.at = "idle"
       \/ c.op = "allocate" /\ c.at \in {"exchange", "steal", "system"}

\* The slots form a ring.
LEMMA SlotsTyped == 0 \in Slots /\ \A s \in Slots : NextSlot(s) \in Slots
BY AllocatorAssumption DEF Slots, NextSlot

\* The call of an idle thread, and the PageAllocator of a new one, have their
\* types.
LEMMA NoCallTyped == NoCall \in Call /\ NewLocal \in Local
BY SlotsTyped DEF NoCall, Call, Ops, Stages, Seen, Kinds, PageOrNull, NewLocal, Local

\* The values that the fields of a call get.
LEMMA FieldsTyped ==
    /\ NoPage \in PageOrNull /\ NoPage \in Seen /\ Pages \subseteq PageOrNull /\ PageOrNull \subseteq Seen
    /\ Nat \subseteq Seen
    /\ {"idle", "assign", "drain", "drain_cas", "drain_next", "add", "count", "count_cas",
        "push", "push_cas", "scan", "exchange", "restore", "steal", "steal_cas", "system"} \subseteq Stages
BY DEF PageOrNull, Seen, Stages, AllocateStages

\* A step gives one thread another call and another state.
LEMMA CallChanged ==
    ASSUME TypedCalls, NEW t \in Threads, NEW c \in Call, NEW l \in Local, Become(t, c), Keep(t, l)
    PROVE  ChangedBy(t) /\ call'[t] = c /\ local'[t] = l
BY DEF TypedCalls, Become, Keep, ChangedBy, Others

\* A call that is over waits.
LEMMA NoCallWaits == Waits(NoCall) /\ NoCall.op = "none"
BY DEF NoCall, Waits

\* A call that waits relies on nothing, and locks nothing.
LEMMA WaitsOK ==
    ASSUME NEW c, Waits(c)
    PROVE  /\ \A nx, l, S : CallOK(nx, c, l, S)
           /\ \A l, k : Own(c, l, k) = l.private[k]
           /\ \A l, s, k : ~Locks(c, l, s, k)
BY DEF Waits, CallOK, StageOK, StackOK, ScanOK, DrainOK, AllocateStages, Draining, Own, Searches, Locks

\* What follows a steal leaves the call waiting, and its page with the client.
LEMMA AfterStealEnds ==
    ASSUME TypedCalls, NEW t \in Threads, NEW c \in Call, NEW l \in Local, AfterSteal(t, c, l),
           c.op = "allocate", c.count = 0, c.prev = NoPage
    PROVE  /\ ChangedBy(t) /\ Waits(call'[t])
           /\ local'[t].private = l.private /\ local'[t].pending = l.pending /\ local'[t].slot = l.slot
           /\ held' = held \cup ({c.page} \ {NoPage})
<1> DEFINE asked == [c EXCEPT !.at = "system", !.list = NoPage, !.last = NoPage, !.seen = NoPage,
                              !.discard = FALSE]
           steal == [asked EXCEPT !.at = "steal"]
           last == [asked EXCEPT !.round = "last"]
           v == NextSlot(l.victim)
           l2 == [l EXCEPT !.victim = v]
<1>1. /\ asked \in Call /\ asked.op = "allocate" /\ asked.at = "system" /\ asked.list = NoPage
      /\ asked.last = NoPage /\ asked.page = c.page /\ asked.count = 0 /\ asked.prev = NoPage
  BY FieldsTyped DEF Call
<1>2. l2 \in Local /\ l2.private = l.private /\ l2.pending = l.pending /\ l2.slot = l.slot
  BY SlotsTyped DEF Local
<1> HIDE DEF asked, l2
<1>3. /\ steal \in Call /\ steal.op = "allocate" /\ steal.at = "steal" /\ steal.list = NoPage
      /\ steal.last = NoPage /\ steal.page = c.page /\ steal.count = 0 /\ steal.prev = NoPage
  BY <1>1, FieldsTyped DEF Call
<1>4. /\ last \in Call /\ last.op = "allocate" /\ last.at = "system" /\ last.list = NoPage
      /\ last.last = NoPage /\ last.page = c.page /\ last.count = 0 /\ last.prev = NoPage
  BY <1>1 DEF Call
<1> HIDE DEF steal, last
<1>5. CASE c.page # NoPage /\ Return(t, c.page) /\ Keep(t, l)
  BY <1>5, CallChanged, NoCallTyped, NoCallWaits DEF Return
<1>6. CASE c.page = NoPage /\ Become(t, asked) /\ Keep(t, l) /\ UNCHANGED held
  BY <1>1, <1>6, CallChanged DEF Waits
<1>7. CASE c.page = NoPage /\ Keep(t, l2) /\ Become(t, steal) /\ UNCHANGED held
  BY <1>2, <1>3, <1>7, CallChanged DEF Waits
<1>8. CASE c.page = NoPage /\ Keep(t, l2) /\ Become(t, last) /\ UNCHANGED held
  BY <1>2, <1>4, <1>8, CallChanged DEF Waits
<1>9. CASE c.page = NoPage /\ Keep(t, l2) /\ Return(t, NoPage)
  BY <1>2, <1>9, CallChanged, NoCallTyped, NoCallWaits DEF Return
<1> QED
  BY <1>5, <1>6, <1>7, <1>8, <1>9 DEF AfterSteal, asked, l2, v, steal, last

---------------------------------------------------------------------------
(* Where the stacks are at the end, and what the call has in hand *)

Reaches(t, nx, fi, ca, P, P2) ==
    /\ Spread(nx, fi, local', call', P2) /\ SameFree(ca, P, call', P2) /\ OthersMoved(t, P, P2)
    /\ CallOK(nx, call'[t], local'[t], P2[Moved(t)])
NoLocks(t) == \A s, k : ~Locks(call'[t], local'[t], s, k)
\* p, unless it is null, is with the call, or with the client.
Hands(t, p) ==
    \/ held' = held /\ TakenBy(t)' = p
    \/ held' = held \cup ({p} \ {NoPage}) /\ TakenBy(t)' = NoPage

\* What two steps of a thread leave alone.
LEMMA OthersTrans ==
    ASSUME NEW t, NEW f, NEW g, NEW h, Others(t, f, g), Others(t, f, h) PROVE Others(t, g, h)
BY DEF Others

\* A call that waits without a stack keeps all stacks.
LEMMA WaitsEnds ==
    ASSUME NEW nx, NEW fi, NEW lo, NEW ca, NEW P \in Stack, NEW t \in Threads,
           Spread(nx, fi, lo, ca, P), Others(t, local, lo), Others(t, call, ca),
           ca[t].list = NoPage, ca[t].last = NoPage,
           ChangedBy(t), Waits(call'[t]),
           \A k \in Kinds : Own(ca[t], lo[t], k) = local'[t].private[k]
    PROVE  Reaches(t, nx, fi, ca, P, P) /\ NoLocks(t) /\ TakenBy(t)' = NoPage /\ ~Draining(call'[t])
<1>1. Others(t, lo, local') /\ Others(t, ca, call')
  BY OthersTrans DEF ChangedBy
<1>2. call'[t].list = NoPage /\ call'[t].last = NoPage /\ TakenBy(t)' = NoPage /\ ~Draining(call'[t])
  BY DEF Waits, TakenBy, Draining
<1>3. \A k \in Kinds : Own(call'[t], local'[t], k) = Own(ca[t], lo[t], k)
  BY WaitsOK
<1>4. Spread(nx, fi, local', call', P) /\ SameFree(ca, P, call', P)
  <2>1. Stays(t, lo, ca, local', call')
    BY <1>1, <1>2, <1>3 DEF Stays
  <2> QED
    BY <2>1, SpreadSame
<1> QED
  BY <1>2, <1>4, WaitsOK DEF Reaches, OthersMoved, NoLocks

\* The destructor takes one private stack, or has none left and ends the
\* thread.
LEMMA DumpEnds ==
    ASSUME TypedCalls, NEW nx, NEW fi, NEW lo, NEW ca, NEW P \in Stack, NEW t \in Threads,
           Spread(nx, fi, lo, ca, P), Others(t, local, lo), Others(t, call, ca),
           ca[t].list = NoPage, ca[t].last = NoPage,
           NEW c \in Call, NEW l \in Local, Dump(t, c, l), c.op = "exit", c.guarantee = "blocking",
           c.count = 0, c.page = NoPage, c.prev = NoPage, l.pending = NoPage,
           \A k \in Kinds : Own(ca[t], lo[t], k) = l.private[k]
    PROVE  /\ \E P2 \in Stack : Reaches(t, nx, fi, ca, P, P2)
           /\ ChangedBy(t) /\ NoLocks(t) /\ TakenBy(t)' = NoPage /\ ~Draining(call'[t])
           /\ local'[t].pending = NoPage
           /\ call'[t].op \in {"exit", "out"} /\ call'[t].page = NoPage
<1>1. CASE \A k \in Kinds : l.private[k] = NoPage
  <2> DEFINE out == [NoCall EXCEPT !.op = "out"]
  <2>1. Keep(t, NewLocal) /\ Become(t, out)
    BY <1>1 DEF Dump
  <2>2. /\ out \in Call /\ out.op = "out" /\ out.at = "idle" /\ out.list = NoPage /\ out.last = NoPage
        /\ out.page = NoPage /\ out.prev = NoPage /\ out.count = 0
    <3>1. /\ NoCall.at = "idle" /\ NoCall.list = NoPage /\ NoCall.last = NoPage
          /\ NoCall.page = NoPage /\ NoCall.prev = NoPage /\ NoCall.count = 0
      BY DEF NoCall
    <3>2. NoCall \in Call /\ "out" \in Ops
      BY NoCallTyped DEF Ops
    <3> QED
      BY <3>1, <3>2 DEF Call
  <2>3. NewLocal.private = [k \in Kinds |-> NoPage] /\ NewLocal.pending = NoPage
    BY DEF NewLocal
  <2> HIDE DEF out
  <2>4. ChangedBy(t) /\ call'[t] = out /\ local'[t] = NewLocal
    BY <2>1, <2>2, NoCallTyped, CallChanged
  <2>5. Others(t, lo, local') /\ Others(t, ca, call')
    BY <2>4, OthersTrans DEF ChangedBy
  <2>6. \A k \in Kinds : Own(call'[t], local'[t], k) = Own(ca[t], lo[t], k)
    BY <1>1, <2>2, <2>3, <2>4 DEF Own, Searches
  <2>7. Spread(nx, fi, local', call', P) /\ SameFree(ca, P, call', P)
    <3>1. Stays(t, lo, ca, local', call')
      BY <2>2, <2>4, <2>5, <2>6 DEF Stays
    <3> QED
      BY <3>1, SpreadSame
  <2>8. CallOK(nx, call'[t], local'[t], P[Moved(t)])
    BY <2>2, <2>3, <2>4 DEF CallOK, StageOK, StackOK, ScanOK, DrainOK, AllocateStages, Draining
  <2>9. NoLocks(t) /\ TakenBy(t)' = NoPage /\ ~Draining(call'[t])
    BY <2>2, <2>4 DEF NoLocks, Locks, TakenBy, Draining
  <2> QED
    BY <2>2, <2>3, <2>4, <2>7, <2>8, <2>9 DEF Reaches, OthersMoved
<1>2. CASE \E k \in Kinds : l.private[k] # NoPage
  <2>1. PICK k \in Kinds :
           /\ l.private[k] # NoPage
           /\ Keep(t, [l EXCEPT !.private[k] = NoPage])
           /\ Become(t, [c EXCEPT !.at = "push", !.kind = k, !.list = l.private[k],
                                  !.last = NoPage, !.seen = NoPage])
    BY <1>2 DEF Dump
  <2> DEFINE d == [c EXCEPT !.at = "push", !.kind = k, !.list = l.private[k],
                            !.last = NoPage, !.seen = NoPage]
             m == [l EXCEPT !.private[k] = NoPage]
  <2>2. /\ d \in Call /\ d.op = "exit" /\ d.at = "push" /\ d.list = l.private[k] /\ d.last = NoPage
        /\ d.page = NoPage /\ d.prev = NoPage /\ d.count = 0 /\ d.guarantee = "blocking" /\ d.kind = k
    <3>1. l.private[k] \in PageOrNull
      BY DEF Local
    <3> QED
      BY <3>1, FieldsTyped DEF Call
  <2>3. /\ m \in Local /\ m.pending = NoPage /\ m.private[k] = NoPage
        /\ \A j \in Kinds \ {k} : m.private[j] = l.private[j]
    BY FieldsTyped DEF Local
  <2>4. ChangedBy(t) /\ call'[t] = d /\ local'[t] = m
    <3> HIDE DEF d, m
    <3>1. Keep(t, m) /\ Become(t, d)
      BY <2>1 DEF d, m
    <3> QED
      BY <3>1, <2>2, <2>3, CallChanged
  <2> HIDE DEF d, m
  <2>5. Others(t, lo, local') /\ Others(t, ca, call')
    BY <2>4, OthersTrans DEF ChangedBy
  <2>6. /\ \A j \in Kinds : Own(call'[t], local'[t], j) = m.private[j]
        /\ OwnSame(ca[t], lo[t], call'[t], local'[t], {k})
    BY <2>2, <2>3, <2>4 DEF Own, Searches, OwnSame
  <2>7. PICK P2 \in Stack : /\ Spread(nx, fi, local', call', P2) /\ SameFree(ca, P, call', P2)
                            /\ OthersMoved(t, P, P2)
    <3>1. TakesPrivate(t, k, fi, lo, ca, fi, local', call')
      BY <2>2, <2>3, <2>4, <2>5, <2>6 DEF TakesPrivate
    <3> QED
      BY <3>1, TakePrivate
  <2>8. CallOK(nx, call'[t], local'[t], P2[Moved(t)])
    BY <2>1, <2>2, <2>3, <2>4 DEF CallOK, StageOK, StackOK, ScanOK, DrainOK, AllocateStages, Draining
  <2>9. NoLocks(t) /\ TakenBy(t)' = NoPage /\ ~Draining(call'[t])
    BY <2>2, <2>4 DEF NoLocks, Locks, TakenBy, Draining
  <2> QED
    BY <2>2, <2>3, <2>4, <2>7, <2>8, <2>9 DEF Reaches
<1> QED
  BY <1>1, <1>2

\* A call that begins, or goes on after the pending unpins.
Ready(c, l) ==
    /\ c.count = 0 /\ c.prev = NoPage /\ c.at \in {"idle", "drain", "drain_cas", "drain_next"}
    /\ c.op \in {"allocate", "free", "pin", "unpin", "reserve", "exit"}
    /\ IF c.op = "free" THEN c.list # NoPage /\ c.last = c.list ELSE c.list = NoPage /\ c.last = NoPage
    /\ c.page # NoPage => c.op \in {"pin", "unpin"}
    /\ c.op = "exit" => c.guarantee = "blocking" /\ l.pending = NoPage
\* It is still that call, or it is over.
GoesOn(t, c) ==
    \/ call'[t].op = c.op /\ call'[t].page = c.page /\ call'[t].guarantee = c.guarantee
    \/ c.op = "reserve" /\ call'[t].op = "none" /\ call'[t].page = NoPage
    \/ c.op = "exit" /\ call'[t].op \in {"exit", "out"} /\ call'[t].page = NoPage

\* The stacks do not move.
LEMMA StaysEnds ==
    ASSUME NEW nx, NEW fi, NEW lo, NEW ca, NEW P \in Stack, NEW t \in Threads,
           Spread(nx, fi, lo, ca, P), Others(t, local, lo), Others(t, call, ca), ChangedBy(t),
           call'[t].list = ca[t].list, call'[t].last = ca[t].last,
           ca[t].list = NoPage \/ call'[t].kind = ca[t].kind,
           \A k \in Kinds : Own(call'[t], local'[t], k) = Own(ca[t], lo[t], k),
           CallOK(nx, call'[t], local'[t], P[Moved(t)])
    PROVE  Reaches(t, nx, fi, ca, P, P)
<1>1. Others(t, lo, local') /\ Others(t, ca, call')
  BY OthersTrans DEF ChangedBy
<1>2. Stays(t, lo, ca, local', call')
  BY <1>1 DEF Stays
<1>3. Spread(nx, fi, local', call', P) /\ SameFree(ca, P, call', P)
  BY <1>2, SpreadSame
<1> QED
  BY <1>3 DEF Reaches, OthersMoved

\* After the pending unpins a call is at its first own point, and has its
\* stack.
LEMMA BodyEnds ==
    ASSUME TypedCalls, NEW nx, NEW fi, NEW lo, NEW ca, NEW P \in Stack, NEW t \in Threads,
           Spread(nx, fi, lo, ca, P), Others(t, local, lo), Others(t, call, ca),
           NEW c \in Call, NEW l \in Local, ca[t] = c, lo[t] = l, Body(t, c, l), Ready(c, l)
    PROVE  /\ \E P2 \in Stack : Reaches(t, nx, fi, ca, P, P2)
           /\ ChangedBy(t) /\ NoLocks(t) /\ TakenBy(t)' = NoPage /\ ~Draining(call'[t])
           /\ local'[t].pending = l.pending /\ GoesOn(t, c)
<1>1. \A k \in Kinds : Own(c, l, k) = l.private[k]
  BY DEF Ready, Own, Searches
<1>2. CASE c.op = "allocate"
  <2> DEFINE h == l.private[c.kind]
             scan == [c EXCEPT !.at = "scan", !.stack = "private", !.list = h, !.curr = h]
             exchange == [c EXCEPT !.at = "exchange"]
  <2>1. Keep(t, l) /\ (IF h # NoPage THEN Become(t, scan) ELSE Become(t, exchange))
    BY <1>2 DEF Body
  <2>2. c.kind \in Kinds /\ h \in PageOrNull
    BY DEF Call, Local
  <2>3. /\ scan \in Call /\ scan.op = "allocate" /\ scan.at = "scan" /\ scan.stack = "private"
        /\ scan.list = h /\ scan.curr = h /\ scan.last = c.last /\ scan.page = c.page
        /\ scan.kind = c.kind /\ scan.count = c.count /\ scan.prev = c.prev /\ scan.guarantee = c.guarantee
    BY <1>2, <2>2, FieldsTyped DEF Call
  <2>4. /\ exchange \in Call /\ exchange.op = "allocate" /\ exchange.at = "exchange"
        /\ exchange.list = c.list /\ exchange.last = c.last /\ exchange.page = c.page
        /\ exchange.count = c.count /\ exchange.prev = c.prev /\ exchange.guarantee = c.guarantee
    BY <1>2, FieldsTyped DEF Call
  <2> HIDE DEF scan, exchange
  <2>5. c.list = NoPage /\ c.last = NoPage /\ c.page = NoPage /\ c.count = 0 /\ c.prev = NoPage
    BY <1>2 DEF Ready
  <2>6. CASE h = NoPage
    <3>1. ChangedBy(t) /\ call'[t] = exchange /\ local'[t] = l
      BY <2>1, <2>4, <2>6, CallChanged
    <3>2. Waits(exchange)
      BY <2>4, <2>5 DEF Waits
    <3>3. Reaches(t, nx, fi, ca, P, P) /\ NoLocks(t) /\ TakenBy(t)' = NoPage /\ ~Draining(call'[t])
      BY <1>1, <2>5, <3>1, <3>2, WaitsEnds
    <3> QED
      BY <1>2, <2>4, <3>1, <3>3 DEF GoesOn
  <2>7. CASE h # NoPage
    <3>1. ChangedBy(t) /\ call'[t] = scan /\ local'[t] = l
      BY <2>1, <2>3, <2>7, CallChanged
    <3>2. Others(t, lo, local') /\ Others(t, ca, call')
      BY <3>1, OthersTrans DEF ChangedBy
    <3>3. /\ Own(scan, l, c.kind) = NoPage
          /\ OwnSame(c, l, scan, l, {c.kind})
      BY <1>1, <2>3 DEF Own, Searches, OwnSame
    <3>4. TakesPrivate(t, c.kind, fi, lo, ca, fi, local', call')
      BY <1>1, <2>2, <2>3, <2>5, <3>1, <3>2, <3>3 DEF TakesPrivate
    <3>5. PICK P2 \in Stack : /\ Spread(nx, fi, local', call', P2) /\ SameFree(ca, P, call', P2)
                              /\ OthersMoved(t, P, P2)
      BY <3>4, TakePrivate
    <3>6. CallOK(nx, scan, l, P2[Moved(t)])
      <4>1. h \in P2[Moved(t)]
        <5>1. IsList(nx, P2[Moved(t)], scan.list, scan.last)
          BY <3>1, <3>5, HeadsAre, PlacesApart DEF Spread, AreStacks, PlacesHave
        <5> QED
          BY <2>3, <2>7, <5>1, ListTyped
      <4> QED
        BY <2>3, <2>5, <2>7, <4>1 DEF CallOK, StageOK, StackOK, ScanOK, DrainOK, AllocateStages, Draining
    <3>7. NoLocks(t) /\ TakenBy(t)' = NoPage /\ ~Draining(call'[t])
      BY <2>3, <2>5, <3>1 DEF NoLocks, Locks, TakenBy, Draining
    <3> QED
      BY <1>2, <2>3, <3>1, <3>5, <3>6, <3>7 DEF Reaches, GoesOn
  <2> QED
    BY <2>6, <2>7
<1>3. CASE c.op = "free"
  <2> DEFINE push == [c EXCEPT !.at = "push", !.discard = TRUE, !.from = l.slot]
  <2>1. Keep(t, l) /\ Become(t, push)
    BY <1>3 DEF Body
  <2>2. /\ push \in Call /\ push.op = "free" /\ push.at = "push" /\ push.list = c.list /\ push.last = c.last
        /\ push.page = c.page /\ push.prev = c.prev /\ push.count = c.count /\ push.kind = c.kind /\ push.guarantee = c.guarantee
    <3>1. l.slot \in Slots
      BY DEF Local
    <3> QED
      BY <1>3, <3>1, FieldsTyped DEF Call
  <2> HIDE DEF push
  <2>3. ChangedBy(t) /\ call'[t] = push /\ local'[t] = l
    BY <2>1, <2>2, CallChanged
  <2>4. c.list # NoPage /\ c.last = c.list /\ c.page = NoPage /\ c.count = 0 /\ c.prev = NoPage
    BY <1>3 DEF Ready
  <2>5. CallOK(nx, push, l, P[Moved(t)])
    BY <2>2, <2>4 DEF CallOK, StageOK, StackOK, ScanOK, DrainOK, AllocateStages, Draining
  <2>6. \A k \in Kinds : Own(push, l, k) = l.private[k]
    BY <2>2 DEF Own, Searches
  <2>7. Reaches(t, nx, fi, ca, P, P)
    BY <1>1, <2>2, <2>3, <2>5, <2>6, StaysEnds
  <2>8. NoLocks(t) /\ TakenBy(t)' = NoPage /\ ~Draining(call'[t])
    BY <2>2, <2>3 DEF NoLocks, Locks, TakenBy, Draining
  <2> QED
    BY <1>3, <2>2, <2>3, <2>7, <2>8 DEF GoesOn
<1>4. CASE c.op \in {"pin", "unpin"}
  <2> DEFINE d == [c EXCEPT !.at = IF c.guarantee = "wait_free" THEN "count" ELSE "add"]
  <2>1. Keep(t, l) /\ Become(t, d)
    BY <1>4 DEF Body
  <2>2. /\ d \in Call /\ d.op = c.op /\ d.at \in {"count", "add"}
        /\ d.at = "count" => c.guarantee = "wait_free"
        /\ d.list = c.list /\ d.last = c.last
        /\ d.page = c.page /\ d.prev = c.prev /\ d.count = c.count /\ d.kind = c.kind /\ d.guarantee = c.guarantee
    BY FieldsTyped DEF Call
  <2> HIDE DEF d
  <2>3. ChangedBy(t) /\ call'[t] = d /\ local'[t] = l
    BY <2>1, <2>2, CallChanged
  <2>4. c.list = NoPage /\ c.last = NoPage /\ c.count = 0 /\ c.prev = NoPage
    BY <1>4 DEF Ready
  <2>5. CallOK(nx, d, l, P[Moved(t)])
    BY <1>4, <2>2, <2>4 DEF CallOK, StageOK, StackOK, ScanOK, DrainOK, AllocateStages, Draining
  <2>6. \A k \in Kinds : Own(d, l, k) = l.private[k]
    BY <2>2 DEF Own, Searches
  <2>7. Reaches(t, nx, fi, ca, P, P)
    BY <1>1, <2>2, <2>3, <2>5, <2>6, StaysEnds
  <2>8. NoLocks(t) /\ TakenBy(t)' = NoPage /\ ~Draining(call'[t])
    BY <1>4, <2>2, <2>3 DEF NoLocks, Locks, TakenBy, Draining
  <2> QED
    BY <2>2, <2>3, <2>7, <2>8 DEF GoesOn
<1>5. CASE c.op = "reserve"
  <2>1. Keep(t, l) /\ Become(t, NoCall)
    BY <1>5 DEF Body
  <2>2. ChangedBy(t) /\ call'[t] = NoCall /\ local'[t] = l
    BY <2>1, NoCallTyped, CallChanged
  <2>3. c.list = NoPage /\ c.last = NoPage
    BY <1>5 DEF Ready
  <2>4. Reaches(t, nx, fi, ca, P, P) /\ NoLocks(t) /\ TakenBy(t)' = NoPage /\ ~Draining(call'[t])
    BY <1>1, <2>2, <2>3, NoCallWaits, WaitsEnds
  <2> QED
    BY <1>5, <2>2, <2>4, NoCallWaits DEF GoesOn, Waits
<1>6. CASE c.op = "exit"
  <2>1. Dump(t, c, l)
    BY <1>6 DEF Body
  <2>2. /\ c.list = NoPage /\ c.last = NoPage /\ c.count = 0 /\ c.page = NoPage /\ c.prev = NoPage
        /\ c.guarantee = "blocking" /\ l.pending = NoPage
    BY <1>6 DEF Ready
  <2>3. /\ \E P2 \in Stack : Reaches(t, nx, fi, ca, P, P2)
        /\ ChangedBy(t) /\ NoLocks(t) /\ TakenBy(t)' = NoPage /\ ~Draining(call'[t])
        /\ local'[t].pending = NoPage /\ call'[t].op \in {"exit", "out"} /\ call'[t].page = NoPage
    BY <1>1, <1>6, <2>1, <2>2, DumpEnds
  <2> QED
    BY <1>6, <2>2, <2>3 DEF GoesOn
<1> QED
  BY <1>2, <1>3, <1>4, <1>5, <1>6 DEF Ready

\* What the searches and the pushes end with: the stacks are at their places,
\* and the page p that was found is with the call or with the client.
Arrives(t, nx, fi, ca, P, l, p) ==
    /\ \E P2 \in Stack : Reaches(t, nx, fi, ca, P, P2)
    /\ ChangedBy(t) /\ ~Draining(call'[t]) /\ local'[t].pending = l.pending /\ Hands(t, p)

\* After pop_unpinned the stack that was searched goes back to where it
\* belongs, or on to be pushed, and the page found stays with the call or gets
\* to the client.
LEMMA ScannedEnds ==
    ASSUME TypedCalls, NEW nx, NEW fi, NEW ca, NEW P \in Stack, NEW t \in Threads,
           Spread(nx, fi, local, ca, P), Others(t, call, ca),
           NEW c \in Call, ca[t] = c, Scanned(t, c),
           c.op = "allocate", c.at = "scan", c.last = NoPage, c.count = 0
    PROVE  /\ Arrives(t, nx, fi, ca, P, local[t], c.page)
           /\ call'[t].op \in {"allocate", "none"}
           /\ \A s, k : Locks(call'[t], local'[t], s, k) => Locks(c, local[t], s, k)
<1> DEFINE l == local[t]
           done == [c EXCEPT !.curr = NoPage, !.prev = NoPage]
           exchange == [done EXCEPT !.at = "exchange", !.list = NoPage]
           restore == [done EXCEPT !.at = "restore"]
           push == [done EXCEPT !.at = "push"]
           l2 == [l EXCEPT !.private[c.kind] = c.list]
<1>1. /\ done \in Call /\ done.op = "allocate" /\ done.at = "scan" /\ done.list = c.list /\ done.kind = c.kind
      /\ done.last = NoPage /\ done.page = c.page /\ done.count = 0 /\ done.prev = NoPage
      /\ done.stack = c.stack
  BY FieldsTyped DEF Call
<1>2. l \in Local /\ c.kind \in Kinds
  BY DEF TypedCalls, Call
<1>3. /\ l2 \in Local /\ l2.private[c.kind] = c.list /\ l2.pending = l.pending /\ l2.slot = l.slot
      /\ \A j \in Kinds \ {c.kind} : l2.private[j] = l.private[j]
  <2>1. c.list \in PageOrNull
    BY DEF Call
  <2> QED
    BY <1>2, <2>1 DEF Local
<1> HIDE DEF done, l2
<1>4. /\ exchange \in Call /\ exchange.op = "allocate" /\ exchange.at = "exchange" /\ exchange.list = NoPage
      /\ exchange.last = NoPage /\ exchange.page = c.page /\ exchange.count = 0 /\ exchange.prev = NoPage
  BY <1>1, FieldsTyped DEF Call
<1>5. /\ restore \in Call /\ restore.op = "allocate" /\ restore.at = "restore" /\ restore.list = c.list
      /\ restore.kind = c.kind
      /\ restore.last = NoPage /\ restore.page = c.page /\ restore.count = 0 /\ restore.prev = NoPage
  BY <1>1, FieldsTyped DEF Call
<1>6. /\ push \in Call /\ push.op = "allocate" /\ push.at = "push" /\ push.list = c.list
      /\ push.kind = c.kind
      /\ push.last = NoPage /\ push.page = c.page /\ push.count = 0 /\ push.prev = NoPage
  BY <1>1, FieldsTyped DEF Call
<1> HIDE DEF exchange, restore, push, l
<1>7. CASE c.stack = "private"
  <2>1. /\ Keep(t, l2)
        /\ \/ c.page # NoPage /\ Become(t, NoCall) /\ held' = held \cup ({c.page} \ {NoPage})
           \/ c.page = NoPage /\ Become(t, exchange) /\ UNCHANGED held
    BY <1>7 DEF Scanned, Return, exchange, done, l2, l
  <2>2. /\ ChangedBy(t) /\ local'[t] = l2 /\ Waits(call'[t])
        /\ held' = held \cup ({c.page} \ {NoPage})
    <3>1. CASE c.page # NoPage
      BY <1>3, <2>1, <3>1, CallChanged, NoCallTyped, NoCallWaits
    <3>2. CASE c.page = NoPage
      <4>1. ChangedBy(t) /\ local'[t] = l2 /\ call'[t] = exchange
        BY <1>3, <1>4, <2>1, <3>2, CallChanged
      <4>2. Waits(exchange)
        BY <1>4, <3>2 DEF Waits
      <4> QED
        BY <2>1, <3>2, <4>1, <4>2
    <3> QED
      BY <3>1, <3>2
  <2>3. Others(t, local, local') /\ Others(t, ca, call')
    BY <2>2, OthersTrans DEF ChangedBy
  <2>4. \A k \in Kinds : Own(call'[t], local'[t], k) = l2.private[k]
    BY <2>2, WaitsOK
  <2>5. Own(c, l, c.kind) = NoPage /\ \A k \in Kinds \ {c.kind} : Own(c, l, k) = l.private[k]
    BY <1>7 DEF Own, Searches
  <2>6. GivesPrivate(t, c.kind, fi, local, ca, fi, local', call')
    <3>1. OwnSame(c, l, call'[t], local'[t], {c.kind})
      BY <1>3, <2>4, <2>5 DEF OwnSame
    <3>2. call'[t].list = NoPage /\ call'[t].last = NoPage
      BY <2>2 DEF Waits
    <3> QED
      BY <1>2, <1>3, <2>3, <2>4, <2>5, <3>1, <3>2 DEF GivesPrivate, l
  <2>7. PICK P2 \in Stack : /\ Spread(nx, fi, local', call', P2) /\ SameFree(ca, P, call', P2)
                            /\ OthersMoved(t, P, P2)
    BY <2>6, GivePrivate
  <2>8. Reaches(t, nx, fi, ca, P, P2)
    BY <2>2, <2>7, WaitsOK DEF Reaches
  <2>9. TakenBy(t)' = NoPage /\ ~Draining(call'[t]) /\ call'[t].op \in {"allocate", "none"}
    BY <2>2 DEF Waits, TakenBy, Draining
  <2>10. \A s, k : ~Locks(call'[t], local'[t], s, k)
    BY <2>2, WaitsOK
  <2> QED
    BY <1>3, <2>2, <2>8, <2>9, <2>10 DEF Arrives, Hands, l
<1>8. ASSUME c.stack # "private", NEW d \in {restore, push}, Become(t, d), UNCHANGED <<local, held>>,
             d.at = "push" => c.list # NoPage /\ c.stack = "stolen", d.at = "restore" => c.stack = "current"
      PROVE  /\ Arrives(t, nx, fi, ca, P, l, c.page)
             /\ call'[t].op = "allocate"
             /\ \A s, k : Locks(call'[t], local'[t], s, k) => Locks(c, l, s, k)
  <2>1. /\ d \in Call /\ d.op = "allocate" /\ d.at \in {"restore", "push"} /\ d.list = c.list /\ d.kind = c.kind
        /\ d.last = NoPage /\ d.page = c.page /\ d.count = 0 /\ d.prev = NoPage
    BY <1>5, <1>6
  <2>2. Keep(t, l)
    BY <1>2, <1>8 DEF Keep, TypedCalls, l
  <2>3. ChangedBy(t) /\ call'[t] = d /\ local'[t] = l
    BY <1>2, <1>8, <2>1, <2>2, CallChanged
  <2>4. CallOK(nx, d, l, P[Moved(t)])
    BY <1>8, <2>1 DEF CallOK, StageOK, StackOK, ScanOK, DrainOK, AllocateStages, Draining
  <2>5. \A k \in Kinds : Own(d, l, k) = Own(c, l, k)
    BY <1>8, <2>1 DEF Own, Searches
  <2>6. Reaches(t, nx, fi, ca, P, P)
    <3>1. Others(t, local, local) /\ local[t] = l
      BY DEF Others, l
    <3> QED
      BY <2>1, <2>3, <2>4, <2>5, <3>1, StaysEnds
  <2>7. TakenBy(t)' = c.page /\ ~Draining(call'[t])
    BY <2>1, <2>3 DEF TakenBy, Draining
  <2>8. \A s, k : Locks(d, l, s, k) => Locks(c, l, s, k)
    BY <1>8, <2>1 DEF Locks
  <2> QED
    BY <1>8, <2>1, <2>3, <2>6, <2>7, <2>8 DEF Arrives, Hands
<1>9. CASE c.stack = "current"
  <2>1. Become(t, restore) /\ UNCHANGED <<local, held>>
    BY <1>9 DEF Scanned, restore, done
  <2> QED
    BY <1>5, <1>8, <1>9, <2>1 DEF l
<1>10. CASE c.stack = "stolen" /\ c.list # NoPage
  <2>1. Become(t, push) /\ UNCHANGED <<local, held>>
    BY <1>10 DEF Scanned, push, done
  <2> QED
    BY <1>6, <1>8, <1>10, <2>1 DEF l
<1>11. CASE c.stack = "stolen" /\ c.list = NoPage
  <2>1. AfterSteal(t, done, l)
    BY <1>11 DEF Scanned, done, l
  <2>2. /\ ChangedBy(t) /\ Waits(call'[t])
        /\ local'[t].private = l.private /\ local'[t].pending = l.pending
        /\ held' = held \cup ({c.page} \ {NoPage})
    BY <1>1, <1>2, <2>1, AfterStealEnds
  <2>3. \A k \in Kinds : Own(c, l, k) = local'[t].private[k]
    BY <1>11, <2>2 DEF Own, Searches
  <2>4. Reaches(t, nx, fi, ca, P, P) /\ NoLocks(t) /\ TakenBy(t)' = NoPage /\ ~Draining(call'[t])
    <3>1. Others(t, local, local) /\ local[t] = l
      BY DEF Others, l
    <3> QED
      BY <1>11, <2>2, <2>3, <3>1, WaitsEnds
  <2> QED
    BY <2>2, <2>4 DEF Arrives, Hands, NoLocks, Waits, l
<1> QED
  BY <1>7, <1>9, <1>10, <1>11 DEF Scanned

\* After a stack was pushed the call is over, or goes on without a stack.
LEMMA PushedEnds ==
    ASSUME TypedCalls, NEW nx, NEW fi, NEW lo, NEW ca, NEW P \in Stack, NEW t \in Threads,
           Spread(nx, fi, lo, ca, P), Others(t, local, lo), Others(t, call, ca),
           ca[t].list = NoPage, ca[t].last = NoPage,
           NEW c \in Call, NEW l \in Local, Pushed(t, c, l),
           \A k \in Kinds : Own(ca[t], lo[t], k) = l.private[k],
           c.count = 0, c.prev = NoPage, c.op # "allocate" => c.page = NoPage,
           c.op = "exit" => c.guarantee = "blocking" /\ l.pending = NoPage
    PROVE  /\ Arrives(t, nx, fi, ca, P, l, c.page) /\ NoLocks(t)
           /\ call'[t].op \in {"allocate", "none"} \/ (c.op = "exit" /\ call'[t].op \in {"exit", "out"})
<1>1. CASE c.op = "free"
  <2>1. ChangedBy(t) /\ call'[t] = NoCall /\ local'[t] = l /\ held' = held
    BY <1>1, CallChanged, NoCallTyped DEF Pushed
  <2>2. Reaches(t, nx, fi, ca, P, P) /\ NoLocks(t) /\ TakenBy(t)' = NoPage /\ ~Draining(call'[t])
    BY <2>1, NoCallWaits, WaitsEnds
  <2> QED
    BY <1>1, <2>1, <2>2, NoCallWaits DEF Arrives, Hands
<1>2. CASE c.op = "allocate"
  <2>1. AfterSteal(t, c, l)
    BY <1>2 DEF Pushed
  <2>2. /\ ChangedBy(t) /\ Waits(call'[t])
        /\ local'[t].private = l.private /\ local'[t].pending = l.pending
        /\ held' = held \cup ({c.page} \ {NoPage})
    BY <1>2, <2>1, AfterStealEnds
  <2>3. Reaches(t, nx, fi, ca, P, P) /\ NoLocks(t) /\ TakenBy(t)' = NoPage /\ ~Draining(call'[t])
    BY <2>2, WaitsEnds
  <2> QED
    BY <2>2, <2>3 DEF Arrives, Hands, Waits
<1>3. CASE c.op = "exit"
  <2>1. Dump(t, c, l) /\ held' = held
    BY <1>3 DEF Pushed
  <2>2. /\ \E P2 \in Stack : Reaches(t, nx, fi, ca, P, P2)
        /\ ChangedBy(t) /\ NoLocks(t) /\ TakenBy(t)' = NoPage /\ ~Draining(call'[t])
        /\ local'[t].pending = NoPage /\ call'[t].op \in {"exit", "out"}
    BY <1>3, <2>1, DumpEnds
  <2> QED
    BY <1>3, <2>1, <2>2 DEF Arrives, Hands
<1> QED
  BY <1>1, <1>2, <1>3 DEF Pushed

\* A call that has a stack to push, of which z is the last page.
Pushes(t, z, P) ==
    LET c == call[t]
    IN  /\ c.op \in {"allocate", "free", "exit"} /\ c.at \in {"push", "push_cas"}
        /\ c.list # NoPage /\ z \in P[Moved(t)]
        /\ c.last = z \/ (c.last = NoPage /\ next[z] = NoPage)
        /\ c.op = "free" => c.last = c.list
        /\ c.count = 0 /\ c.prev = NoPage
        /\ c.op # "allocate" => c.page = NoPage
        /\ c.op = "exit" => c.guarantee = "blocking" /\ local[t].pending = NoPage

\* A push that fails is made again, on this slot or the next, or ends on the
\* private stack: no page is lost.
LEMMA PushFailedEnds ==
    ASSUME TypedCalls, next \in [Pages -> PageOrNull], NEW P \in Stack, NEW t \in Threads, NEW z \in Pages,
           Spread(next, first, local, call, P), Pushes(t, z, P),
           PushFailed(t, call[t], z)
    PROVE  /\ Arrives(t, next', first, call, P, local[t], call[t].page) /\ NoLocks(t)
           /\ LinksKept(t, next, next', P) /\ next' \in [Pages -> PageOrNull]
           /\ \A r \in Pages \ {z} : next'[r] = next[r]
           /\ \/ call'[t].op \in {call[t].op, "none"}
              \/ call[t].op = "exit" /\ call'[t].op = "out"
<1> DEFINE c == call[t]
           l == local[t]
           s == NextSlot(l.slot)
           again == [c EXCEPT !.at = "push", !.last = IF c.op = "free" THEN @ ELSE NoPage,
                              !.seen = NoPage]
           discard == [again EXCEPT !.discard = TRUE, !.from = l.slot]
           moved == [l EXCEPT !.slot = s]
           put == [l EXCEPT !.slot = s, !.private[c.kind] = c.list]
           restored == IF c.op = "free" THEN next ELSE [next EXCEPT ![z] = NoPage]
<1>1. c \in Call /\ l \in Local /\ c.kind \in Kinds /\ c.list \in PageOrNull /\ s \in Slots /\ l.slot \in Slots
  <2>1. c \in Call /\ l \in Local
    BY DEF TypedCalls
  <2> QED
    BY <2>1, SlotsTyped DEF Call, Local
<1>2. /\ again \in Call /\ again.op = c.op /\ again.at = "push" /\ again.list = c.list /\ again.kind = c.kind
      /\ again.last = (IF c.op = "free" THEN c.last ELSE NoPage) /\ again.page = c.page
      /\ again.count = c.count /\ again.prev = c.prev /\ again.guarantee = c.guarantee
  BY <1>1, FieldsTyped DEF Call
<1> HIDE DEF again
<1>3. /\ discard \in Call /\ discard.op = c.op /\ discard.at = "push" /\ discard.list = c.list
      /\ discard.kind = c.kind /\ discard.last = again.last /\ discard.page = c.page
      /\ discard.count = c.count /\ discard.prev = c.prev /\ discard.guarantee = c.guarantee
  BY <1>1, <1>2 DEF Call
<1>4. moved \in Local /\ moved.private = l.private /\ moved.pending = l.pending
  BY <1>1 DEF Local
<1>5. /\ put \in Local /\ put.pending = l.pending /\ put.private[c.kind] = c.list
      /\ \A j \in Kinds \ {c.kind} : put.private[j] = l.private[j]
  BY <1>1 DEF Local
<1> HIDE DEF discard, moved, put
<1>6. /\ \A k \in Kinds : Own(c, l, k) = l.private[k]
      /\ c.list # NoPage /\ z \in P[Moved(t)]
      /\ c.last = z \/ (c.last = NoPage /\ next[z] = NoPage)
      /\ c.count = 0 /\ c.prev = NoPage
      /\ c.op # "allocate" => c.page = NoPage
      /\ c.op = "exit" => c.guarantee = "blocking" /\ l.pending = NoPage
      /\ c.op = "free" => c.last = c.list
      /\ c.op \in {"allocate", "free", "exit"}
  BY DEF Pushes, Own, Searches
<1>7. restored \in [Pages -> PageOrNull]
  BY FieldsTyped
<1> HIDE DEF c, l
<1>8. ASSUME NEW d \in {again, discard}, NEW m \in {l, moved}, Become(t, d), Keep(t, m), UNCHANGED held,
             next' = restored
      PROVE  /\ Arrives(t, next', first, call, P, l, c.page) /\ NoLocks(t)
             /\ LinksKept(t, next, next', P) /\ call'[t].op = c.op
             /\ \A r \in Pages \ {z} : next'[r] = next[r]
  <2>1. /\ d \in Call /\ d.op = c.op /\ d.at = "push" /\ d.list = c.list /\ d.kind = c.kind
        /\ d.last = (IF c.op = "free" THEN c.last ELSE NoPage) /\ d.page = c.page
        /\ d.count = 0 /\ d.prev = NoPage /\ d.guarantee = c.guarantee
    BY <1>2, <1>3, <1>6, <1>8
  <2>2. m \in Local /\ m.private = l.private /\ m.pending = l.pending
    BY <1>1, <1>4, <1>8
  <2>3. ChangedBy(t) /\ call'[t] = d /\ local'[t] = m
    BY <1>8, <2>1, <2>2, CallChanged
  <2>4. CallOK(next', d, m, P[Moved(t)])
    <3>1. StageOK(d)
      BY <1>6, <2>1 DEF StageOK, AllocateStages
    <3>2. StackOK(next', d)
      BY <1>6, <2>1 DEF StackOK
    <3>3. ScanOK(next', d, m, P[Moved(t)]) /\ DrainOK(d, m)
      BY <1>6, <2>1, <2>2 DEF ScanOK, DrainOK
    <3> QED
      BY <3>1, <3>2, <3>3 DEF CallOK
  <2>5. /\ \A k \in Kinds : Own(d, m, k) = Own(c, l, k)
        /\ \A a, k : ~Locks(d, m, a, k)
    BY <1>6, <2>1, <2>2 DEF Own, Searches, Locks
  <2>6. Relinks(t, z, next, local, call, next', local', call', P[Moved(t)])
    <3>1. d.last = z \/ (d.last = NoPage /\ next'[z] = NoPage)
      BY <1>6, <1>8, <2>1
    <3>2. OwnSame(call[t], local[t], call'[t], local'[t], {})
      BY <2>3, <2>5 DEF OwnSame, c, l
    <3>3. call'[t].list = call[t].list /\ call'[t].kind = call[t].kind
      BY <2>1, <2>3 DEF c
    <3>4. \A r \in Pages \ {z} : next'[r] = next[r]
      BY <1>8
    <3>5. /\ call[t].last = z \/ (call[t].last = NoPage /\ next[z] = NoPage)
          /\ call'[t].last = z \/ (call'[t].last = NoPage /\ next'[z] = NoPage)
      BY <1>6, <2>3, <3>1 DEF c
    <3>6. Others(t, local, local') /\ Others(t, call, call')
      BY <2>3 DEF ChangedBy
    <3> QED
      BY <1>6, <3>2, <3>3, <3>4, <3>5, <3>6 DEF Relinks
  <2>7. Spread(next', first, local', call', P) /\ SameFree(call, P, call', P) /\ LinksKept(t, next, next', P)
    BY <2>6, SpreadLinked
  <2>8. Reaches(t, next', first, call, P, P)
    BY <2>3, <2>4, <2>7 DEF Reaches, OthersMoved
  <2>9. Hands(t, c.page) /\ ~Draining(call'[t])
    BY <1>6, <1>8, <2>1, <2>3 DEF Hands, TakenBy, Draining
  <2> QED
    BY <1>8, <2>1, <2>2, <2>3, <2>5, <2>8, <2>9, <2>7 DEF Arrives, NoLocks
<1>9. CASE Become(t, discard) /\ next' = restored /\ UNCHANGED <<local, held>>
  <2>1. Keep(t, l)
    BY <1>9 DEF Keep, TypedCalls, l
  <2> QED
    BY <1>7, <1>8, <1>9, <2>1 DEF c, l
<1>10. CASE Become(t, again) /\ Keep(t, moved) /\ next' = restored /\ UNCHANGED held
  BY <1>7, <1>8, <1>10 DEF c, l
<1>11. CASE c.op # "exit" /\ next' = [next EXCEPT ![z] = l.private[c.kind]] /\ Pushed(t, again, put)
  <2> DEFINE d == [c EXCEPT !.last = z]
             ca == [call EXCEPT ![t] = d]
             cb == [call EXCEPT ![t] = NoCall]
             lo == [local EXCEPT ![t] = put]
  <2>1. /\ d \in Call /\ d.last = z /\ d.list = c.list /\ d.kind = c.kind
        /\ \A k \in Kinds : Own(d, l, k) = l.private[k]
    <3>1. z \in PageOrNull
      BY DEF PageOrNull
    <3>2. d \in Call /\ d.last = z /\ d.list = c.list /\ d.kind = c.kind /\ d.at = c.at
      BY <1>1, <3>1 DEF Call
    <3>3. c.at \in {"push", "push_cas"}
      BY DEF Pushes, c
    <3> QED
      BY <3>2, <3>3 DEF Own, Searches
  <2> HIDE DEF d
  <2>2. /\ Others(t, call, ca) /\ ca[t] = d /\ Others(t, call, cb) /\ cb[t] = NoCall
        /\ Others(t, ca, cb)
        /\ Others(t, local, lo) /\ lo[t] = put /\ Others(t, local, local) /\ call[t] = c /\ local[t] = l
    BY DEF Others, TypedCalls, c, l
  <2> HIDE DEF ca, cb, lo
  <2>3. /\ next' \in [Pages -> PageOrNull] /\ next'[z] = l.private[c.kind]
        /\ \A r \in Pages \ {z} : next'[r] = next[r]
    <3>1. l.private[c.kind] \in PageOrNull
      BY <1>1 DEF Local
    <3> QED
      BY <1>11, <3>1
  <2>4. Relinks(t, z, next, local, call, next', local, ca, P[Moved(t)])
    <3>1. OwnSame(call[t], local[t], ca[t], local[t], {})
      BY <1>6, <2>1, <2>2 DEF OwnSame
    <3>2. /\ ca[t].list = call[t].list /\ ca[t].kind = call[t].kind /\ ca[t].last = z
          /\ call[t].last = z \/ (call[t].last = NoPage /\ next[z] = NoPage)
      BY <1>6, <2>1, <2>2
    <3> QED
      BY <1>6, <2>2, <2>3, <3>1, <3>2 DEF Relinks
  <2>5. Spread(next', first, local, ca, P) /\ SameFree(call, P, ca, P) /\ LinksKept(t, next, next', P)
    BY <2>4, SpreadLinked
  <2>6. JoinsPrivate(t, c.kind, next', first, local, ca, first, lo, cb)
    <3>1. NoCall.list = NoPage /\ NoCall.last = NoPage /\ \A k \in Kinds : Own(NoCall, put, k) = put.private[k]
      BY NoCallWaits, WaitsOK DEF Waits
    <3>2. OwnSame(d, l, NoCall, put, {c.kind})
      BY <1>5, <2>1, <3>1 DEF OwnSame
    <3>3. z # NoPage
      BY PagesNotNull
    <3> QED
      BY <1>1, <1>5, <2>1, <2>2, <2>3, <3>1, <3>2, <3>3 DEF JoinsPrivate
  <2>7. PICK P2 \in Stack : /\ Spread(next', first, lo, cb, P2) /\ SameFree(ca, P, cb, P2)
                            /\ OthersMoved(t, P, P2) /\ P2[Moved(t)] = {}
    BY <2>5, <2>6, JoinPrivate
  <2>8. Arrives(t, next', first, cb, P2, put, c.page) /\ NoLocks(t) /\ call'[t].op \in {"allocate", "none"}
    <3>1. /\ cb[t].list = NoPage /\ cb[t].last = NoPage
          /\ \A k \in Kinds : Own(cb[t], lo[t], k) = put.private[k]
      BY <2>2, NoCallWaits, WaitsOK DEF Waits
    <3>2. /\ again.count = 0 /\ again.prev = NoPage /\ (again.op # "allocate" => again.page = NoPage)
          /\ again.op # "exit" /\ again.page = c.page
      BY <1>2, <1>6, <1>11
    <3> QED
      BY <1>2, <1>5, <1>11, <2>2, <2>7, <3>1, <3>2, PushedEnds
  <2>9. Arrives(t, next', first, call, P, l, c.page)
    <3>1. PICK P3 \in Stack : Reaches(t, next', first, cb, P2, P3)
      BY <2>8 DEF Arrives
    <3>2. SameFree(call, P, call', P3)
      BY <2>5, <2>7, <3>1 DEF Reaches, SameFree, SameWithin
    <3>3. OthersMoved(t, P, P3)
      BY <2>7, <3>1 DEF Reaches, OthersMoved
    <3> QED
      BY <1>5, <2>8, <3>1, <3>2, <3>3 DEF Arrives, Reaches
  <2>10. c.op = "allocate" \/ call'[t].op = "none"
    <3>1. CASE c.op = "free"
      <4>1. Become(t, NoCall) /\ Keep(t, put)
        BY <1>2, <1>11, <3>1 DEF Pushed
      <4>2. call'[t] = NoCall
        BY <1>5, <4>1, CallChanged, NoCallTyped
      <4> QED
        BY <4>2, NoCallWaits
    <3> QED
      BY <1>6, <1>11, <3>1
  <2> QED
    BY <2>3, <2>5, <2>8, <2>9, <2>10 DEF c, l
<1> QED
  BY <1>9, <1>10, <1>11 DEF PushFailed, c, l, s, again, discard, moved, put, restored

---------------------------------------------------------------------------
(* What a step of a thread leaves the others with *)

Moves(t, P, P2) ==
    /\ Spread(next', first', local', call', P2) /\ OthersMoved(t, P, P2)
    /\ LinksKept(t, next, next', P) /\ CallOK(next', call'[t], local'[t], P2[Moved(t)])
LocksRight(t) ==
    \A s \in Slots, k \in Kinds :
        /\ Locks(call'[t], local'[t], s, k) => first'[s][k] = Marker
        /\ Locks(call'[t], local'[t], s, k) \/ first'[s][k] # first[s][k] =>
              \A u \in Threads \ {t} : ~Locks(call[u], local[u], s, k)

\* The page q gets to be in the hands of the call or of the client.
Found(t, q) == TakenBy(t) = NoPage /\ q \in Pages /\ Hands(t, q)
Owned(t, P, P2) ==
    \/ SameFree(call, P, call', P2) /\ given' = given /\ Hands(t, TakenBy(t))
    \/ \E q : /\ Found(t, q) /\ given' = given /\ pins[q] = 0 /\ pins' = pins
              /\ Within(q, KindsOf(call), P, call[t].kind) /\ FreeLess(call, P, call', P2, q)
    \/ \E q : /\ Found(t, q) /\ given[q] = 0 /\ given' = [given EXCEPT ![q] = @ + 1]
              /\ pins' = pins /\ SameFree(call, P, call', P2)
    \/ \E q \in held : /\ TakenBy(t) = NoPage /\ TakenBy(t)' = NoPage /\ given' = given
                       /\ pins' = pins /\ held' = held \ {q} /\ FreeMore(call, P, call', P2, q, call'[t].kind)

\* What the other calls rely on does not change, and the thread has what it
\* relies on.
LEMMA CallsKept ==
    ASSUME NEW P \in Stack, NEW P2 \in Stack, NEW t \in Threads,
           ListsOK(P), CallsOK(P), ChangedBy(t), Moves(t, P, P2)
    PROVE  CallsOK(P2)'
<1> SUFFICES ASSUME NEW u \in Threads PROVE CallOK(next', call'[u], local'[u], P2[Moved(u)])
  BY DEF CallsOK
<1>1. CASE u = t
  BY <1>1 DEF Moves
<1>2. CASE u # t
  <2>1. call'[u] = call[u] /\ local'[u] = local[u] /\ P2[Moved(u)] = P[Moved(u)]
    BY <1>2 DEF ChangedBy, Others, Moves, OthersMoved
  <2>2. \A p \in P[Moved(u)] : next'[p] = next[p]
    BY <1>2 DEF Moves, LinksKept
  <2>3. call[u].last # NoPage => call[u].last \in P[Moved(u)]
    <3>1. IsList(next, P[Moved(u)], call[u].list, call[u].last)
      BY HeadsAre, PlacesApart DEF ListsOK, AreStacks, PlacesHave
    <3> QED
      BY <3>1, ListTyped
  <2>4. CallOK(next, call[u], local[u], P[Moved(u)])
    BY DEF CallsOK
  <2>5. StackOK(next', call[u])
    BY <2>2, <2>3, <2>4 DEF CallOK, StackOK
  <2>6. ScanOK(next', call[u], local[u], P[Moved(u)])
    BY <2>2, <2>4 DEF CallOK, ScanOK
  <2> QED
    BY <2>1, <2>4, <2>5, <2>6 DEF CallOK
<1> QED
  BY <1>1, <1>2

\* A stack stays locked by one thread.
LEMMA LocksKept ==
    ASSUME NEW t \in Threads, LocksOK, ChangedBy(t), LocksRight(t)
    PROVE  LocksOK'
<1> SUFFICES ASSUME NEW s \in Slots, NEW k \in Kinds, NEW u \in Threads, Locks(call'[u], local'[u], s, k)
             PROVE  /\ first'[s][k] = Marker
                    /\ \A v \in Threads : Locks(call'[v], local'[v], s, k) => v = u
  BY DEF LocksOK
<1>1. \A v \in Threads \ {t} : call'[v] = call[v] /\ local'[v] = local[v]
  BY DEF ChangedBy, Others
<1>2. CASE u = t
  BY <1>1, <1>2 DEF LocksRight
<1>3. CASE u # t
  <2>1. Locks(call[u], local[u], s, k)
    BY <1>1, <1>3
  <2>2. first[s][k] = Marker /\ \A v \in Threads : Locks(call[v], local[v], s, k) => v = u
    BY <2>1 DEF LocksOK
  <2>3. ~Locks(call'[t], local'[t], s, k) /\ first'[s][k] = first[s][k]
    BY <1>3, <2>1 DEF LocksRight
  <2> QED
    BY <1>1, <2>2, <2>3
<1> QED
  BY <1>2, <1>3

\* Pages of the stacks, whatever their kind.
LEMMA SomeKind ==
    ASSUME NEW ca \in [Threads -> Call], NEW P, NEW p
    PROVE  (\E x \in Places : p \in P[x]) <=> \E k \in Kinds : Within(p, KindsOf(ca), P, k)
<1>1. \A x \in Places : KindsOf(ca)[x] \in Kinds
  <2>1. PlacesHave(first, local, ca)
    BY HeadsAre
  <2>2. \A u \in Threads : ca[u].kind \in Kinds
    BY DEF Call
  <2> QED
    BY <2>1, <2>2, PlacesAre DEF PlacesHave
<1> QED
  BY <1>1 DEF Within

\* A page stays free, or in the hands of one client or one call.
LEMMA OwnersKept ==
    ASSUME Typed, NEW P \in Stack, NEW P2 \in Stack, NEW t \in Threads,
           OwnersOK(P), ChangedBy(t), Owned(t, P, P2)
    PROVE  OwnersOK(P2)'
<1> DEFINE Free(p) == \E x \in Places : p \in P[x]
           Free2(p) == \E x \in Places : p \in P2[x]
<1>1. /\ \A p : Free(p) <=> \E k \in Kinds : Within(p, KindsOf(call), P, k)
      /\ \A p : Free2(p) <=> \E k \in Kinds : Within(p, KindsOf(call'), P2, k)
  BY SomeKind DEF Typed, ChangedBy
<1>2. /\ \A p \in held : given[p] > 0 /\ ~Free(p)
      /\ \A p : Free(p) => given[p] > 0
      /\ \A u \in Threads : TakenBy(u) # NoPage =>
            /\ given[TakenBy(u)] > 0 /\ TakenBy(u) \notin held /\ ~Free(TakenBy(u))
            /\ \A v \in Threads : v # u => TakenBy(v) # TakenBy(u)
  BY DEF OwnersOK
<1>3. ASSUME /\ \A p \in held' : given'[p] > 0 /\ ~Free2(p)
             /\ \A p : Free2(p) => given'[p] > 0
             /\ \A u \in Threads : TakenBy(u)' # NoPage =>
                  /\ given'[TakenBy(u)'] > 0 /\ TakenBy(u)' \notin held' /\ ~Free2(TakenBy(u)')
                  /\ \A v \in Threads : v # u => TakenBy(v)' # TakenBy(u)'
      PROVE  OwnersOK(P2)'
  BY <1>3 DEF OwnersOK
<1> HIDE DEF Free, Free2
<1>4. \A u \in Threads \ {t} : TakenBy(u)' = TakenBy(u)
  BY DEF ChangedBy, Others, TakenBy
<1>5. \A u \in Threads : TakenBy(u) \in PageOrNull
  BY DEF TakenBy, Typed, Call, PageOrNull
<1>6. held \subseteq Pages /\ given \in [Pages -> Nat] /\ NoPage \notin Pages
  BY PagesNotNull DEF Typed
<1>7. CASE SameFree(call, P, call', P2) /\ given' = given /\ Hands(t, TakenBy(t))
  <2>1. \A p : Free2(p) <=> Free(p)
    BY <1>1, <1>7 DEF SameFree, SameWithin
  <2>2. \/ held' = held /\ TakenBy(t)' = TakenBy(t)
        \/ held' = held \cup ({TakenBy(t)} \ {NoPage}) /\ TakenBy(t)' = NoPage
    BY <1>7 DEF Hands
  <2>3. CASE held' = held /\ TakenBy(t)' = TakenBy(t)
    <3>1. \A u \in Threads : TakenBy(u)' = TakenBy(u)
      BY <1>4, <2>3
    <3> QED
      BY <1>2, <1>3, <1>7, <2>1, <2>3, <3>1
  <2>4. CASE held' = held \cup ({TakenBy(t)} \ {NoPage}) /\ TakenBy(t)' = NoPage
    <3>1. \A p \in held' : given[p] > 0 /\ ~Free(p)
      BY <1>2, <2>4
    <3>2. ASSUME NEW u \in Threads, TakenBy(u)' # NoPage
          PROVE  /\ given[TakenBy(u)'] > 0 /\ TakenBy(u)' \notin held' /\ ~Free(TakenBy(u)')
                 /\ \A v \in Threads : v # u => TakenBy(v)' # TakenBy(u)'
      <4>1. u # t /\ TakenBy(u)' = TakenBy(u)
        BY <1>4, <2>4, <3>2
      <4>2. /\ given[TakenBy(u)] > 0 /\ TakenBy(u) \notin held /\ ~Free(TakenBy(u))
            /\ \A v \in Threads : v # u => TakenBy(v) # TakenBy(u)
        BY <1>2, <3>2, <4>1
      <4>3. TakenBy(u) \notin held'
        BY <2>4, <4>1, <4>2
      <4>4. \A v \in Threads : v # u => TakenBy(v)' # TakenBy(u)
        BY <1>4, <2>4, <3>2, <4>1, <4>2
      <4> QED
        BY <4>1, <4>2, <4>3, <4>4
    <3>3. \A p \in held' : given'[p] > 0 /\ ~Free2(p)
      BY <1>7, <2>1, <3>1
    <3>4. \A p : Free2(p) => given'[p] > 0
      BY <1>2, <1>7, <2>1
    <3>5. \A u \in Threads : TakenBy(u)' # NoPage =>
             /\ given'[TakenBy(u)'] > 0 /\ TakenBy(u)' \notin held' /\ ~Free2(TakenBy(u)')
             /\ \A v \in Threads : v # u => TakenBy(v)' # TakenBy(u)'
      BY <1>7, <2>1, <3>2
    <3> QED
      BY <1>3, <3>3, <3>4, <3>5
  <2> QED
    BY <2>2, <2>3, <2>4
<1>8. ASSUME NEW q \in Pages, TakenBy(t) = NoPage, Hands(t, q), ~Free2(q), given'[q] > 0,
             q \notin held, \A u \in Threads : TakenBy(u) # q,
             \A p : Free2(p) <=> Free(p) /\ p # q,
             \A p \in Pages : given[p] > 0 => given'[p] > 0
      PROVE  OwnersOK(P2)'
  <2>1. \/ held' = held /\ TakenBy(t)' = q
        \/ held' = held \cup {q} /\ TakenBy(t)' = NoPage
    BY <1>6, <1>8 DEF Hands
  <2>2. \A p : Free2(p) => p \in Pages
    BY <1>8 DEF Free2, Stack
  <2>3. \A p \in held' : given'[p] > 0 /\ ~Free2(p)
    BY <1>2, <1>6, <1>8, <2>1
  <2>4. \A p : Free2(p) => given'[p] > 0
    BY <1>2, <1>8, <2>2
  <2>5. ASSUME NEW u \in Threads, TakenBy(u)' # NoPage
        PROVE  /\ given'[TakenBy(u)'] > 0 /\ TakenBy(u)' \notin held' /\ ~Free2(TakenBy(u)')
               /\ \A v \in Threads : v # u => TakenBy(v)' # TakenBy(u)'
    <3>1. CASE u = t
      <4>1. held' = held /\ TakenBy(t)' = q
        BY <2>1, <2>5, <3>1
      <4>2. \A v \in Threads : v # t => TakenBy(v)' # q
        BY <1>4, <1>8
      <4> QED
        BY <1>8, <3>1, <4>1, <4>2
    <3>2. CASE u # t
      <4>1. TakenBy(u)' = TakenBy(u) /\ TakenBy(u) \in Pages
        BY <1>4, <1>5, <2>5, <3>2 DEF PageOrNull
      <4>2. /\ given[TakenBy(u)] > 0 /\ TakenBy(u) \notin held /\ ~Free(TakenBy(u))
            /\ \A v \in Threads : v # u => TakenBy(v) # TakenBy(u)
        BY <1>2, <2>5, <4>1
      <4>3. TakenBy(u) # q
        BY <1>8
      <4>4. TakenBy(u) \notin held'
        BY <2>1, <4>2, <4>3
      <4>5. \A v \in Threads : v # u => TakenBy(v)' # TakenBy(u)
        BY <1>4, <1>6, <2>1, <4>1, <4>2, <4>3
      <4> QED
        BY <1>8, <4>1, <4>2, <4>4, <4>5
    <3> QED
      BY <3>1, <3>2
  <2> QED
    BY <1>3, <2>3, <2>4, <2>5
<1>9. ASSUME NEW q, Found(t, q), given' = given,
             Within(q, KindsOf(call), P, call[t].kind), FreeLess(call, P, call', P2, q)
      PROVE  OwnersOK(P2)'
  <2>1. \A p : Free2(p) <=> Free(p) /\ p # q
    BY <1>1, <1>9 DEF FreeLess
  <2>2. Free(q)
    <3>1. call[t].kind \in Kinds
      BY DEF Typed, Call
    <3> QED
      BY <1>1, <1>9, <3>1
  <2>3. q \in Pages /\ TakenBy(t) = NoPage /\ Hands(t, q)
    BY <1>9 DEF Found
  <2>4. q \notin held /\ given[q] > 0 /\ \A u \in Threads : TakenBy(u) # q
    BY <1>2, <1>6, <2>2, <2>3
  <2> QED
    BY <1>8, <1>9, <2>1, <2>3, <2>4
<1>10. ASSUME NEW q, Found(t, q), given[q] = 0, given' = [given EXCEPT ![q] = @ + 1],
              SameFree(call, P, call', P2)
       PROVE  OwnersOK(P2)'
  <2>1. q \in Pages /\ TakenBy(t) = NoPage /\ Hands(t, q)
    BY <1>10 DEF Found
  <2>2. given'[q] = 1 /\ \A p \in Pages : p # q => given'[p] = given[p]
    BY <1>6, <1>10, <2>1
  <2>3. \A p : Free2(p) <=> Free(p)
    BY <1>1, <1>10 DEF SameFree, SameWithin
  <2>4. ~Free(q) /\ q \notin held /\ \A u \in Threads : TakenBy(u) # q
    BY <1>2, <1>6, <1>10, <2>1
  <2>5. \A p \in Pages : given[p] > 0 => given'[p] > 0
    BY <1>10, <2>1, <2>2
  <2> QED
    BY <1>8, <2>1, <2>2, <2>3, <2>4, <2>5
<1>11. ASSUME NEW q \in held, TakenBy(t) = NoPage, TakenBy(t)' = NoPage, given' = given,
              held' = held \ {q}, FreeMore(call, P, call', P2, q, call'[t].kind)
       PROVE  OwnersOK(P2)'
  <2>1. call'[t].kind \in Kinds
    BY DEF ChangedBy, Call
  <2>2. \A p : Free2(p) <=> Free(p) \/ p = q
    BY <1>1, <1>11, <2>1 DEF FreeMore, MoreWithin
  <2> QED
    BY <1>2, <1>3, <1>4, <1>5, <1>6, <1>11, <2>2
<1> QED
  BY <1>7, <1>9, <1>10, <1>11 DEF Owned

---------------------------------------------------------------------------
(* Pins *)

PageSets == [Threads -> SUBSET Pages]
PinsGood(D, O) == PendingOK(D, O) /\ DisjointPending(D) /\ PinsOK /\ ExclusiveOK(D) /\ CountsOK(O)

\* The pages that a thread has in its list and those that it has still to unpin
\* become D2[t] and O2[t].
ListsMove(t, D, O, D2, O2) ==
    /\ Others(t, D, D2) /\ Others(t, O, O2)
    /\ \A u \in Threads \ {t} : \A p \in D[u] : next'[p] = next[p]
    /\ IsList(next', D2[t], local'[t].pending, NoPage)
    /\ IsList(next', O2[t], OwedFrom(t)', NoPage)
    /\ O2[t] \subseteq D2[t] /\ D2[t] \subseteq held'
    /\ Draining(call'[t]) => call'[t].curr \in D2[t]
    /\ usage = "early_free" => local'[t].pending = NoPage
    /\ \A u \in Threads \ {t} : D2[t] \cap D[u] = {}
\* A page that leaves the hands of the clients is not one to unpin.
Leave(D) ==
    \A p \in held \ held' : \A u \in Threads :
        p \notin D[u] /\ (usage = "exclusive" => ~Uses(u, p))
\* What the thread has pinned, pins or unpins.
PinsRight(t) ==
    /\ pinned'[t] # NoPage => given'[pinned'[t]] > 0
    /\ Pins(t)' => call'[t].page \in Pages /\ given'[call'[t].page] > 0
    /\ call'[t].op = "pin" => pinned'[t] = NoPage
    /\ call'[t].op = "unpin" => pinned'[t] = call'[t].page /\ MayUnpin(call'[t].guarantee)
    /\ call'[t].op \in {"out", "construct", "exit"} => pinned'[t] = NoPage
UsesRight(t, D, D2) ==
    usage = "exclusive" =>
        /\ \A p \in Pages : Uses(t, p)' =>
              /\ p \in held' /\ p \notin D2[t]
              /\ \A u \in Threads \ {t} : p \notin D[u] /\ ~Uses(u, p)
        /\ \A p \in D2[t] : \A u \in Threads \ {t} : ~Uses(u, p)
PinsMove(t, D, O, D2, O2) ==
    /\ ListsMove(t, D, O, D2, O2) /\ Leave(D) /\ PinsRight(t) /\ UsesRight(t, D, D2)
    /\ Others(t, pinned, pinned') /\ usage' = usage
    /\ \A p \in Pages : given[p] > 0 => given'[p] > 0

\* The lists of pages to unpin of the other threads stay.
LEMMA PendingMoves ==
    ASSUME NEW t \in Threads, NEW D, NEW O, NEW D2, NEW O2, ChangedBy(t),
           PendingOK(D, O), DisjointPending(D), PinsMove(t, D, O, D2, O2)
    PROVE  PendingOK(D2, O2)' /\ DisjointPending(D2)'
<1>1. \A u \in Threads \ {t} :
         D2[u] = D[u] /\ O2[u] = O[u] /\ call'[u] = call[u] /\ local'[u] = local[u]
  BY DEF PinsMove, ListsMove, ChangedBy, Others
<1>2. ASSUME NEW u \in Threads, u # t
      PROVE  /\ IsList(next', D2[u], local'[u].pending, NoPage)
             /\ IsList(next', O2[u], OwedFrom(u)', NoPage)
             /\ O2[u] \subseteq D2[u] /\ D2[u] \subseteq held'
             /\ Draining(call'[u]) => call'[u].curr \in D2[u]
             /\ usage' = "early_free" => local'[u].pending = NoPage
  <2>1. /\ IsList(next, D[u], local[u].pending, NoPage)
        /\ IsList(next, O[u], OwedFrom(u), NoPage)
        /\ O[u] \subseteq D[u] /\ D[u] \subseteq held
        /\ Draining(call[u]) => call[u].curr \in D[u]
        /\ usage = "early_free" => local[u].pending = NoPage
    BY DEF PendingOK
  <2>2. \A p \in D[u] : next'[p] = next[p]
    BY <1>2 DEF PinsMove, ListsMove
  <2>3. OwedFrom(u)' = OwedFrom(u)
    BY <1>1, <1>2, <2>1, <2>2 DEF OwedFrom, At, Draining
  <2>4. IsList(next', D[u], local[u].pending, NoPage) /\ IsList(next', O[u], OwedFrom(u), NoPage)
    BY <2>1, <2>2, ListFrame
  <2>5. D[u] \subseteq held'
    BY <2>1 DEF PinsMove, Leave
  <2> QED
    BY <1>1, <1>2, <2>1, <2>3, <2>4, <2>5 DEF PinsMove
<1>3. PendingOK(D2, O2)'
  <2> SUFFICES ASSUME NEW u \in Threads
               PROVE  /\ IsList(next', D2[u], local'[u].pending, NoPage)
                      /\ IsList(next', O2[u], OwedFrom(u)', NoPage)
                      /\ O2[u] \subseteq D2[u] /\ D2[u] \subseteq held'
                      /\ Draining(call'[u]) => call'[u].curr \in D2[u]
                      /\ usage' = "early_free" => local'[u].pending = NoPage
    BY DEF PendingOK
  <2> QED
    BY <1>2 DEF PinsMove, ListsMove
<1>4. DisjointPending(D2)'
  BY <1>1 DEF DisjointPending, PinsMove, ListsMove
<1> QED
  BY <1>3, <1>4

\* What the threads have pinned, and in exclusive use who has, stays right.
LEMMA PinsMoves ==
    ASSUME NEW t \in Threads, NEW D, NEW O, NEW D2, NEW O2, ChangedBy(t), pinned \in [Threads -> PageOrNull],
           PinsOK, ExclusiveOK(D), PinsMove(t, D, O, D2, O2)
    PROVE  PinsOK' /\ ExclusiveOK(D2)'
<1>1. \A u \in Threads \ {t} :
         /\ D2[u] = D[u] /\ call'[u] = call[u] /\ pinned'[u] = pinned[u]
         /\ \A p : Uses(u, p)' <=> Uses(u, p)
  BY DEF PinsMove, ListsMove, ChangedBy, Others, Uses, Pins
<1>2. PinsOK'
  <2> SUFFICES ASSUME NEW u \in Threads
               PROVE  /\ pinned'[u] # NoPage => given'[pinned'[u]] > 0
                      /\ Pins(u)' => call'[u].page \in Pages /\ given'[call'[u].page] > 0
                      /\ call'[u].op = "pin" => pinned'[u] = NoPage
                      /\ call'[u].op = "unpin" => pinned'[u] = call'[u].page
                      /\ call'[u].op = "unpin" => (usage' = "early_free" => call'[u].guarantee # "wait_free")
                      /\ call'[u].op \in {"out", "construct", "exit"} => pinned'[u] = NoPage
    BY DEF PinsOK, MayUnpin
  <2>1. usage' = usage /\ \A p \in Pages : given[p] > 0 => given'[p] > 0
    BY DEF PinsMove
  <2>2. CASE u = t
    BY <2>1, <2>2 DEF PinsMove, PinsRight, MayUnpin
  <2>3. CASE u # t
    <3>1. call'[u] = call[u] /\ pinned'[u] = pinned[u]
      BY <1>1, <2>3
    <3>2. pinned[u] # NoPage => pinned[u] \in Pages
      BY DEF PageOrNull
    <3>3. /\ pinned[u] # NoPage => given[pinned[u]] > 0
          /\ Pins(u) => call[u].page \in Pages /\ given[call[u].page] > 0
          /\ call[u].op = "pin" => pinned[u] = NoPage
          /\ call[u].op = "unpin" => pinned[u] = call[u].page
          /\ call[u].op = "unpin" => (usage = "early_free" => call[u].guarantee # "wait_free")
          /\ call[u].op \in {"out", "construct", "exit"} => pinned[u] = NoPage
      BY DEF PinsOK, MayUnpin
    <3>4. Pins(u)' <=> Pins(u)
      BY <3>1 DEF Pins
    <3> QED
      BY <2>1, <3>1, <3>2, <3>3, <3>4
  <2> QED
    BY <2>2, <2>3
<1>3. ExclusiveOK(D2)'
  <2> SUFFICES ASSUME usage = "exclusive", NEW u \in Threads, NEW p \in Pages, Uses(u, p)'
               PROVE  /\ p \in held'
                      /\ \A v \in Threads : p \notin D2[v] /\ (Uses(v, p)' => v = u)
    BY DEF ExclusiveOK, PinsMove
  <2>1. CASE u = t
    BY <1>1, <2>1 DEF PinsMove, UsesRight
  <2>2. CASE u # t
    <3>1. Uses(u, p)
      BY <1>1, <2>2
    <3>2. p \in held /\ \A v \in Threads : p \notin D[v] /\ (Uses(v, p) => v = u)
      BY <3>1 DEF ExclusiveOK
    <3>3. p \in held'
      BY <3>1, <3>2 DEF PinsMove, Leave
    <3>4. ~Uses(t, p)' /\ p \notin D2[t]
      BY <2>2, <3>1 DEF PinsMove, UsesRight
    <3> QED
      BY <1>1, <2>2, <3>2, <3>3, <3>4
  <2> QED
    BY <2>1, <2>2
<1> QED
  BY <1>2, <1>3

\* The threads that have a page pinned, and those that owe it an unpin.
HavePinned(f, p) == {u \in Threads : f[u] = p}
Owe(O, p) == {u \in Threads : p \in O[u]}

\* The pin counts, said with sets that have names.
LEMMA CountsAre ==
    ASSUME NEW O
    PROVE  /\ CountsOK(O) <=> \A p \in Pages : pins[p] = Cardinality(HavePinned(pinned, p)) + Cardinality(Owe(O, p))
           /\ CountsOK(O)' <=> \A p \in Pages : pins'[p] = Cardinality(HavePinned(pinned', p)) + Cardinality(Owe(O, p))
BY DEF CountsOK, HavePinned, Owe

\* One thread more.
LEMMA CountMore ==
    ASSUME NEW B \in SUBSET Threads, NEW t \in Threads, t \notin B
    PROVE  Cardinality(B) \in Nat /\ Cardinality(B \cup {t}) = Cardinality(B) + 1
<1>1. IsFiniteSet(B)
  BY FS_Subset, AllocatorAssumption
<1> QED
  BY <1>1, FS_CardinalityType, FS_AddElement

\* The threads of a set can be counted.
LEMMA CountsTyped ==
    ASSUME NEW B \in SUBSET Threads PROVE Cardinality(B) \in Nat
<1>1. IsFiniteSet(B)
  BY FS_Subset, AllocatorAssumption
<1> QED
  BY <1>1, FS_CardinalityType

\* A thread that had no page pinned pins one.
LEMMA OneMorePinned ==
    ASSUME NEW t \in Threads, NEW f, NEW g, Others(t, f, g), f[t] = NoPage, NEW q \in Pages, g[t] = q
    PROVE  /\ Cardinality(HavePinned(g, q)) = Cardinality(HavePinned(f, q)) + 1
           /\ \A p \in Pages \ {q} : HavePinned(g, p) = HavePinned(f, p)
<1>1. NoPage \notin Pages
  BY PagesNotNull
<1>2. HavePinned(g, q) = HavePinned(f, q) \cup {t} /\ t \notin HavePinned(f, q)
  BY <1>1 DEF HavePinned, Others
<1>3. \A p \in Pages \ {q} : HavePinned(g, p) = HavePinned(f, p)
  BY <1>1 DEF HavePinned, Others
<1>4. HavePinned(f, q) \in SUBSET Threads
  BY DEF HavePinned
<1> QED
  BY <1>2, <1>3, <1>4, CountMore

\* A thread gets one page more to unpin.
LEMMA OneMoreOwed ==
    ASSUME NEW t \in Threads, NEW O, NEW O2, Others(t, O, O2), NEW q, q \notin O[t], O2[t] = O[t] \cup {q}
    PROVE  /\ Cardinality(Owe(O2, q)) = Cardinality(Owe(O, q)) + 1
           /\ \A p \in Pages \ {q} : Owe(O2, p) = Owe(O, p)
<1>1. Owe(O2, q) = Owe(O, q) \cup {t} /\ t \notin Owe(O, q)
  BY DEF Owe, Others
<1>2. \A p \in Pages \ {q} : Owe(O2, p) = Owe(O, p)
  BY DEF Owe, Others
<1>3. Owe(O, q) \in SUBSET Threads
  BY DEF Owe
<1> QED
  BY <1>1, <1>2, <1>3, CountMore

\* The two parts of a pin count are numbers.
LEMMA CountsNat ==
    ASSUME NEW f, NEW O, NEW p
    PROVE  Cardinality(HavePinned(f, p)) \in Nat /\ Cardinality(Owe(O, p)) \in Nat
<1>1. HavePinned(f, p) \in SUBSET Threads /\ Owe(O, p) \in SUBSET Threads
  BY DEF HavePinned, Owe
<1> QED
  BY <1>1, CountsTyped

---------------------------------------------------------------------------

\* Nothing is pinned, unpinned or left for later.
PinsStay(t, D) ==
    /\ pins' = pins /\ pinned' = pinned /\ usage' = usage
    /\ \A p \in held : next'[p] = next[p]
    /\ \A p \in Pages : given[p] > 0 => given'[p] > 0
    /\ local'[t].pending = local[t].pending /\ OwedFrom(t)' = OwedFrom(t)
    /\ Draining(call'[t]) => call'[t].curr \in D[t]
    /\ Leave(D) /\ PinsRight(t)
    /\ usage = "exclusive" => \A p \in Pages : Uses(t, p)' =>
          \/ Uses(t, p)
          \/ p \in held' /\ \A u \in Threads : p \notin D[u] /\ ~Uses(u, p)
\* A part of the list has been unpinned.
PinsDrained(t) ==
    /\ pins' = pins /\ pinned' = pinned /\ usage' = usage /\ next' = next /\ held' = held /\ given' = given
    /\ local'[t].pending = OwedFrom(t) /\ ~Draining(call'[t]) /\ PinsRight(t)
    /\ \A p \in Pages : Uses(t, p)' => Uses(t, p)
\* The next page of the list is unpinned.
PinsUnpin(t) ==
    LET c == call[t]
    IN  /\ pins' = [pins EXCEPT ![c.curr] = @ - 1]
        /\ pinned' = pinned /\ usage' = usage /\ next' = next /\ held' = held /\ given' = given
        /\ c.at \in {"drain", "drain_cas"} /\ call'[t].at = "drain_next" /\ call'[t].curr = c.curr
        /\ local'[t].pending = local[t].pending /\ PinsRight(t)
        /\ \A p \in Pages : Uses(t, p)' => Uses(t, p)
\* A page is pinned or unpinned.
PinsChange(t) ==
    /\ Pins(t) /\ PinChanged(t) /\ call[t].at \in {"add", "count_cas"}
    /\ usage' = usage /\ next' = next /\ held' = held /\ given' = given
    /\ local'[t].pending = local[t].pending
\* A page is left for later.
PinsLater(t) ==
    LET p == call[t].page
    IN  /\ call[t].at = "count_cas" /\ call[t].op = "unpin" /\ call[t].guarantee = "wait_free"
        /\ next' = [next EXCEPT ![p] = local[t].pending]
        /\ local'[t].pending = p /\ call'[t] = NoCall
        /\ pinned' = [pinned EXCEPT ![t] = NoPage] /\ pins' = pins
        /\ usage' = usage /\ held' = held /\ given' = given

\* A step that changes no pin keeps the counts.
LEMMA StayKept ==
    ASSUME Typed, NEW t \in Threads, NEW D \in PageSets, NEW O \in PageSets, ChangedBy(t),
           PinsGood(D, O), PinsStay(t, D)
    PROVE  PinsGood(D, O)'
<1>1. ListsMove(t, D, O, D, O)
  <2>1. /\ IsList(next, D[t], local[t].pending, NoPage)
        /\ IsList(next, O[t], OwedFrom(t), NoPage)
        /\ O[t] \subseteq D[t] /\ \A u \in Threads : D[u] \subseteq held
        /\ usage = "early_free" => local[t].pending = NoPage
    BY DEF PendingOK, PinsGood
  <2>2. \A u \in Threads : \A p \in D[u] : next'[p] = next[p]
    BY <2>1 DEF PinsStay
  <2>3. IsList(next', D[t], local[t].pending, NoPage) /\ IsList(next', O[t], OwedFrom(t), NoPage)
    BY <2>1, <2>2, ListFrame
  <2>4. D[t] \subseteq held'
    BY <2>1 DEF PinsStay, Leave
  <2>5. \A u \in Threads \ {t} : D[t] \cap D[u] = {}
    BY DEF PinsGood, DisjointPending
  <2> QED
    BY <2>1, <2>2, <2>3, <2>4, <2>5 DEF ListsMove, PinsStay, Others
<1>2. UsesRight(t, D, D)
  <2> SUFFICES ASSUME usage = "exclusive"
               PROVE  /\ \A p \in Pages : Uses(t, p)' =>
                           /\ p \in held' /\ p \notin D[t]
                           /\ \A u \in Threads \ {t} : p \notin D[u] /\ ~Uses(u, p)
                      /\ \A p \in D[t] : \A u \in Threads \ {t} : ~Uses(u, p)
    BY DEF UsesRight
  <2>1. \A u \in Threads : \A p \in Pages : Uses(u, p) =>
           p \in held /\ \A v \in Threads : p \notin D[v] /\ (Uses(v, p) => v = u)
    BY DEF PinsGood, ExclusiveOK
  <2>2. \A p \in Pages : Uses(t, p) => p \in held'
    BY <2>1 DEF PinsStay, Leave
  <2>3. \A p \in D[t] : \A u \in Threads \ {t} : ~Uses(u, p)
    BY <2>1 DEF PageSets
  <2> QED
    BY <2>1, <2>2, <2>3 DEF PinsStay
<1>3. PinsMove(t, D, O, D, O)
  BY <1>1, <1>2 DEF PinsMove, PinsStay, Others
<1>4. PendingOK(D, O)' /\ DisjointPending(D)'
  BY <1>3, PendingMoves DEF PinsGood
<1>5. PinsOK' /\ ExclusiveOK(D)'
  BY <1>3, PinsMoves DEF PinsGood, Typed
<1>6. CountsOK(O)'
  BY DEF PinsStay, PinsGood, CountsOK
<1> QED
  BY <1>4, <1>5, <1>6 DEF PinsGood

\* The pages that process_pending_unpins has unpinned leave the list.
LEMMA DrainedKept ==
    ASSUME Typed, NEW t \in Threads, NEW D \in PageSets, NEW O \in PageSets, ChangedBy(t),
           PinsGood(D, O), PinsDrained(t)
    PROVE  \E D2 \in PageSets : PinsGood(D2, O)'
<1> DEFINE D2 == [D EXCEPT ![t] = O[t]]
<1>0. D2 \in PageSets /\ D2[t] = O[t] /\ Others(t, D, D2)
  BY DEF PageSets, Others
<1> HIDE DEF D2
<1>1. /\ IsList(next, D[t], local[t].pending, NoPage)
      /\ IsList(next, O[t], OwedFrom(t), NoPage)
      /\ O[t] \subseteq D[t] /\ \A u \in Threads : D[u] \subseteq held
      /\ usage = "early_free" => local[t].pending = NoPage
  BY DEF PendingOK, PinsGood
<1>2. ListsMove(t, D, O, D2, O)
  <2>1. OwedFrom(t)' = local'[t].pending
    BY DEF PinsDrained, OwedFrom, At, Draining
  <2>2. usage = "early_free" => local'[t].pending = NoPage
    BY <1>1, ListTyped DEF PinsDrained
  <2>3. \A u \in Threads \ {t} : D2[t] \cap D[u] = {}
    BY <1>0, <1>1 DEF PinsGood, DisjointPending
  <2>4. D2[t] \subseteq held'
    BY <1>0, <1>1 DEF PinsDrained
  <2> QED
    BY <1>0, <1>1, <2>1, <2>2, <2>3, <2>4 DEF ListsMove, PinsDrained, Others
<1>3. UsesRight(t, D, D2)
  <2> SUFFICES ASSUME usage = "exclusive"
               PROVE  /\ \A p \in Pages : Uses(t, p)' =>
                           /\ p \in held' /\ p \notin D2[t]
                           /\ \A u \in Threads \ {t} : p \notin D[u] /\ ~Uses(u, p)
                      /\ \A p \in D2[t] : \A u \in Threads \ {t} : ~Uses(u, p)
    BY DEF UsesRight
  <2>1. \A u \in Threads : \A p \in Pages : Uses(u, p) =>
           p \in held /\ \A v \in Threads : p \notin D[v] /\ (Uses(v, p) => v = u)
    BY DEF PinsGood, ExclusiveOK
  <2>2. \A p \in D2[t] : p \in D[t] /\ p \in Pages
    BY <1>0, <1>1 DEF PageSets
  <2> QED
    BY <2>1, <2>2 DEF PinsDrained
<1>4. PinsMove(t, D, O, D2, O)
  BY <1>2, <1>3 DEF PinsMove, PinsDrained, Others, Leave
<1>5. PendingOK(D2, O)' /\ DisjointPending(D2)'
  BY <1>4, PendingMoves DEF PinsGood
<1>6. PinsOK' /\ ExclusiveOK(D2)'
  BY <1>4, PinsMoves DEF PinsGood, Typed
<1>7. CountsOK(O)'
  BY DEF PinsDrained, PinsGood, CountsOK
<1> QED
  BY <1>0, <1>5, <1>6, <1>7 DEF PinsGood

\* In exclusive use nobody else has the page, nor has it to unpin.
LEMMA ExclusiveHas ==
    ASSUME NEW D \in PageSets, ExclusiveOK(D), usage = "exclusive", NEW t \in Threads
    PROVE  /\ \A p \in Pages : Uses(t, p) =>
                 p \in held /\ \A u \in Threads : p \notin D[u] /\ (Uses(u, p) => u = t)
           /\ \A p \in D[t] : \A u \in Threads : ~Uses(u, p)
BY DEF ExclusiveOK, PageSets

\* A page of the list is unpinned: it is owed once less.
LEMMA UnpinKept ==
    ASSUME Typed, NEW t \in Threads, NEW D \in PageSets, NEW O \in PageSets, ChangedBy(t),
           PinsGood(D, O), PinsUnpin(t)
    PROVE  \E O2 \in PageSets : PinsGood(D, O2)'
<1> DEFINE q == call[t].curr
<1>0. PICK O2 \in PageSets : O2[t] = O[t] \ {q} /\ Others(t, O, O2)
  <2>1. [O EXCEPT ![t] = O[t] \ {q}] \in PageSets
    BY DEF PageSets
  <2> QED
    BY <2>1 DEF PageSets, Others
<1>1. /\ IsList(next, D[t], local[t].pending, NoPage)
      /\ IsList(next, O[t], OwedFrom(t), NoPage)
      /\ O[t] \subseteq D[t] /\ \A u \in Threads : D[u] \subseteq held
      /\ usage = "early_free" => local[t].pending = NoPage
      /\ q \in D[t]
  BY DEF PendingOK, PinsGood, PinsUnpin, Draining
<1>2. OwedFrom(t) = q /\ OwedFrom(t)' = next[q] /\ q \in Pages /\ q \in O[t]
  <2>1. OwedFrom(t) = q /\ OwedFrom(t)' = next[q]
    BY DEF PinsUnpin, OwedFrom, At
  <2>2. q \in Pages
    BY <1>1 DEF PageSets
  <2>3. q # NoPage
    BY <2>2, PagesNotNull
  <2> QED
    BY <1>1, <2>1, <2>2, <2>3, ListTyped
<1>3. IsList(next, O2[t], next[q], NoPage)
  <2>1. q # NoPage
    BY <1>2, PagesNotNull
  <2> QED
    BY <1>0, <1>1, <1>2, <2>1, ListRest
<1>4. ListsMove(t, D, O, D, O2)
  <2>1. \A u \in Threads \ {t} : D[t] \cap D[u] = {}
    BY DEF PinsGood, DisjointPending
  <2> QED
    BY <1>0, <1>1, <1>2, <1>3, <2>1 DEF ListsMove, PinsUnpin, Others
<1>5. UsesRight(t, D, D)
  <2> SUFFICES ASSUME usage = "exclusive"
               PROVE  /\ \A p \in Pages : Uses(t, p)' =>
                           /\ p \in held' /\ p \notin D[t]
                           /\ \A u \in Threads \ {t} : p \notin D[u] /\ ~Uses(u, p)
                      /\ \A p \in D[t] : \A u \in Threads \ {t} : ~Uses(u, p)
    BY DEF UsesRight
  <2> QED
    BY ExclusiveHas DEF PinsUnpin, PinsGood
<1>6. PinsMove(t, D, O, D, O2)
  BY <1>4, <1>5 DEF PinsMove, PinsUnpin, Others, Leave
<1>7. PendingOK(D, O2)' /\ DisjointPending(D)'
  BY <1>6, PendingMoves DEF PinsGood
<1>8. PinsOK' /\ ExclusiveOK(D)'
  BY <1>6, PinsMoves DEF PinsGood, Typed
<1>9. CountsOK(O2)'
  <2>1. \A p \in Pages : pins[p] = Cardinality(HavePinned(pinned, p)) + Cardinality(Owe(O, p))
    BY CountsAre DEF PinsGood
  <2>2. q \notin O2[t] /\ O[t] = O2[t] \cup {q} /\ Others(t, O2, O)
    BY <1>0, <1>2 DEF Others
  <2>3. /\ Cardinality(Owe(O, q)) = Cardinality(Owe(O2, q)) + 1
        /\ \A p \in Pages \ {q} : Owe(O2, p) = Owe(O, p)
    BY <2>2, OneMoreOwed
  <2>4. /\ pins'[q] = pins[q] - 1 /\ \A p \in Pages \ {q} : pins'[p] = pins[p]
        /\ pinned' = pinned
    BY <1>2 DEF PinsUnpin, Typed
  <2>5. pins'[q] = Cardinality(HavePinned(pinned, q)) + Cardinality(Owe(O2, q))
    <3>1. /\ Cardinality(HavePinned(pinned, q)) \in Nat /\ Cardinality(Owe(O, q)) \in Nat
          /\ Cardinality(Owe(O2, q)) \in Nat
      BY CountsNat
    <3> QED
      BY <1>2, <2>1, <2>3, <2>4, <3>1
  <2>6. \A p \in Pages : pins'[p] = Cardinality(HavePinned(pinned', p)) + Cardinality(Owe(O2, p))
    BY <2>1, <2>3, <2>4, <2>5
  <2> QED
    BY <2>6, CountsAre
<1> QED
  BY <1>0, <1>7, <1>8, <1>9 DEF PinsGood

\* A page is pinned or unpinned: one thread more, or less, has it pinned.
LEMMA ChangeKept ==
    ASSUME Typed, NEW t \in Threads, NEW D \in PageSets, NEW O \in PageSets, ChangedBy(t),
           PinsGood(D, O), PinsChange(t)
    PROVE  PinsGood(D, O)'
<1> DEFINE q == call[t].page
<1>1. /\ IsList(next, D[t], local[t].pending, NoPage)
      /\ IsList(next, O[t], OwedFrom(t), NoPage)
      /\ O[t] \subseteq D[t] /\ \A u \in Threads : D[u] \subseteq held
      /\ usage = "early_free" => local[t].pending = NoPage
  BY DEF PendingOK, PinsGood
<1>2. /\ q \in Pages /\ given[q] > 0
      /\ call[t].op \in {"pin", "unpin"}
      /\ call[t].op = "pin" => pinned[t] = NoPage
      /\ call[t].op = "unpin" => pinned[t] = q
  BY DEF PinsChange, PinsGood, PinsOK, Pins
<1>3. call'[t] = NoCall /\ NoCall.op = "none" /\ NoCall.at = "idle"
  <2>1. call'[t] = NoCall
    BY DEF PinsChange, PinChanged, Become, Typed
  <2> QED
    BY <2>1 DEF NoCall
<1>4. /\ Others(t, pinned, pinned')
      /\ call[t].op = "pin" => pinned'[t] = q
      /\ call[t].op = "unpin" => pinned'[t] = NoPage
  <2>1. pinned' = [pinned EXCEPT ![t] = IF call[t].op = "pin" THEN call[t].page ELSE NoPage]
    BY DEF PinsChange, PinChanged
  <2> QED
    BY <2>1 DEF Typed, Others
<1>5. ListsMove(t, D, O, D, O)
  <2>1. OwedFrom(t) = local[t].pending /\ OwedFrom(t)' = local'[t].pending
    BY <1>3 DEF PinsChange, OwedFrom, At
  <2>2. \A u \in Threads \ {t} : D[t] \cap D[u] = {}
    BY DEF PinsGood, DisjointPending
  <2> QED
    BY <1>1, <1>3, <2>1, <2>2 DEF ListsMove, PinsChange, Others, Draining
<1>6. PinsRight(t)
  BY <1>2, <1>3, <1>4, PagesNotNull DEF PinsRight, Pins, PinsChange
<1>7. UsesRight(t, D, D)
  <2> SUFFICES ASSUME usage = "exclusive"
               PROVE  /\ \A p \in Pages : Uses(t, p)' =>
                           /\ p \in held' /\ p \notin D[t]
                           /\ \A u \in Threads \ {t} : p \notin D[u] /\ ~Uses(u, p)
                      /\ \A p \in D[t] : \A u \in Threads \ {t} : ~Uses(u, p)
    BY DEF UsesRight
  <2>1. \A p \in Pages : Uses(t, p)' => Uses(t, p)
    BY <1>2, <1>3, <1>4 DEF Uses, Pins
  <2> QED
    BY <2>1, ExclusiveHas DEF PinsChange, PinsGood
<1>8. PinsMove(t, D, O, D, O)
  BY <1>4, <1>5, <1>6, <1>7 DEF PinsMove, PinsChange, Leave
<1>9. PendingOK(D, O)' /\ DisjointPending(D)'
  BY <1>8, PendingMoves DEF PinsGood
<1>10. PinsOK' /\ ExclusiveOK(D)'
  BY <1>8, PinsMoves DEF PinsGood, Typed
<1>11. CountsOK(O)'
  <2>1. \A p \in Pages : pins[p] = Cardinality(HavePinned(pinned, p)) + Cardinality(Owe(O, p))
    BY CountsAre DEF PinsGood
  <2>2. /\ pins'[q] = Changed(t, pins[q]) /\ \A p \in Pages \ {q} : pins'[p] = pins[p]
    BY <1>2 DEF PinsChange, PinChanged, Typed
  <2>3. /\ Cardinality(HavePinned(pinned, q)) \in Nat /\ Cardinality(HavePinned(pinned', q)) \in Nat
        /\ Cardinality(Owe(O, q)) \in Nat
    BY CountsNat
  <2>4. CASE call[t].op = "pin"
    <3>1. /\ Cardinality(HavePinned(pinned', q)) = Cardinality(HavePinned(pinned, q)) + 1
          /\ \A p \in Pages \ {q} : HavePinned(pinned', p) = HavePinned(pinned, p)
      BY <1>2, <1>4, <2>4, OneMorePinned
    <3>2. pins'[q] = pins[q] + 1
      BY <2>2, <2>4 DEF Changed
    <3>3. \A p \in Pages : pins'[p] = Cardinality(HavePinned(pinned', p)) + Cardinality(Owe(O, p))
      BY <1>2, <2>1, <2>2, <2>3, <3>1, <3>2
    <3> QED
      BY <3>3, CountsAre
  <2>5. CASE call[t].op = "unpin"
    <3>1. Others(t, pinned', pinned)
      BY <1>4 DEF Others
    <3>2. /\ Cardinality(HavePinned(pinned, q)) = Cardinality(HavePinned(pinned', q)) + 1
          /\ \A p \in Pages \ {q} : HavePinned(pinned, p) = HavePinned(pinned', p)
      BY <1>2, <1>4, <2>5, <3>1, OneMorePinned
    <3>3. pins'[q] = pins[q] - 1
      BY <2>2, <2>5 DEF Changed
    <3>4. \A p \in Pages : pins'[p] = Cardinality(HavePinned(pinned', p)) + Cardinality(Owe(O, p))
      BY <1>2, <2>1, <2>2, <2>3, <3>2, <3>3
    <3> QED
      BY <3>4, CountsAre
  <2> QED
    BY <1>2, <2>4, <2>5
<1> QED
  BY <1>9, <1>10, <1>11 DEF PinsGood

\* An unpin left for later is owed, and the page, which a client has, links to
\* the list.
LEMMA LaterKept ==
    ASSUME Typed, NEW t \in Threads, NEW D \in PageSets, NEW O \in PageSets, ChangedBy(t),
           PinsGood(D, O), PinsLater(t)
    PROVE  /\ \E D2 \in PageSets, O2 \in PageSets : PinsGood(D2, O2)'
           /\ call[t].page \in held
<1> DEFINE q == call[t].page
<1>1. /\ IsList(next, D[t], local[t].pending, NoPage)
      /\ IsList(next, O[t], OwedFrom(t), NoPage)
      /\ O[t] \subseteq D[t] /\ \A u \in Threads : D[u] \subseteq held
      /\ usage = "early_free" => local[t].pending = NoPage
  BY DEF PendingOK, PinsGood
<1>2. /\ q \in Pages /\ given[q] > 0 /\ pinned[t] = q /\ q # NoPage
      /\ usage = "exclusive"
  <2>1. q \in Pages /\ given[q] > 0 /\ pinned[t] = q /\ MayUnpin(call[t].guarantee)
    BY DEF PinsLater, PinsGood, PinsOK, Pins
  <2> QED
    BY <2>1, PagesNotNull DEF Typed, MayUnpin, PinsLater
<1>3. Uses(t, q)
  BY <1>2 DEF Uses
<1>4. q \in held /\ \A u \in Threads : q \notin D[u] /\ (Uses(u, q) => u = t)
  BY <1>2, <1>3, ExclusiveHas DEF PinsGood
<1>5. PICK D2 \in PageSets, O2 \in PageSets :
         /\ D2[t] = D[t] \cup {q} /\ Others(t, D, D2)
         /\ O2[t] = O[t] \cup {q} /\ Others(t, O, O2)
  <2>1. \A E \in PageSets : [E EXCEPT ![t] = E[t] \cup {q}] \in PageSets
    BY <1>2 DEF PageSets
  <2>2. \A E \in PageSets : LET F == [E EXCEPT ![t] = E[t] \cup {q}]
                           IN  F[t] = E[t] \cup {q} /\ Others(t, E, F)
    BY DEF PageSets, Others
  <2> QED
    BY <2>1, <2>2
<1>6. O[t] = D[t]
  <2>1. OwedFrom(t) = local[t].pending
    BY DEF OwedFrom, At, PinsLater
  <2> QED
    BY <1>1, <2>1, SameList
<1>7. call'[t] = NoCall /\ NoCall.op = "none" /\ NoCall.at = "idle"
  BY DEF PinsLater, NoCall
<1>8. next'[q] = local[t].pending /\ \A p \in Pages \ {q} : next'[p] = next[p]
  BY <1>2 DEF PinsLater, Typed
<1>9. \A u \in Threads : \A p \in D[u] : next'[p] = next[p]
  BY <1>4, <1>8 DEF PageSets
<1>10. IsList(next', D2[t], q, NoPage)
  <2>1. IsList(next', D[t], next'[q], NoPage)
    BY <1>1, <1>8, <1>9, ListFrame
  <2>2. IsList(next', {q}, q, q)
    BY <1>2, ListOfOne
  <2>3. {q} \cap D[t] = {}
    BY <1>4
  <2>4. IsList(next', {q} \cup D[t], q, NoPage)
    BY <1>2, <2>1, <2>2, <2>3, ListJoined
  <2> QED
    BY <1>5, <2>4
<1>11. ListsMove(t, D, O, D2, O2)
  <2>1. OwedFrom(t)' = q /\ local'[t].pending = q /\ ~Draining(call'[t])
    BY <1>7 DEF PinsLater, OwedFrom, At, Draining
  <2>2. \A u \in Threads \ {t} : D2[t] \cap D[u] = {}
    BY <1>4, <1>5 DEF PinsGood, DisjointPending
  <2>3. O2[t] = D2[t] /\ D2[t] \subseteq held'
    BY <1>1, <1>4, <1>5, <1>6 DEF PinsLater
  <2> QED
    BY <1>2, <1>5, <1>9, <1>10, <2>1, <2>2, <2>3 DEF ListsMove
<1>12. Others(t, pinned, pinned') /\ pinned'[t] = NoPage
  BY DEF PinsLater, Typed, Others
<1>13. PinsRight(t)
  BY <1>7, <1>12 DEF PinsRight, Pins
<1>14. UsesRight(t, D, D2)
  <2>1. \A p : ~Uses(t, p)'
    BY <1>7, <1>12 DEF Uses, Pins
  <2>2. \A p \in D2[t] : \A u \in Threads \ {t} : ~Uses(u, p)
    BY <1>2, <1>4, <1>5, ExclusiveHas DEF PinsGood
  <2> QED
    BY <2>1, <2>2 DEF UsesRight
<1>15. PinsMove(t, D, O, D2, O2)
  BY <1>11, <1>12, <1>13, <1>14 DEF PinsMove, PinsLater, Leave
<1>16. PendingOK(D2, O2)' /\ DisjointPending(D2)'
  BY <1>15, PendingMoves DEF PinsGood
<1>17. PinsOK' /\ ExclusiveOK(D2)'
  BY <1>15, PinsMoves DEF PinsGood, Typed
<1>18. CountsOK(O2)'
  <2>1. \A p \in Pages : pins[p] = Cardinality(HavePinned(pinned, p)) + Cardinality(Owe(O, p))
    BY CountsAre DEF PinsGood
  <2>2. Others(t, pinned', pinned)
    BY <1>12 DEF Others
  <2>3. /\ Cardinality(HavePinned(pinned, q)) = Cardinality(HavePinned(pinned', q)) + 1
        /\ \A p \in Pages \ {q} : HavePinned(pinned, p) = HavePinned(pinned', p)
    BY <1>2, <1>12, <2>2, OneMorePinned
  <2>4. q \notin O[t]
    BY <1>4, <1>6
  <2>5. /\ Cardinality(Owe(O2, q)) = Cardinality(Owe(O, q)) + 1
        /\ \A p \in Pages \ {q} : Owe(O2, p) = Owe(O, p)
    BY <1>5, <2>4, OneMoreOwed
  <2>6. pins' = pins
    BY DEF PinsLater
  <2>7. /\ Cardinality(HavePinned(pinned, q)) \in Nat /\ Cardinality(HavePinned(pinned', q)) \in Nat
        /\ Cardinality(Owe(O, q)) \in Nat
    BY CountsNat
  <2>8. \A p \in Pages : pins'[p] = Cardinality(HavePinned(pinned', p)) + Cardinality(Owe(O2, p))
    BY <1>2, <2>1, <2>3, <2>5, <2>6, <2>7
  <2> QED
    BY <2>8, CountsAre
<1> QED
  BY <1>4, <1>5, <1>16, <1>17, <1>18 DEF PinsGood

---------------------------------------------------------------------------
(* The actions *)

\* What the invariant says of one thread.
LEMMA OfThread ==
    ASSUME Typed, NEW P \in Stack, NEW D, NEW O, Good(P, D, O), NEW t \in Threads
    PROVE  /\ TypedCalls /\ Spread(next, first, local, call, P)
           /\ StageOK(call[t]) /\ StackOK(next, call[t])
           /\ ScanOK(next, call[t], local[t], P[Moved(t)]) /\ DrainOK(call[t], local[t])
           /\ IsList(next, P[Moved(t)], call[t].list, call[t].last)
           /\ IsList(next, D[t], local[t].pending, NoPage) /\ IsList(next, O[t], OwedFrom(t), NoPage)
           /\ call[t] \in Call /\ local[t] \in Local
           /\ PinsGood(D, O)
<1>1. TypedCalls /\ Spread(next, first, local, call, P)
  BY DEF Typed, TypedCalls, Good, ListsOK, Spread
<1>2. IsList(next, P[Moved(t)], call[t].list, call[t].last)
  BY HeadsAre, PlacesApart DEF Good, ListsOK, AreStacks, PlacesHave
<1> QED
  BY <1>1, <1>2 DEF Typed, Good, CallsOK, CallOK, PendingOK, PinsGood

\* The pages are at their places, and no other thread is disturbed.
Does(t, P) ==
    /\ ChangedBy(t) /\ LocksRight(t)
    /\ \E P2 \in Stack : Moves(t, P, P2) /\ Owned(t, P, P2)

\* A step that locks nothing and writes no slot keeps the locks.
LEMMA NoLocksRight ==
    ASSUME NEW t \in Threads, NoLocks(t), first' = first PROVE LocksRight(t)
BY DEF NoLocks, LocksRight

\* The free pages after two steps that keep them.
LEMMA SameFreeTrans ==
    ASSUME NEW ca, NEW P, NEW cb, NEW P2, NEW cc, NEW P3, SameFree(ca, P, cb, P2), SameFree(cb, P2, cc, P3)
    PROVE  SameFree(ca, P, cc, P3)
BY DEF SameFree, SameWithin

\* The stacks of the others after two steps that keep them.
LEMMA OthersMovedTrans ==
    ASSUME NEW t, NEW P, NEW P2, NEW P3, OthersMoved(t, P, P2), OthersMoved(t, P2, P3)
    PROVE  OthersMoved(t, P, P3)
BY DEF OthersMoved

\* Links stay, and no page goes from the stacks to the clients or back.
LEMMA ReachesDoes ==
    ASSUME NEW P \in Stack, NEW t \in Threads, next' = next, first' = first, given' = given,
           NEW P2 \in Stack, Reaches(t, next, first, call, P, P2),
           ChangedBy(t), LocksRight(t), Hands(t, TakenBy(t))
    PROVE  Does(t, P)
<1>1. Moves(t, P, P2)
  BY DEF Reaches, Moves, LinksKept
<1>2. Owned(t, P, P2)
  BY DEF Reaches, Owned
<1> QED
  BY <1>1, <1>2 DEF Does

\* When the pending unpins have been tried the call is at its first own point.
LEMMA DrainedEnds ==
    ASSUME Typed, NEW P \in Stack, NEW D, NEW O, Good(P, D, O), NEW t \in Threads,
           NEW h \in PageOrNull, NEW d \in Call, Drained(t, d, h), Draining(call[t]),
           d.op = call[t].op, d.at = call[t].at, d.kind = call[t].kind, d.guarantee = call[t].guarantee,
           d.page = call[t].page, d.list = call[t].list, d.last = call[t].last, d.prev = call[t].prev,
           call[t].op = "exit" => h = NoPage
    PROVE  /\ \E P2 \in Stack : Reaches(t, next, first, call, P, P2)
           /\ ChangedBy(t) /\ NoLocks(t) /\ TakenBy(t) = NoPage /\ TakenBy(t)' = NoPage
           /\ ~Draining(call'[t]) /\ local'[t].pending = h /\ GoesOn(t, call[t])
<1> DEFINE c == call[t]
           d2 == [d EXCEPT !.curr = NoPage, !.count = 0]
           l2 == [local[t] EXCEPT !.pending = h]
           ca == [call EXCEPT ![t] = d2]
           lo == [local EXCEPT ![t] = l2]
<1>1. /\ TypedCalls /\ Spread(next, first, local, call, P)
      /\ StageOK(c) /\ StackOK(next, c) /\ DrainOK(c, local[t]) /\ c \in Call /\ local[t] \in Local
  BY OfThread
<1>2. /\ d2 \in Call /\ d2.count = 0 /\ d2.op = c.op /\ d2.at = c.at /\ d2.kind = c.kind
      /\ d2.guarantee = c.guarantee /\ d2.page = c.page /\ d2.list = c.list /\ d2.last = c.last
      /\ d2.prev = c.prev
  BY FieldsTyped DEF Call
<1>3. l2 \in Local /\ l2.pending = h /\ l2.private = local[t].private
  BY <1>1 DEF Local
<1>4. Body(t, d2, l2)
  BY DEF Drained
<1> HIDE DEF d2, l2
<1>5. /\ Others(t, local, lo) /\ Others(t, call, ca) /\ ca[t] = d2 /\ lo[t] = l2
  BY <1>1 DEF TypedCalls, Others
<1> HIDE DEF ca, lo
<1>6. Spread(next, first, lo, ca, P) /\ SameFree(call, P, ca, P)
  <2>1. Stays(t, local, call, lo, ca)
    BY <1>2, <1>3, <1>5 DEF Stays, Own, Searches, Draining
  <2> QED
    BY <1>1, <2>1, SpreadSame
<1>7. c.op \in {"allocate", "free", "pin", "unpin", "reserve", "exit"}
  BY <1>1 DEF StageOK, Draining, Call, Ops
<1>8. /\ IF c.op = "free" THEN c.list # NoPage /\ c.last = c.list ELSE c.list = NoPage /\ c.last = NoPage
      /\ c.page # NoPage => c.op \in {"pin", "unpin"}
      /\ c.prev = NoPage /\ c.at \in {"drain", "drain_cas", "drain_next"}
  BY <1>1, <1>7 DEF StackOK, Draining
<1>9. c.op = "exit" => c.guarantee = "blocking"
  BY <1>1 DEF DrainOK
<1>10. Ready(d2, l2)
  BY <1>2, <1>3, <1>7, <1>8, <1>9 DEF Ready
<1>11. /\ \E P2 \in Stack : Reaches(t, next, first, ca, P, P2)
       /\ ChangedBy(t) /\ NoLocks(t) /\ TakenBy(t)' = NoPage /\ ~Draining(call'[t])
       /\ local'[t].pending = h /\ GoesOn(t, d2)
  BY <1>1, <1>2, <1>3, <1>4, <1>5, <1>6, <1>10, BodyEnds
<1>12. PICK P2 \in Stack : Reaches(t, next, first, ca, P, P2)
  BY <1>11
<1>13. Reaches(t, next, first, call, P, P2)
  BY <1>6, <1>12, SameFreeTrans DEF Reaches
<1>14. TakenBy(t) = NoPage
  BY <1>8 DEF TakenBy
<1>15. GoesOn(t, c)
  BY <1>2, <1>11 DEF GoesOn
<1> QED
  BY <1>11, <1>13, <1>14, <1>15

\* A call begins: f is the calls with it, on the stacks P, which may have the
\* page that is given back.
LEMMA BeginEnds ==
    ASSUME TypedCalls, NEW P \in Stack, NEW t \in Threads, NEW ca, NEW c \in Call,
           Spread(next, first, local, ca, P), Others(t, call, ca), ca[t] = c,
           c.at = "idle", c.count = 0, c.prev = NoPage,
           c.op \in {"allocate", "free", "pin", "unpin", "reserve", "exit"},
           IF c.op = "free" THEN c.list # NoPage /\ c.last = c.list ELSE c.list = NoPage /\ c.last = NoPage,
           c.page # NoPage => c.op \in {"pin", "unpin"}, c.op = "exit" => c.guarantee = "blocking",
           Begin(t, c)
    PROVE  /\ \E P2 \in Stack : Reaches(t, next, first, ca, P, P2)
           /\ ChangedBy(t) /\ NoLocks(t) /\ TakenBy(t)' = NoPage
           /\ local'[t].pending = local[t].pending /\ OwedFrom(t)' = local[t].pending
           /\ Draining(call'[t]) => local[t].pending # NoPage /\ call'[t].curr = local[t].pending
           /\ GoesOn(t, c)
<1> DEFINE l == local[t]
<1>1. l \in Local /\ Others(t, local, local)
  BY DEF TypedCalls, Others
<1>2. CASE l.pending = NoPage /\ Body(t, c, l)
  <2>1. Ready(c, l)
    BY <1>2 DEF Ready
  <2>2. /\ \E P2 \in Stack : Reaches(t, next, first, ca, P, P2)
        /\ ChangedBy(t) /\ NoLocks(t) /\ TakenBy(t)' = NoPage /\ ~Draining(call'[t])
        /\ local'[t].pending = l.pending /\ GoesOn(t, c)
    BY <1>1, <1>2, <2>1, BodyEnds
  <2>3. OwedFrom(t)' = local'[t].pending
    BY <2>2 DEF OwedFrom, At, Draining
  <2> QED
    BY <2>2, <2>3
<1>3. CASE l.pending # NoPage /\ Become(t, [c EXCEPT !.at = "drain", !.curr = l.pending]) /\ UNCHANGED local
  <2> DEFINE d == [c EXCEPT !.at = "drain", !.curr = l.pending]
  <2>1. /\ d \in Call /\ d.op = c.op /\ d.at = "drain" /\ d.list = c.list /\ d.last = c.last /\ d.kind = c.kind
        /\ d.page = c.page /\ d.count = 0 /\ d.prev = NoPage /\ d.guarantee = c.guarantee /\ d.curr = l.pending
    <3>1. l.pending \in PageOrNull
      BY <1>1 DEF Local
    <3> QED
      BY <3>1, FieldsTyped DEF Call
  <2>2. Become(t, d) /\ Keep(t, l)
    BY <1>3 DEF Keep, TypedCalls
  <2> HIDE DEF d
  <2>3. ChangedBy(t) /\ call'[t] = d /\ local'[t] = l
    BY <1>1, <2>1, <2>2, CallChanged
  <2> HIDE DEF l
  <2>4. StageOK(d)
    BY <2>1 DEF StageOK, AllocateStages
  <2>5. CallOK(next, d, l, P[Moved(t)])
    BY <2>1, <2>4 DEF CallOK, StackOK, ScanOK, DrainOK, Draining
  <2>6. \A k \in Kinds : Own(d, l, k) = Own(c, l, k)
    BY <2>1 DEF Own, Searches
  <2>7. Reaches(t, next, first, ca, P, P)
    <3>1. local[t] = l
      BY DEF l
    <3> QED
      BY <1>1, <2>1, <2>3, <2>5, <2>6, <3>1, StaysEnds
  <2>8. NoLocks(t) /\ TakenBy(t)' = NoPage /\ OwedFrom(t)' = l.pending
    BY <2>1, <2>3 DEF NoLocks, Locks, TakenBy, OwedFrom, At
  <2>9. GoesOn(t, c) /\ l.pending # NoPage /\ l.pending = local[t].pending
    BY <1>3, <2>1, <2>3 DEF GoesOn, l
  <2> QED
    BY <2>1, <2>3, <2>7, <2>8, <2>9
<1> QED
  BY <1>2, <1>3 DEF Begin

\* What is required of the clients.
AsksRight(t, c) ==
    /\ c.op = "exit" => pinned[t] = NoPage
    /\ c.op = "unpin" => pinned[t] = c.page /\ pinned[t] # NoPage /\ MayUnpin(c.guarantee)
    /\ c.op = "pin" => pinned[t] = NoPage /\ c.page \in Pages /\ MayPin(c.page) /\ held' = held

\* A page that no client wants is in no list, and nobody pins it.
LEMMA NotWanted ==
    ASSUME Typed, NEW P \in Stack, NEW D \in PageSets, NEW O \in PageSets, Good(P, D, O), NEW p \in Pages, ~Wanted(p)
    PROVE  \A u \in Threads : p \notin D[u] /\ ~Uses(u, p)
<1> SUFFICES ASSUME NEW u \in Threads PROVE p \notin D[u] /\ ~Uses(u, p)
  OBVIOUS
<1>1. Chain(local[u].pending, NoPage) = D[u]
  BY OfThread, ChainIs DEF Chain
<1>2. p \notin {pinned[u], call[u].page} \cup D[u]
  BY <1>1 DEF Wanted
<1> QED
  BY <1>2 DEF Uses

\* A call that begins changes no pin.
LEMMA BeginPins ==
    ASSUME Typed, NEW P \in Stack, NEW D \in PageSets, NEW O \in PageSets, Good(P, D, O),
           NEW t \in Threads, NEW c, call[t].op = "none", GoesOn(t, c), AsksRight(t, c), Leave(D),
           UNCHANGED <<memory, given, pinned, usage>>,
           local'[t].pending = local[t].pending, OwedFrom(t)' = local[t].pending,
           Draining(call'[t]) => local[t].pending # NoPage /\ call'[t].curr = local[t].pending,
           c.op \in {"allocate", "free", "pin", "unpin", "reserve", "exit"}
    PROVE  PinsStay(t, D)
<1>1. /\ StageOK(call[t]) /\ IsList(next, D[t], local[t].pending, NoPage) /\ PinsGood(D, O)
      /\ call[t] \in Call
  BY OfThread
<1>2. OwedFrom(t) = local[t].pending
  BY <1>1 DEF StageOK, OwedFrom, At
<1>3. Draining(call'[t]) => call'[t].curr \in D[t]
  BY <1>1, ListTyped
<1>4. pins' = pins /\ next' = next /\ pinned' = pinned /\ usage' = usage /\ given' = given
  BY DEF memory
<1>5. \/ call'[t].op = c.op /\ call'[t].page = c.page /\ call'[t].guarantee = c.guarantee
      \/ call'[t].op = "none" /\ call'[t].page = NoPage
      \/ c.op = "exit" /\ call'[t].op \in {"exit", "out"} /\ call'[t].page = NoPage
  BY DEF GoesOn
<1>6. pinned[t] # NoPage => given[pinned[t]] > 0 /\ pinned[t] \in Pages
  BY <1>1 DEF PinsGood, PinsOK, Typed, PageOrNull
<1>7. PinsRight(t)
  <2>1. CASE call'[t].op = c.op /\ call'[t].page = c.page /\ call'[t].guarantee = c.guarantee
    <3>1. CASE c.op = "pin"
      BY <1>4, <2>1, <3>1 DEF PinsRight, AsksRight, Pins, MayPin
    <3>2. CASE c.op = "unpin"
      BY <1>4, <1>6, <2>1, <3>2 DEF PinsRight, AsksRight, Pins
    <3>3. CASE c.op \in {"allocate", "free", "reserve", "exit"}
      BY <1>4, <1>6, <2>1, <3>3 DEF PinsRight, AsksRight, Pins
    <3> QED
      BY <3>1, <3>2, <3>3
  <2>2. CASE call'[t].op = "none" /\ call'[t].page = NoPage
    BY <1>4, <1>6, <2>2 DEF PinsRight, Pins
  <2>3. CASE c.op = "exit" /\ call'[t].op \in {"exit", "out"} /\ call'[t].page = NoPage
    BY <1>4, <2>3 DEF PinsRight, Pins, AsksRight
  <2> QED
    BY <1>5, <2>1, <2>2, <2>3
<1>8. ASSUME usage = "exclusive", NEW p \in Pages, Uses(t, p)'
      PROVE  \/ Uses(t, p)
             \/ p \in held' /\ \A u \in Threads : p \notin D[u] /\ ~Uses(u, p)
  <2>1. p # NoPage /\ (pinned[t] = p \/ (call'[t].op \in {"pin", "unpin"} /\ call'[t].page = p))
    BY <1>4, <1>8 DEF Uses, Pins
  <2>2. CASE pinned[t] = p
    BY <2>1, <2>2 DEF Uses
  <2>3. CASE call'[t].op \in {"pin", "unpin"} /\ call'[t].page = p
    <3>1. c.page = p /\ call'[t].op = c.op
      BY <1>5, <2>3
    <3>2. CASE c.op = "unpin"
      BY <2>1, <3>1, <3>2 DEF AsksRight, Uses
    <3>3. CASE c.op = "pin"
      <4>1. p \in held' /\ ~Wanted(p)
        BY <1>8, <3>1, <3>3 DEF AsksRight, MayPin
      <4> QED
        BY <4>1, NotWanted
    <3> QED
      BY <2>3, <3>1, <3>2, <3>3
  <2> QED
    BY <2>1, <2>2, <2>3
<1> QED
  BY <1>2, <1>3, <1>4, <1>7, <1>8 DEF PinsStay

\* A call that begins, other than one that gives a page back.
LEMMA BeginDoes ==
    ASSUME Typed, NEW P \in Stack, NEW D \in PageSets, NEW O \in PageSets, Good(P, D, O),
           NEW t \in Threads, NEW c \in Call, Begin(t, c), held' = held, AsksRight(t, c),
           c.at = "idle", c.count = 0, c.prev = NoPage, c.list = NoPage, c.last = NoPage,
           c.op \in {"allocate", "pin", "unpin", "reserve", "exit"},
           c.page # NoPage => c.op \in {"pin", "unpin"}, c.op = "exit" => c.guarantee = "blocking"
    PROVE  Does(t, P) /\ PinsStay(t, D)
<1> DEFINE ca == [call EXCEPT ![t] = c]
<1>1. /\ TypedCalls /\ Spread(next, first, local, call, P)
      /\ StageOK(call[t]) /\ StackOK(next, call[t]) /\ call[t] \in Call
  BY OfThread
<1>2. /\ call[t].op = "none" /\ UNCHANGED <<memory, m_last_assigned, given, pinned, usage>>
  BY DEF Begin
<1>3. call[t].at = "idle" /\ call[t].list = NoPage /\ call[t].last = NoPage
  BY <1>1, <1>2 DEF StageOK, StackOK
<1>4. Others(t, call, ca) /\ ca[t] = c
  BY <1>1 DEF Others, TypedCalls
<1> HIDE DEF ca
<1>5. Spread(next, first, local, ca, P) /\ SameFree(call, P, ca, P)
  <2>1. Stays(t, local, call, local, ca)
    BY <1>3, <1>4 DEF Stays, Own, Searches, Others
  <2> QED
    BY <1>1, <2>1, SpreadSame
<1>6. /\ \E P2 \in Stack : Reaches(t, next, first, ca, P, P2)
      /\ ChangedBy(t) /\ NoLocks(t) /\ TakenBy(t)' = NoPage
      /\ local'[t].pending = local[t].pending /\ OwedFrom(t)' = local[t].pending
      /\ Draining(call'[t]) => local[t].pending # NoPage /\ call'[t].curr = local[t].pending
      /\ GoesOn(t, c)
  BY <1>1, <1>4, <1>5, BeginEnds
<1>7. PICK P2 \in Stack : Reaches(t, next, first, ca, P, P2)
  BY <1>6
<1>8. Reaches(t, next, first, call, P, P2)
  BY <1>5, <1>7, SameFreeTrans DEF Reaches
<1>9. TakenBy(t) = NoPage
  BY <1>2 DEF TakenBy
<1>10. next' = next /\ first' = first /\ given' = given
  BY <1>2 DEF memory
<1>11. Does(t, P)
  <2>1. Hands(t, TakenBy(t))
    BY <1>6, <1>9 DEF Hands
  <2> QED
    BY <1>6, <1>8, <1>10, <2>1, NoLocksRight, ReachesDoes
<1>12. PinsStay(t, D)
  <2>1. Leave(D)
    BY DEF Leave
  <2> QED
    BY <1>2, <1>6, <2>1, BeginPins
<1> QED
  BY <1>11, <1>12

\* The page that is given back becomes a stack of one page.
LEMMA FreeDoes ==
    ASSUME Typed, NEW P \in Stack, NEW D \in PageSets, NEW O \in PageSets, Good(P, D, O),
           NEW t \in Threads, NEW q \in Pages, NEW c \in Call, Begin(t, c), MayFree(q), held' = held \ {q},
           c.op = "free", c.at = "idle", c.count = 0, c.prev = NoPage, c.list = q, c.last = q,
           c.page = NoPage
    PROVE  Does(t, P) /\ PinsStay(t, D)
<1> DEFINE ca == [call EXCEPT ![t] = c]
<1>1. /\ TypedCalls /\ Spread(next, first, local, call, P)
      /\ StageOK(call[t]) /\ StackOK(next, call[t]) /\ call[t] \in Call
  BY OfThread
<1>2. /\ call[t].op = "none" /\ UNCHANGED <<memory, m_last_assigned, given, pinned, usage>>
  BY DEF Begin
<1>3. call[t].at = "idle" /\ call[t].list = NoPage /\ call[t].last = NoPage
  BY <1>1, <1>2 DEF StageOK, StackOK
<1>4. Others(t, call, ca) /\ ca[t] = c
  BY <1>1 DEF Others, TypedCalls
<1> HIDE DEF ca
<1>5. PICK P1 \in Stack : /\ Spread(next, first, local, ca, P1) /\ OthersMoved(t, P, P1)
                          /\ FreeMore(call, P, ca, P1, q, c.kind)
  <2>1. q \in held /\ \A x \in Places : q \notin P[x]
    BY DEF MayFree, Good, OwnersOK
  <2>2. OwnSame(call[t], local[t], ca[t], local[t], {})
    BY <1>3, <1>4 DEF OwnSame, Own, Searches
  <2>3. BeginsWith(t, q, local, call, local, ca, P)
    BY <1>3, <1>4, <2>1, <2>2 DEF BeginsWith, Others
  <2>4. \E P1 \in Stack : /\ Spread(next, first, local, ca, P1) /\ OthersMoved(t, P, P1)
                          /\ FreeMore(call, P, ca, P1, q, ca[t].kind)
    BY <1>1, <2>3, SpreadOfOne
  <2> QED
    BY <1>4, <2>4
<1>6. /\ \E P2 \in Stack : Reaches(t, next, first, ca, P1, P2)
      /\ ChangedBy(t) /\ NoLocks(t) /\ TakenBy(t)' = NoPage
      /\ local'[t].pending = local[t].pending /\ OwedFrom(t)' = local[t].pending
      /\ Draining(call'[t]) => local[t].pending # NoPage /\ call'[t].curr = local[t].pending
      /\ GoesOn(t, c)
  <2>1. c.list # NoPage
    BY PagesNotNull
  <2> QED
    BY <1>1, <1>4, <1>5, <2>1, BeginEnds
<1>7. PICK P2 \in Stack : Reaches(t, next, first, ca, P1, P2)
  BY <1>6
<1>8. TakenBy(t) = NoPage /\ next' = next /\ first' = first /\ given' = given
  BY <1>2 DEF TakenBy, memory
<1>9. c.kind = call'[t].kind
  <2>1. ASSUME Body(t, c, local[t]) PROVE call'[t].kind = c.kind
    <3> DEFINE d == [c EXCEPT !.at = "push", !.discard = TRUE, !.from = local[t].slot]
    <3>1. Become(t, d)
      BY <2>1 DEF Body
    <3>2. d.kind = c.kind
      BY DEF Call
    <3> QED
      BY <1>1, <3>1, <3>2 DEF Become, TypedCalls
  <2>2. ASSUME Become(t, [c EXCEPT !.at = "drain", !.curr = local[t].pending]) PROVE call'[t].kind = c.kind
    BY <1>1, <2>2 DEF Become, TypedCalls, Call
  <2> QED
    BY <2>1, <2>2 DEF Begin
<1>10. Does(t, P)
  <2>1. SameFree(ca, P1, call', P2) /\ OthersMoved(t, P, P2)
    BY <1>5, <1>7, OthersMovedTrans DEF Reaches
  <2>2. FreeMore(call, P, call', P2, q, call'[t].kind)
    BY <1>5, <1>9, <2>1 DEF FreeMore, SameFree, SameWithin, MoreWithin
  <2>3. Moves(t, P, P2)
    BY <1>7, <1>8, <2>1 DEF Reaches, Moves, LinksKept
  <2>4. Owned(t, P, P2)
    BY <1>2, <1>6, <1>8, <2>2 DEF Owned, MayFree, memory
  <2> QED
    BY <1>6, <1>8, <2>3, <2>4, NoLocksRight DEF Does
<1>11. PinsStay(t, D)
  <2>1. Leave(D)
    <3>1. held \ held' \subseteq {q}
      OBVIOUS
    <3>2. CASE usage = "exclusive"
      <4>1. ~Wanted(q)
        BY <3>2 DEF MayFree
      <4> QED
        BY <3>1, <4>1, NotWanted DEF Leave
    <3>3. CASE usage = "early_free"
      <4>1. \A u \in Threads : D[u] = {}
        BY <3>3, ListTyped DEF Good, PendingOK
      <4> QED
        BY <3>1, <3>3, <4>1 DEF Leave
    <3> QED
      BY <3>2, <3>3 DEF Typed
  <2>2. AsksRight(t, c)
    BY DEF AsksRight
  <2> QED
    BY <1>2, <1>6, <2>1, <2>2, BeginPins
<1> QED
  BY <1>10, <1>11

PinSide(t, D) ==
    PinsStay(t, D) \/ PinsDrained(t) \/ PinsUnpin(t) \/ PinsChange(t) \/ PinsLater(t)
RestTyped ==
    /\ first' \in [Slots -> [Kinds -> PageOrNull \cup {Marker}]] /\ next' \in [Pages -> PageOrNull]
    /\ pins' = [p \in Pages |-> pins'[p]] /\ m_last_assigned' \in Slots
    /\ pinned' \in [Threads -> PageOrNull] /\ usage' = usage
\* What a step does to the stacks and to the pins.
StepOK(t, P, D) == Does(t, P) /\ PinSide(t, D) /\ RestTyped

\* A step that leaves memory alone keeps its types.
LEMMA RestKept ==
    ASSUME Typed, first' = first, next' = next, pins' = pins, pinned' = pinned, usage' = usage,
           m_last_assigned' \in Slots
    PROVE  RestTyped
BY DEF Typed, RestTyped

\* A step of a call that leaves its stack in place.
LEMMA InPlace ==
    ASSUME Typed, NEW P \in Stack, NEW D, NEW O, Good(P, D, O), NEW t \in Threads,
           NEW d \in Call, Become(t, d), UNCHANGED <<first, next, given, held, local>>,
           d.list = call[t].list, d.last = call[t].last, d.kind = call[t].kind,
           \A k \in Kinds : Searches(d, k) <=> Searches(call[t], k),
           \A s \in Slots, k \in Kinds : Locks(d, local[t], s, k) => Locks(call[t], local[t], s, k),
           d.op = call[t].op, d.page = call[t].page,
           CallOK(next, d, local[t], P[Moved(t)])
    PROVE  Does(t, P) /\ call'[t] = d
<1>1. TypedCalls /\ Spread(next, first, local, call, P) /\ local[t] \in Local
  BY OfThread
<1>2. Keep(t, local[t])
  BY <1>1 DEF Keep, TypedCalls
<1>3. ChangedBy(t) /\ call'[t] = d /\ local'[t] = local[t]
  BY <1>1, <1>2, CallChanged
<1>4. \A k \in Kinds : Own(call'[t], local'[t], k) = Own(call[t], local[t], k)
  BY <1>3 DEF Own
<1>5. Reaches(t, next, first, call, P, P)
  <2>1. Others(t, local, local) /\ Others(t, call, call)
    BY DEF Others
  <2> QED
    BY <1>1, <1>3, <1>4, <2>1, StaysEnds
<1>6. LocksRight(t)
  BY <1>3 DEF LocksRight, Good, LocksOK
<1>7. Hands(t, TakenBy(t))
  BY <1>3 DEF Hands, TakenBy
<1> QED
  BY <1>3, <1>5, <1>6, <1>7, ReachesDoes

\* A call that has nothing to do with pins.
LEMMA PinsAside ==
    ASSUME Typed, NEW P \in Stack, NEW D \in PageSets, NEW O \in PageSets, Good(P, D, O), NEW t \in Threads,
           pins' = pins, pinned' = pinned, usage' = usage,
           \A p \in held : next'[p] = next[p],
           \A p \in Pages : given[p] > 0 => given'[p] > 0, held \subseteq held',
           local'[t].pending = local[t].pending, ~Draining(call[t]), ~Draining(call'[t]),
           call'[t].op \notin {"pin", "unpin"},
           call'[t].op \in {"out", "construct", "exit"} => call[t].op \in {"out", "construct", "exit"}
    PROVE  PinsStay(t, D)
<1>1. OwedFrom(t)' = local'[t].pending /\ OwedFrom(t) = local[t].pending
  BY DEF Draining, OwedFrom, At
<1>2. PinsOK
  BY DEF Good
<1>3. pinned[t] # NoPage => pinned[t] \in Pages
  BY DEF Typed, PageOrNull
<1>4. PinsRight(t)
  BY <1>2, <1>3 DEF PinsOK, PinsRight, Pins
<1>5. \A p \in Pages : Uses(t, p)' => Uses(t, p)
  BY DEF Uses, Pins
<1>6. Leave(D)
  BY DEF Leave
<1> QED
  BY <1>1, <1>4, <1>5, <1>6 DEF PinsStay

---------------------------------------------------------------------------

\* So does a call that begins.
LEMMA BeginRest == ASSUME Typed, NEW t, NEW c, Begin(t, c) PROVE RestTyped
BY RestKept DEF Begin, memory, Typed

\* The fields of a call that is over.
LEMMA NoCallIs ==
    /\ NoCall \in Call /\ NoCall.op = "none" /\ NoCall.at = "idle" /\ NoCall.page = NoPage /\ NoCall.list = NoPage
    /\ NoCall.last = NoPage /\ NoCall.prev = NoPage /\ NoCall.count = 0
BY NoCallTyped DEF NoCall

\* The guarantees and the kinds that callers ask for are among all of them.
LEMMA GuaranteesAre == Guarantees \subseteq {"none", "blocking", "lock_free", "wait_free"} /\ UsedKinds \subseteq Kinds
BY AllocatorAssumption

\* try_allocate_page begins.
LEMMA AllocateStep ==
    ASSUME Typed, NEW P \in Stack, NEW D \in PageSets, NEW O \in PageSets, Good(P, D, O), NEW t \in Threads,
           try_allocate_page(t)
    PROVE  StepOK(t, P, D)
<1>1. PICK k \in UsedKinds, g \in Guarantees :
         Begin(t, [NoCall EXCEPT !.op = "allocate", !.kind = k, !.guarantee = g])
  BY DEF try_allocate_page
<1> DEFINE c == [NoCall EXCEPT !.op = "allocate", !.kind = k, !.guarantee = g]
<1>2. /\ c \in Call /\ c.op = "allocate" /\ c.at = "idle" /\ c.count = 0 /\ c.prev = NoPage
      /\ c.list = NoPage /\ c.last = NoPage /\ c.page = NoPage
  <2>1. k \in Kinds /\ g \in {"none", "blocking", "lock_free", "wait_free"} /\ "allocate" \in Ops
    BY GuaranteesAre DEF Ops
  <2> QED
    BY <2>1, NoCallIs DEF Call
<1> HIDE DEF c
<1>3. Begin(t, c) /\ held' = held /\ AsksRight(t, c)
  BY <1>1, <1>2 DEF c, AsksRight, try_allocate_page
<1> QED
  BY <1>2, <1>3, BeginDoes, BeginRest DEF StepOK, PinSide

\* deallocate_page begins: the page goes from the client to the call.
LEMMA FreeStep ==
    ASSUME Typed, NEW P \in Stack, NEW D \in PageSets, NEW O \in PageSets, Good(P, D, O), NEW t \in Threads,
           deallocate_page(t)
    PROVE  StepOK(t, P, D)
<1>1. PICK q \in Pages, k \in UsedKinds :
         /\ MayFree(q) /\ held' = held \ {q}
         /\ Begin(t, [NoCall EXCEPT !.op = "free", !.kind = k, !.guarantee = "wait_free",
                                    !.list = q, !.last = q])
  BY DEF deallocate_page
<1> DEFINE c == [NoCall EXCEPT !.op = "free", !.kind = k, !.guarantee = "wait_free", !.list = q, !.last = q]
<1>2. /\ c \in Call /\ c.op = "free" /\ c.at = "idle" /\ c.count = 0 /\ c.prev = NoPage
      /\ c.list = q /\ c.last = q /\ c.page = NoPage
  <2>1. k \in Kinds /\ q \in PageOrNull /\ "free" \in Ops
    BY GuaranteesAre DEF Ops, PageOrNull
  <2> QED
    BY <2>1, NoCallIs DEF Call
<1> HIDE DEF c
<1>3. Begin(t, c)
  BY <1>1 DEF c
<1> QED
  BY <1>1, <1>2, <1>3, FreeDoes, BeginRest DEF StepOK, PinSide

\* pin_page begins.
LEMMA PinStep ==
    ASSUME Typed, NEW P \in Stack, NEW D \in PageSets, NEW O \in PageSets, Good(P, D, O), NEW t \in Threads,
           pin_page(t)
    PROVE  StepOK(t, P, D)
<1>1. PICK p \in Pages, g \in Guarantees :
         /\ MayPin(p) /\ pinned[t] = NoPage
         /\ Begin(t, [NoCall EXCEPT !.op = "pin", !.guarantee = g, !.page = p]) /\ UNCHANGED held
  BY DEF pin_page
<1> DEFINE c == [NoCall EXCEPT !.op = "pin", !.guarantee = g, !.page = p]
<1>2. /\ c \in Call /\ c.op = "pin" /\ c.at = "idle" /\ c.count = 0 /\ c.prev = NoPage
      /\ c.list = NoPage /\ c.last = NoPage /\ c.page = p
  <2>1. g \in {"none", "blocking", "lock_free", "wait_free"} /\ "pin" \in Ops /\ p \in PageOrNull
    BY GuaranteesAre DEF Ops, PageOrNull
  <2> QED
    BY <2>1, NoCallIs DEF Call
<1> HIDE DEF c
<1>3. Begin(t, c) /\ held' = held /\ AsksRight(t, c)
  BY <1>1, <1>2 DEF c, AsksRight
<1> QED
  BY <1>2, <1>3, BeginDoes, BeginRest DEF StepOK, PinSide

\* unpin_page begins.
LEMMA UnpinStep ==
    ASSUME Typed, NEW P \in Stack, NEW D \in PageSets, NEW O \in PageSets, Good(P, D, O), NEW t \in Threads,
           unpin_page(t)
    PROVE  StepOK(t, P, D)
<1>1. PICK g \in Guarantees :
         /\ MayUnpin(g) /\ pinned[t] # NoPage
         /\ Begin(t, [NoCall EXCEPT !.op = "unpin", !.guarantee = g, !.page = pinned[t]]) /\ UNCHANGED held
  BY DEF unpin_page
<1> DEFINE c == [NoCall EXCEPT !.op = "unpin", !.guarantee = g, !.page = pinned[t]]
<1>2. /\ c \in Call /\ c.op = "unpin" /\ c.at = "idle" /\ c.count = 0 /\ c.prev = NoPage
      /\ c.list = NoPage /\ c.last = NoPage /\ c.page = pinned[t] /\ c.guarantee = g
  <2>1. g \in {"none", "blocking", "lock_free", "wait_free"} /\ "unpin" \in Ops /\ pinned[t] \in PageOrNull
    BY GuaranteesAre DEF Ops, Typed
  <2> QED
    BY <2>1, NoCallIs DEF Call
<1> HIDE DEF c
<1>3. Begin(t, c) /\ held' = held /\ AsksRight(t, c)
  BY <1>1, <1>2 DEF c, AsksRight
<1> QED
  BY <1>2, <1>3, BeginDoes, BeginRest DEF StepOK, PinSide

\* try_reserve_lockfree_memory begins.
LEMMA ReserveStep ==
    ASSUME Typed, NEW P \in Stack, NEW D \in PageSets, NEW O \in PageSets, Good(P, D, O), NEW t \in Threads,
           try_reserve_lockfree_memory(t)
    PROVE  StepOK(t, P, D)
<1>1. PICK g \in Guarantees : Begin(t, [NoCall EXCEPT !.op = "reserve", !.guarantee = g]) /\ UNCHANGED held
  BY DEF try_reserve_lockfree_memory
<1> DEFINE c == [NoCall EXCEPT !.op = "reserve", !.guarantee = g]
<1>2. /\ c \in Call /\ c.op = "reserve" /\ c.at = "idle" /\ c.count = 0 /\ c.prev = NoPage
      /\ c.list = NoPage /\ c.last = NoPage /\ c.page = NoPage
  <2>1. g \in {"none", "blocking", "lock_free", "wait_free"} /\ "reserve" \in Ops
    BY GuaranteesAre DEF Ops
  <2> QED
    BY <2>1, NoCallIs DEF Call
<1> HIDE DEF c
<1>3. Begin(t, c) /\ held' = held /\ AsksRight(t, c)
  BY <1>1, <1>2 DEF c, AsksRight
<1> QED
  BY <1>2, <1>3, BeginDoes, BeginRest DEF StepOK, PinSide

\* The destructor of the PageAllocator of a thread begins.
LEMMA EndThreadStep ==
    ASSUME Typed, NEW P \in Stack, NEW D \in PageSets, NEW O \in PageSets, Good(P, D, O), NEW t \in Threads,
           EndThread(t)
    PROVE  StepOK(t, P, D)
<1> DEFINE c == [NoCall EXCEPT !.op = "exit", !.guarantee = "blocking"]
<1>1. pinned[t] = NoPage /\ Begin(t, c) /\ UNCHANGED held
  BY DEF EndThread
<1>2. /\ c \in Call /\ c.op = "exit" /\ c.at = "idle" /\ c.count = 0 /\ c.prev = NoPage
      /\ c.list = NoPage /\ c.last = NoPage /\ c.page = NoPage /\ c.guarantee = "blocking"
  <2>1. "exit" \in Ops
    BY DEF Ops
  <2> QED
    BY <2>1, NoCallIs DEF Call
<1> HIDE DEF c
<1>3. held' = held /\ AsksRight(t, c)
  BY <1>1, <1>2 DEF AsksRight
<1> QED
  BY <1>1, <1>2, <1>3, BeginDoes, BeginRest DEF StepOK, PinSide

\* A thread begins at the slot it reads from m_last_assigned,
LEMMA AssignSlotStep ==
    ASSUME Typed, NEW P \in Stack, NEW D \in PageSets, NEW O \in PageSets, Good(P, D, O), NEW t \in Threads,
           AssignSlot(t)
    PROVE  StepOK(t, P, D)
<1> DEFINE d == [NoCall EXCEPT !.op = "construct", !.at = "assign"]
           l == [NewLocal EXCEPT !.slot = m_last_assigned]
<1>1. /\ call[t].op = "out" /\ Become(t, d) /\ Keep(t, l)
      /\ UNCHANGED <<memory, m_last_assigned, given, held, pinned, usage>>
  BY DEF AssignSlot
<1>2. /\ d \in Call /\ d.op = "construct" /\ d.at = "assign" /\ d.list = NoPage /\ d.last = NoPage
      /\ d.page = NoPage /\ d.prev = NoPage /\ d.count = 0
  <2>1. "construct" \in Ops /\ "assign" \in Stages
    BY DEF Ops, Stages
  <2> QED
    BY <2>1, NoCallIs DEF Call
<1>3. l \in Local /\ l.pending = NoPage /\ l.private = [k \in Kinds |-> NoPage]
  BY NoCallTyped DEF Local, NewLocal, Typed
<1> HIDE DEF d, l
<1>4. /\ TypedCalls /\ Spread(next, first, local, call, P)
      /\ StageOK(call[t]) /\ StackOK(next, call[t]) /\ DrainOK(call[t], local[t])
  BY OfThread
<1>5. ChangedBy(t) /\ call'[t] = d /\ local'[t] = l
  BY <1>1, <1>2, <1>3, <1>4, CallChanged
<1>6. /\ call[t].at = "idle" /\ call[t].list = NoPage /\ call[t].last = NoPage
      /\ local[t].pending = NoPage /\ local[t].private = [k \in Kinds |-> NoPage]
  BY <1>1, <1>4 DEF StageOK, StackOK, DrainOK
<1>7. Reaches(t, next, first, call, P, P)
  <2>1. \A k \in Kinds : Own(d, l, k) = Own(call[t], local[t], k)
    BY <1>2, <1>3, <1>6 DEF Own, Searches
  <2>2. CallOK(next, d, l, P[Moved(t)])
    BY <1>2, <1>3 DEF CallOK, StageOK, StackOK, ScanOK, DrainOK, AllocateStages, Draining
  <2>3. Others(t, local, local) /\ Others(t, call, call)
    BY DEF Others
  <2> QED
    BY <1>2, <1>4, <1>5, <1>6, <2>1, <2>2, <2>3, StaysEnds
<1>8. first' = first /\ next' = next /\ pins' = pins
  BY <1>1 DEF memory
<1>9. Does(t, P)
  <2>1. NoLocks(t) /\ Hands(t, TakenBy(t))
    BY <1>1, <1>2, <1>5 DEF NoLocks, Locks, Hands, TakenBy
  <2> QED
    BY <1>1, <1>5, <1>7, <1>8, <2>1, NoLocksRight, ReachesDoes
<1>10. PinsStay(t, D)
  BY <1>1, <1>2, <1>3, <1>5, <1>6, <1>8, PinsAside DEF Draining
<1> QED
  BY <1>1, <1>8, <1>9, <1>10, RestKept DEF StepOK, PinSide, Typed

\* and writes the next one.
LEMMA StoreStep ==
    ASSUME Typed, NEW P \in Stack, NEW D \in PageSets, NEW O \in PageSets, Good(P, D, O), NEW t \in Threads,
           StoreLastAssigned(t)
    PROVE  StepOK(t, P, D)
<1> DEFINE l == [local[t] EXCEPT !.victim = NextSlot(local[t].slot)]
<1>1. /\ call[t].at = "assign" /\ Become(t, NoCall) /\ Keep(t, l)
      /\ m_last_assigned' = NextSlot(local[t].slot)
      /\ UNCHANGED <<memory, given, held, pinned, usage>>
  BY DEF StoreLastAssigned, At
<1>2. /\ TypedCalls /\ Spread(next, first, local, call, P) /\ local[t] \in Local
      /\ StageOK(call[t]) /\ StackOK(next, call[t]) /\ DrainOK(call[t], local[t])
  BY OfThread
<1>3. local[t].slot \in Slots
  BY <1>2 DEF Local
<1>4. l \in Local /\ l.pending = local[t].pending /\ l.private = local[t].private
  BY <1>2, <1>3, SlotsTyped DEF Local
<1> HIDE DEF l
<1>5. ChangedBy(t) /\ call'[t] = NoCall /\ local'[t] = l
  BY <1>1, <1>2, <1>4, CallChanged, NoCallIs
<1>6. /\ call[t].op = "construct" /\ call[t].list = NoPage /\ call[t].last = NoPage
  BY <1>1, <1>2 DEF StageOK, StackOK
<1>7. Reaches(t, next, first, call, P, P) /\ NoLocks(t) /\ TakenBy(t)' = NoPage /\ ~Draining(call'[t])
  <2>1. \A k \in Kinds : Own(call[t], local[t], k) = local'[t].private[k]
    BY <1>1, <1>4, <1>5 DEF Own, Searches
  <2>2. Others(t, local, local) /\ Others(t, call, call)
    BY DEF Others
  <2> QED
    BY <1>2, <1>5, <1>6, <2>1, <2>2, NoCallWaits, WaitsEnds
<1>8. first' = first /\ next' = next /\ pins' = pins
  BY <1>1 DEF memory
<1>9. Does(t, P)
  <2>1. Hands(t, TakenBy(t))
    BY <1>1, <1>6, <1>7 DEF Hands, TakenBy
  <2> QED
    BY <1>1, <1>5, <1>7, <1>8, <2>1, NoLocksRight, ReachesDoes
<1>10. PinsStay(t, D)
  BY <1>1, <1>4, <1>5, <1>7, <1>8, NoCallIs, PinsAside DEF Draining
<1>11. m_last_assigned' \in Slots
  BY <1>1, <1>3, SlotsTyped
<1> QED
  BY <1>1, <1>8, <1>9, <1>10, <1>11, RestKept DEF StepOK, PinSide

---------------------------------------------------------------------------

\* The page that is to be unpinned.
LEMMA DrainFacts ==
    ASSUME Typed, NEW P \in Stack, NEW D \in PageSets, NEW O \in PageSets, Good(P, D, O), NEW t \in Threads,
           Draining(call[t])
    PROVE  /\ call[t].curr \in D[t] /\ call[t].curr \in Pages /\ O[t] \subseteq D[t]
           /\ call[t].op \in {"allocate", "free", "pin", "unpin", "reserve", "exit"}
<1>1. call[t].curr \in D[t] /\ O[t] \subseteq D[t]
  BY DEF Good, PendingOK
<1>2. StageOK(call[t]) /\ call[t] \in Call
  BY OfThread
<1>3. call[t].op \in {"allocate", "free", "pin", "unpin", "reserve", "exit"}
  BY <1>2 DEF StageOK, Draining, Call, Ops
<1> QED
  BY <1>1, <1>3 DEF PageSets

\* The call is the same but for where it is in the list.
DrainsOn(t, d) ==
    /\ d.op = call[t].op /\ d.page = call[t].page /\ d.guarantee = call[t].guarantee
    /\ d.list = call[t].list /\ d.last = call[t].last /\ d.kind = call[t].kind /\ d.prev = call[t].prev
    /\ Draining(d)

\* A step of process_pending_unpins that goes on.
LEMMA DrainsRight ==
    ASSUME Typed, NEW P \in Stack, NEW D \in PageSets, NEW O \in PageSets, Good(P, D, O), NEW t \in Threads,
           NEW d \in Call, Draining(call[t]), DrainsOn(t, d), d.count # 0 => ~UnpinsAll(d),
           d.at = "drain_cas" => ~UnpinsAll(d), Become(t, d),
           UNCHANGED <<first, next, given, held, local, pinned, usage>>
    PROVE  /\ Does(t, P) /\ call'[t] = d /\ PinsRight(t)
           /\ \A p \in Pages : Uses(t, p)' => Uses(t, p)
<1>1. /\ StageOK(call[t]) /\ StackOK(next, call[t]) /\ DrainOK(call[t], local[t])
  BY OfThread
<1>2. call[t].op \in {"allocate", "free", "pin", "unpin", "reserve", "exit"}
  BY DrainFacts
<1>3. CallOK(next, d, local[t], P[Moved(t)])
  <2>1. StageOK(d)
    BY <1>2 DEF StageOK, DrainsOn, Draining, AllocateStages
  <2>2. StackOK(next, d)
    BY <1>1, <1>2 DEF StackOK, DrainsOn, Draining
  <2>3. ScanOK(next, d, local[t], P[Moved(t)])
    BY DEF ScanOK, DrainsOn, Draining
  <2>4. DrainOK(d, local[t])
    BY <1>1, <1>2 DEF DrainOK, DrainsOn
  <2> QED
    BY <2>1, <2>2, <2>3, <2>4 DEF CallOK
<1>4. \A k \in Kinds : Searches(d, k) <=> Searches(call[t], k)
  BY DEF Searches, DrainsOn, Draining
<1>5. \A s \in Slots, k \in Kinds : ~Locks(d, local[t], s, k)
  BY DEF Locks, DrainsOn, Draining
<1>6. Does(t, P) /\ call'[t] = d
  BY <1>3, <1>4, <1>5, InPlace DEF DrainsOn
<1>7. PinsRight(t)
  BY <1>6 DEF Good, PinsOK, PinsRight, Pins, DrainsOn
<1>8. \A p \in Pages : Uses(t, p)' => Uses(t, p)
  BY <1>6 DEF Uses, Pins, DrainsOn
<1> QED
  BY <1>6, <1>7, <1>8

\* A pending unpin that cannot fail.
LEMMA DrainAllStep ==
    ASSUME Typed, NEW P \in Stack, NEW D \in PageSets, NEW O \in PageSets, Good(P, D, O), NEW t \in Threads,
           DrainAll(t)
    PROVE  StepOK(t, P, D)
<1> DEFINE d == [call[t] EXCEPT !.at = "drain_next"]
<1>1. /\ call[t].at = "drain" /\ UnpinsAll(call[t]) /\ pins' = [pins EXCEPT ![call[t].curr] = @ - 1]
      /\ Become(t, d) /\ UNCHANGED <<first, next, m_last_assigned, local, given, held, pinned, usage>>
  BY DEF DrainAll, At
<1>2. call[t] \in Call /\ DrainOK(call[t], local[t])
  BY OfThread
<1>3. /\ d \in Call /\ DrainsOn(t, d) /\ d.at = "drain_next" /\ d.count = call[t].count /\ d.curr = call[t].curr
  BY <1>2, FieldsTyped DEF Call, DrainsOn, Draining
<1> HIDE DEF d
<1>4. d.count = 0
  BY <1>1, <1>2, <1>3 DEF DrainOK
<1>5. Draining(call[t])
  BY <1>1 DEF Draining
<1>6. /\ Does(t, P) /\ call'[t] = d /\ PinsRight(t)
      /\ \A p \in Pages : Uses(t, p)' => Uses(t, p)
  BY <1>1, <1>3, <1>4, <1>5, DrainsRight
<1>7. PinsUnpin(t)
  BY <1>1, <1>3, <1>6 DEF PinsUnpin
<1>8. RestTyped
  BY <1>1 DEF RestTyped, Typed
<1> QED
  BY <1>6, <1>7, <1>8 DEF StepOK, PinSide

\* The pin count is read before a CAS on it.
LEMMA DrainLoadStep ==
    ASSUME Typed, NEW P \in Stack, NEW D \in PageSets, NEW O \in PageSets, Good(P, D, O), NEW t \in Threads,
           DrainLoad(t)
    PROVE  StepOK(t, P, D)
<1> DEFINE d == [call[t] EXCEPT !.at = "drain_cas", !.seen = pins[call[t].curr]]
<1>1. /\ call[t].at = "drain" /\ ~UnpinsAll(call[t])
      /\ Become(t, d) /\ UNCHANGED <<memory, m_last_assigned, local, given, held, pinned, usage>>
  BY DEF DrainLoad, At
<1>2. call[t] \in Call /\ DrainOK(call[t], local[t])
  BY OfThread
<1>3. Draining(call[t])
  BY <1>1 DEF Draining
<1>4. call[t].curr \in Pages /\ call[t].curr \in D[t]
  BY <1>3, DrainFacts
<1>5. pins[call[t].curr] \in Seen
  BY <1>4, FieldsTyped DEF Typed
<1>6. /\ d \in Call /\ DrainsOn(t, d) /\ d.at = "drain_cas" /\ d.curr = call[t].curr
      /\ d.guarantee = call[t].guarantee /\ d.op = call[t].op
  BY <1>2, <1>5, FieldsTyped DEF Call, DrainsOn, Draining
<1> HIDE DEF d
<1>7. ~UnpinsAll(d)
  BY <1>1, <1>6 DEF UnpinsAll
<1>8. first' = first /\ next' = next /\ pins' = pins
  BY <1>1 DEF memory
<1>9. /\ Does(t, P) /\ call'[t] = d /\ PinsRight(t)
      /\ \A p \in Pages : Uses(t, p)' => Uses(t, p)
  BY <1>1, <1>3, <1>6, <1>7, <1>8, DrainsRight
<1>10. PinsStay(t, D)
  <2>1. OwedFrom(t) = call[t].curr /\ OwedFrom(t)' = call[t].curr
    BY <1>1, <1>6, <1>9 DEF OwedFrom, At
  <2>2. Leave(D)
    BY <1>1 DEF Leave
  <2> QED
    BY <1>1, <1>4, <1>6, <1>8, <1>9, <2>1, <2>2 DEF PinsStay
<1>11. RestTyped
  BY <1>1, <1>8, RestKept DEF Typed
<1> QED
  BY <1>9, <1>10, <1>11 DEF StepOK, PinSide

\* When the list has been tried the thread has pinned what it had.
LEMMA DrainedRight ==
    ASSUME PinsOK, NEW t \in Threads, Draining(call[t]), GoesOn(t, call[t]), pinned \in [Threads -> PageOrNull],
           UNCHANGED <<pinned, usage, given>>
    PROVE  PinsRight(t) /\ \A p \in Pages : Uses(t, p)' => Uses(t, p)
<1>1. /\ pinned[t] # NoPage => given[pinned[t]] > 0
      /\ Pins(t) => call[t].page \in Pages /\ given[call[t].page] > 0
      /\ call[t].op = "pin" => pinned[t] = NoPage
      /\ call[t].op = "unpin" => pinned[t] = call[t].page /\ MayUnpin(call[t].guarantee)
      /\ call[t].op \in {"out", "construct", "exit"} => pinned[t] = NoPage
  BY DEF PinsOK
<1>2. CASE /\ call'[t].op = call[t].op /\ call'[t].page = call[t].page
           /\ call'[t].guarantee = call[t].guarantee
  BY <1>1, <1>2 DEF PinsRight, Uses, Pins
<1>3. CASE call'[t].op = "none"
  BY <1>1, <1>3 DEF PinsRight, Uses, Pins
<1>4. CASE call[t].op = "exit" /\ call'[t].op \in {"exit", "out"}
  BY <1>1, <1>4 DEF PinsRight, Uses, Pins
<1> QED
  BY <1>2, <1>3, <1>4 DEF GoesOn

\* The call goes on with its list cut at the next page to unpin.
LEMMA DrainedDoes ==
    ASSUME Typed, NEW P \in Stack, NEW D \in PageSets, NEW O \in PageSets, Good(P, D, O), NEW t \in Threads,
           NEW h \in PageOrNull, NEW d \in Call, Drained(t, d, h), Draining(call[t]),
           d.op = call[t].op, d.at = call[t].at, d.kind = call[t].kind, d.guarantee = call[t].guarantee,
           d.page = call[t].page, d.list = call[t].list, d.last = call[t].last, d.prev = call[t].prev,
           call[t].op = "exit" => h = NoPage, h = OwedFrom(t),
           UNCHANGED <<memory, given, held, pinned, usage>>
    PROVE  Does(t, P) /\ PinsDrained(t)
<1>1. /\ \E P2 \in Stack : Reaches(t, next, first, call, P, P2)
      /\ ChangedBy(t) /\ NoLocks(t) /\ TakenBy(t) = NoPage /\ TakenBy(t)' = NoPage
      /\ ~Draining(call'[t]) /\ local'[t].pending = h /\ GoesOn(t, call[t])
  BY DrainedEnds
<1>2. first' = first /\ next' = next /\ pins' = pins
  BY DEF memory
<1>3. Does(t, P)
  BY <1>1, <1>2, NoLocksRight, ReachesDoes DEF Hands
<1>4. PinsRight(t) /\ \A p \in Pages : Uses(t, p)' => Uses(t, p)
  BY <1>1, DrainedRight DEF Good, Typed
<1> QED
  BY <1>1, <1>2, <1>3, <1>4 DEF PinsDrained

\* The CAS unpins a page of the list, or the rest stays for later.
LEMMA DrainCasStep ==
    ASSUME Typed, NEW P \in Stack, NEW D \in PageSets, NEW O \in PageSets, Good(P, D, O), NEW t \in Threads,
           DrainCas(t)
    PROVE  StepOK(t, P, D)
<1> DEFINE c == call[t]
           done == [c EXCEPT !.seen = NoPage]
           d == [done EXCEPT !.at = "drain_next", !.count = @ + 1]
<1>1. c.at = "drain_cas" /\ UNCHANGED <<first, next, m_last_assigned, given, held, pinned, usage>>
  BY DEF DrainCas, At
<1>2. /\ c \in Call /\ StageOK(c) /\ DrainOK(c, local[t]) /\ Draining(c)
  BY <1>1, OfThread DEF Draining
<1>3. /\ done \in Call /\ done.op = c.op /\ done.at = c.at /\ done.kind = c.kind /\ done.guarantee = c.guarantee
      /\ done.page = c.page /\ done.list = c.list /\ done.last = c.last /\ done.prev = c.prev
      /\ done.curr = c.curr /\ done.count = c.count
  BY <1>2, FieldsTyped DEF Call
<1> HIDE DEF done
<1>4. ~UnpinsAll(c)
  BY <1>1, <1>2 DEF StageOK
<1>5. CASE /\ pins' = [pins EXCEPT ![c.curr] = @ - 1] /\ Become(t, d) /\ local' = local
  <2>1. /\ d \in Call /\ DrainsOn(t, d) /\ d.at = "drain_next" /\ d.curr = c.curr
        /\ d.guarantee = c.guarantee /\ d.op = c.op
    <3>1. c.count + 1 \in Nat
      BY <1>2 DEF Call
    <3> QED
      BY <1>3, <3>1, FieldsTyped DEF Call, DrainsOn, Draining
  <2> HIDE DEF d
  <2>2. ~UnpinsAll(d)
    BY <1>4, <2>1 DEF UnpinsAll
  <2>3. /\ Does(t, P) /\ call'[t] = d /\ PinsRight(t)
        /\ \A p \in Pages : Uses(t, p)' => Uses(t, p)
    BY <1>1, <1>2, <1>5, <2>1, <2>2, DrainsRight
  <2>4. PinsUnpin(t)
    BY <1>1, <1>5, <2>1, <2>3 DEF PinsUnpin
  <2>5. RestTyped
    BY <1>1, <1>5 DEF RestTyped, Typed
  <2> QED
    BY <2>3, <2>4, <2>5 DEF StepOK, PinSide
<1>6. CASE Drained(t, done, c.curr) /\ pins' = pins
  <2>1. c.curr \in PageOrNull
    BY <1>2 DEF Call
  <2>2. c.op # "exit"
    BY <1>2, <1>4 DEF DrainOK, UnpinsAll
  <2>3. c.curr = OwedFrom(t)
    BY <1>1 DEF OwedFrom, At
  <2>4. Does(t, P) /\ PinsDrained(t)
    BY <1>1, <1>2, <1>3, <1>6, <2>1, <2>2, <2>3, DrainedDoes DEF memory
  <2> QED
    BY <1>1, <1>6, <2>4, RestKept DEF StepOK, PinSide, Typed
<1> QED
  BY <1>1, <1>5, <1>6 DEF DrainCas, done

\* The next page of the list, or the end of it, or of what a wait-free call
\* tries.
LEMMA DrainNextStep ==
    ASSUME Typed, NEW P \in Stack, NEW D \in PageSets, NEW O \in PageSets, Good(P, D, O), NEW t \in Threads,
           DrainNext(t)
    PROVE  StepOK(t, P, D)
<1> DEFINE c == call[t]
           q == next[c.curr]
           d == [c EXCEPT !.at = "drain", !.curr = q]
<1>1. c.at = "drain_next" /\ UNCHANGED <<memory, m_last_assigned, given, held, pinned, usage>>
  BY DEF DrainNext, At
<1>2. /\ c \in Call /\ StageOK(c) /\ DrainOK(c, local[t]) /\ Draining(c)
      /\ IsList(next, O[t], OwedFrom(t), NoPage)
  BY <1>1, OfThread DEF Draining
<1>3. c.curr \in Pages /\ O[t] \subseteq D[t]
  BY <1>2, DrainFacts
<1>4. q \in PageOrNull /\ OwedFrom(t) = q
  BY <1>1, <1>3 DEF Typed, OwedFrom, At
<1>5. first' = first /\ next' = next /\ pins' = pins
  BY <1>1 DEF memory
<1>6. CASE q # NoPage /\ Become(t, d) /\ local' = local
  <2>1. /\ d \in Call /\ DrainsOn(t, d) /\ d.at = "drain" /\ d.curr = q /\ d.count = c.count
        /\ d.guarantee = c.guarantee /\ d.op = c.op
    BY <1>2, <1>4, FieldsTyped DEF Call, DrainsOn, Draining
  <2> HIDE DEF d
  <2>2. d.count # 0 => ~UnpinsAll(d)
    BY <1>2, <2>1 DEF DrainOK, UnpinsAll
  <2>3. /\ Does(t, P) /\ call'[t] = d /\ PinsRight(t)
        /\ \A p \in Pages : Uses(t, p)' => Uses(t, p)
    BY <1>1, <1>2, <1>5, <1>6, <2>1, <2>2, DrainsRight
  <2>4. q \in D[t]
    BY <1>2, <1>3, <1>4, <1>6, ListTyped
  <2>5. PinsStay(t, D)
    <3>1. OwedFrom(t)' = q
      BY <2>1, <2>3 DEF OwedFrom, At
    <3>2. Leave(D)
      BY <1>1 DEF Leave
    <3> QED
      BY <1>1, <1>4, <1>5, <1>6, <2>1, <2>3, <2>4, <3>1, <3>2 DEF PinsStay
  <2> QED
    BY <1>1, <1>5, <2>3, <2>5, RestKept DEF StepOK, PinSide, Typed
<1>7. CASE (q = NoPage \/ c.count = MaxUnpins) /\ Drained(t, c, q)
  <2>1. c.op = "exit" => q = NoPage
    <3>1. c.op = "exit" => c.count = 0
      BY <1>2 DEF DrainOK, UnpinsAll
    <3> QED
      BY <1>7, <3>1, AllocatorAssumption
  <2>2. Does(t, P) /\ PinsDrained(t)
    BY <1>1, <1>2, <1>4, <1>7, <2>1, DrainedDoes
  <2> QED
    BY <1>1, <1>5, <2>2, RestKept DEF StepOK, PinSide, Typed
<1> QED
  BY <1>6, <1>7 DEF DrainNext

---------------------------------------------------------------------------

\* A call that pins or unpins, and has done with its list.
LEMMA PinFacts ==
    ASSUME Typed, NEW P \in Stack, NEW D \in PageSets, NEW O \in PageSets, Good(P, D, O), NEW t \in Threads,
           call[t].at \in {"add", "count", "count_cas"}
    PROVE  /\ call[t].op \in {"pin", "unpin"} /\ call[t].page \in Pages
           /\ call[t].list = NoPage /\ call[t].last = NoPage /\ call[t].prev = NoPage /\ call[t].count = 0
           /\ TakenBy(t) = NoPage /\ ~Draining(call[t])
<1>1. StageOK(call[t]) /\ StackOK(next, call[t]) /\ DrainOK(call[t], local[t]) /\ PinsOK
  BY OfThread DEF Good
<1>2. call[t].op \in {"pin", "unpin"}
  BY <1>1 DEF StageOK
<1>3. call[t].page \in Pages
  BY <1>1, <1>2 DEF PinsOK, Pins
<1> QED
  BY <1>1, <1>2, <1>3 DEF StackOK, DrainOK, Draining, TakenBy

\* It is over.
LEMMA PinReturns ==
    ASSUME Typed, NEW P \in Stack, NEW D \in PageSets, NEW O \in PageSets, Good(P, D, O), NEW t \in Threads,
           call[t].at \in {"add", "count_cas"}, Become(t, NoCall), NEW l \in Local, Keep(t, l),
           l.private = local[t].private, first' = first, given' = given, held' = held,
           \A x \in Places : \A p \in P[x] : next'[p] = next[p]
    PROVE  Does(t, P) /\ call'[t] = NoCall /\ local'[t] = l
<1>1. TypedCalls /\ Spread(next, first, local, call, P)
  BY OfThread
<1>2. ChangedBy(t) /\ call'[t] = NoCall /\ local'[t] = l
  BY <1>1, NoCallIs, CallChanged
<1>3. Spread(next', first, local, call, P) /\ LinksKept(t, next, next', P)
  BY <1>1, SpreadFrame
<1>4. Reaches(t, next', first, call, P, P) /\ NoLocks(t) /\ TakenBy(t)' = NoPage /\ ~Draining(call'[t])
  <2>1. \A k \in Kinds : Own(call[t], local[t], k) = local'[t].private[k]
    BY <1>2 DEF Own, Searches
  <2>2. Others(t, local, local) /\ Others(t, call, call)
    BY DEF Others
  <2>3. call[t].list = NoPage /\ call[t].last = NoPage
    BY PinFacts
  <2> QED
    BY <1>1, <1>2, <1>3, <2>1, <2>2, <2>3, NoCallWaits, WaitsEnds
<1>5. Moves(t, P, P)
  BY <1>3, <1>4 DEF Moves, Reaches
<1>6. Owned(t, P, P)
  <2>1. TakenBy(t) = NoPage
    BY PinFacts
  <2> QED
    BY <1>4, <2>1 DEF Owned, Reaches, Hands
<1> QED
  BY <1>2, <1>4, <1>5, <1>6, NoLocksRight DEF Does

\* The pin count changes, with what the client has pinned.
LEMMA PinChangedStep ==
    ASSUME Typed, NEW P \in Stack, NEW D \in PageSets, NEW O \in PageSets, Good(P, D, O), NEW t \in Threads,
           call[t].at \in {"add", "count_cas"}, PinChanged(t),
           UNCHANGED <<first, next, m_last_assigned, local, given, held, usage>>
    PROVE  StepOK(t, P, D)
<1>1. local[t] \in Local /\ Keep(t, local[t]) /\ Become(t, NoCall)
  BY DEF Typed, Keep, PinChanged
<1>2. Does(t, P) /\ local'[t] = local[t]
  BY <1>1, PinReturns
<1>3. call[t].op \in {"pin", "unpin"} /\ call[t].page \in PageOrNull
  BY PinFacts, FieldsTyped
<1>4. PinsChange(t)
  BY <1>2, <1>3 DEF PinsChange, Pins
<1>5. RestTyped
  BY <1>3, FieldsTyped DEF RestTyped, Typed, PinChanged
<1> QED
  BY <1>2, <1>4, <1>5 DEF StepOK, PinSide

\* A pin or an unpin by fetch_add.
LEMMA FetchAddStep ==
    ASSUME Typed, NEW P \in Stack, NEW D \in PageSets, NEW O \in PageSets, Good(P, D, O), NEW t \in Threads,
           FetchAdd(t)
    PROVE  StepOK(t, P, D)
BY PinChangedStep DEF FetchAdd, At

\* The pin count is read before a CAS on it.
LEMMA LoadPinsStep ==
    ASSUME Typed, NEW P \in Stack, NEW D \in PageSets, NEW O \in PageSets, Good(P, D, O), NEW t \in Threads,
           LoadPins(t)
    PROVE  StepOK(t, P, D)
<1> DEFINE d == [call[t] EXCEPT !.at = "count_cas", !.seen = pins[call[t].page]]
<1>1. /\ call[t].at = "count" /\ Become(t, d) /\ UNCHANGED <<memory, m_last_assigned, local, given, held, pinned, usage>>
  BY DEF LoadPins, At
<1>2. /\ call[t] \in Call /\ StageOK(call[t])
  BY OfThread
<1>3. /\ call[t].op \in {"pin", "unpin"} /\ call[t].page \in Pages
      /\ call[t].list = NoPage /\ call[t].last = NoPage /\ call[t].prev = NoPage /\ call[t].count = 0
  BY <1>1, PinFacts
<1>4. /\ d \in Call /\ d.at = "count_cas" /\ d.op = call[t].op /\ d.page = call[t].page /\ d.list = NoPage
      /\ d.last = NoPage /\ d.prev = NoPage /\ d.count = 0 /\ d.guarantee = call[t].guarantee /\ d.kind = call[t].kind
  <2>1. pins[call[t].page] \in Seen
    BY <1>3, FieldsTyped DEF Typed
  <2> QED
    BY <1>2, <1>3, <2>1, FieldsTyped DEF Call
<1> HIDE DEF d
<1>5. first' = first /\ next' = next /\ pins' = pins
  BY <1>1 DEF memory
<1>6. CallOK(next, d, local[t], P[Moved(t)])
  BY <1>1, <1>2, <1>3, <1>4 DEF CallOK, StageOK, StackOK, ScanOK, DrainOK, AllocateStages, Draining
<1>7. Does(t, P) /\ call'[t] = d
  <2>1. \A k \in Kinds : Searches(d, k) <=> Searches(call[t], k)
    BY <1>1, <1>4 DEF Searches
  <2>2. \A s \in Slots, k \in Kinds : ~Locks(d, local[t], s, k)
    BY <1>4 DEF Locks
  <2> QED
    BY <1>1, <1>3, <1>4, <1>5, <1>6, <2>1, <2>2, InPlace
<1>8. PinsStay(t, D)
  <2>1. OwedFrom(t)' = local[t].pending /\ OwedFrom(t) = local[t].pending /\ ~Draining(call'[t])
    BY <1>1, <1>4, <1>7 DEF OwedFrom, At, Draining
  <2>2. PinsRight(t)
    BY <1>1, <1>4, <1>7 DEF Good, PinsOK, PinsRight, Pins
  <2>3. \A p \in Pages : Uses(t, p)' => Uses(t, p)
    BY <1>1, <1>4, <1>7 DEF Uses, Pins
  <2>4. Leave(D)
    BY <1>1 DEF Leave
  <2> QED
    BY <1>1, <1>5, <2>1, <2>2, <2>3, <2>4 DEF PinsStay
<1> QED
  BY <1>1, <1>5, <1>7, <1>8, RestKept DEF StepOK, PinSide, Typed

\* A wait-free pin or unpin succeeds, or the pin fails, or the unpin is left
\* for later.
LEMMA PinsCasStep ==
    ASSUME Typed, NEW P \in Stack, NEW D \in PageSets, NEW O \in PageSets, Good(P, D, O), NEW t \in Threads,
           PinsCas(t)
    PROVE  StepOK(t, P, D)
<1> DEFINE p == call[t].page
           l == [local[t] EXCEPT !.pending = p]
<1>1. call[t].at = "count_cas" /\ UNCHANGED <<first, m_last_assigned, given, held, usage>>
  BY DEF PinsCas, At
<1>2. /\ call[t].op \in {"pin", "unpin"} /\ p \in Pages /\ p \in PageOrNull /\ ~Draining(call[t])
  BY <1>1, PinFacts, FieldsTyped
<1>3. StageOK(call[t]) /\ local[t] \in Local
  BY OfThread
<1>4. CASE PinChanged(t) /\ UNCHANGED <<next, local>>
  BY <1>1, <1>4, PinChangedStep
<1>5. CASE UNCHANGED <<next, local, pinned, pins>> /\ Become(t, NoCall)
  <2>1. Keep(t, local[t])
    BY <1>5 DEF Keep, Typed
  <2>2. Does(t, P) /\ call'[t] = NoCall
    BY <1>1, <1>3, <1>5, <2>1, PinReturns
  <2>3. PinsStay(t, D)
    BY <1>1, <1>2, <1>5, <2>2, NoCallIs, PinsAside DEF Draining
  <2> QED
    BY <1>1, <1>5, <2>2, <2>3, RestKept DEF StepOK, PinSide, Typed
<1>6. CASE /\ call[t].op = "unpin" /\ next' = [next EXCEPT ![p] = local[t].pending] /\ Keep(t, l)
           /\ pinned' = [pinned EXCEPT ![t] = NoPage] /\ Become(t, NoCall) /\ pins' = pins
  <2>1. l \in Local /\ l.pending = p /\ l.private = local[t].private
    BY <1>2, <1>3 DEF Local
  <2> HIDE DEF l
  <2>2. p \in held
    <3>1. usage = "exclusive" /\ pinned[t] = p /\ p # NoPage
      BY <1>1, <1>2, <1>3, <1>6, PagesNotNull DEF Good, PinsOK, StageOK, MayUnpin, Typed
    <3>2. Uses(t, p)
      BY <3>1 DEF Uses
    <3> QED
      BY <1>2, <3>1, <3>2 DEF Good, ExclusiveOK
  <2>3. \A x \in Places : \A r \in P[x] : next'[r] = next[r]
    <3>1. \A x \in Places : p \notin P[x] /\ P[x] \subseteq Pages
      BY <2>2 DEF Good, OwnersOK, Stack
    <3> QED
      BY <1>6, <3>1 DEF Typed
  <2>4. Does(t, P) /\ call'[t] = NoCall /\ local'[t] = l
    BY <1>1, <1>6, <2>1, <2>3, PinReturns
  <2>5. PinsLater(t)
    BY <1>1, <1>3, <1>6, <2>1, <2>4 DEF PinsLater, StageOK
  <2>6. RestTyped
    <3>1. local[t].pending \in PageOrNull
      BY <1>3 DEF Local
    <3> QED
      BY <1>1, <1>6, <3>1, FieldsTyped DEF RestTyped, Typed
  <2> QED
    BY <2>4, <2>5, <2>6 DEF StepOK, PinSide
<1> QED
  BY <1>4, <1>5, <1>6 DEF PinsCas

\* After a page of a list, another one or none.
LEMMA ListNext ==
    ASSUME NEW nx, NEW S, NEW h, IsList(nx, S, h, NoPage), NEW a \in S, nx[a] # NoPage
    PROVE  nx[a] \in S
BY DEF IsList, RankedList

\* What a search of a stack knows.
LEMMA ScanFacts ==
    ASSUME Typed, NEW P \in Stack, NEW D, NEW O, Good(P, D, O), NEW t \in Threads, call[t].at = "scan"
    PROVE  /\ call[t].op = "allocate" /\ call[t].page = NoPage /\ call[t].last = NoPage /\ call[t].count = 0
           /\ call[t].curr \in P[Moved(t)] /\ call[t].curr \in Pages /\ TakenBy(t) = NoPage
           /\ IF call[t].prev = NoPage THEN call[t].curr = call[t].list
              ELSE call[t].prev \in P[Moved(t)] /\ next[call[t].prev] = call[t].curr
           /\ call[t].stack = "private" => call[t].list = local[t].private[call[t].kind]
           /\ ~Draining(call[t]) /\ IsList(next, P[Moved(t)], call[t].list, NoPage)
           /\ \A p \in P[Moved(t)] : p \in Pages /\ p \notin held
<1>1. /\ StageOK(call[t]) /\ StackOK(next, call[t]) /\ DrainOK(call[t], local[t])
      /\ ScanOK(next, call[t], local[t], P[Moved(t)])
      /\ IsList(next, P[Moved(t)], call[t].list, call[t].last)
  BY OfThread
<1>2. call[t].op = "allocate"
  BY <1>1 DEF StageOK, AllocateStages
<1>3. /\ call[t].page = NoPage /\ call[t].last = NoPage /\ call[t].count = 0 /\ TakenBy(t) = NoPage
      /\ ~Draining(call[t])
  BY <1>1, <1>2 DEF StackOK, DrainOK, Draining, TakenBy
<1>4. \A p \in P[Moved(t)] : p \in Pages /\ p \notin held
  BY PlacesApart DEF Good, OwnersOK, Stack
<1> QED
  BY <1>1, <1>2, <1>3, <1>4 DEF ScanOK

\* The search passes a page that is pinned.
LEMMA ScanPinnedStep ==
    ASSUME Typed, NEW P \in Stack, NEW D \in PageSets, NEW O \in PageSets, Good(P, D, O), NEW t \in Threads,
           ScanPinned(t)
    PROVE  StepOK(t, P, D)
<1> DEFINE c == call[t]
           d == [c EXCEPT !.curr = next[c.curr], !.prev = c.curr]
<1>1. c.at = "scan" /\ UNCHANGED <<memory, m_last_assigned, given, pinned, usage>>
  BY DEF ScanPinned, At
<1>2. first' = first /\ next' = next /\ pins' = pins
  BY <1>1 DEF memory
<1>3. /\ c.op = "allocate" /\ c.page = NoPage /\ c.last = NoPage /\ c.count = 0
      /\ c.curr \in P[Moved(t)] /\ c.curr \in Pages /\ TakenBy(t) = NoPage
      /\ c.stack = "private" => c.list = local[t].private[c.kind]
      /\ ~Draining(c) /\ IsList(next, P[Moved(t)], c.list, NoPage)
  BY <1>1, ScanFacts
<1>4. TypedCalls /\ Spread(next, first, local, call, P) /\ c \in Call
  BY OfThread
<1>5. CASE next[c.curr] # NoPage /\ Become(t, d) /\ UNCHANGED <<local, held>>
  <2>1. next[c.curr] \in P[Moved(t)] /\ next[c.curr] \in PageOrNull
    BY <1>3, <1>5, ListNext DEF Typed
  <2>2. /\ d \in Call /\ d.op = c.op /\ d.at = c.at /\ d.list = c.list /\ d.last = c.last /\ d.page = c.page
        /\ d.kind = c.kind /\ d.stack = c.stack /\ d.curr = next[c.curr] /\ d.prev = c.curr
        /\ d.count = c.count /\ d.guarantee = c.guarantee
    BY <1>3, <1>4, <2>1, FieldsTyped DEF Call
  <2> HIDE DEF d
  <2>3. CallOK(next, d, local[t], P[Moved(t)])
    <3>1. StageOK(d) /\ StackOK(next, d)
      BY <1>1, <1>3, <2>2 DEF StageOK, StackOK, AllocateStages
    <3>2. ScanOK(next, d, local[t], P[Moved(t)])
      BY <1>1, <1>3, <2>1, <2>2, PagesNotNull DEF ScanOK
    <3>3. DrainOK(d, local[t])
      BY <1>3, <2>2 DEF DrainOK
    <3> QED
      BY <3>1, <3>2, <3>3 DEF CallOK
  <2>4. Does(t, P) /\ call'[t] = d
    <3>1. \A k \in Kinds : Searches(d, k) <=> Searches(call[t], k)
      BY <2>2 DEF Searches
    <3>2. \A s \in Slots, k \in Kinds : Locks(d, local[t], s, k) => Locks(call[t], local[t], s, k)
      BY <2>2 DEF Locks
    <3> QED
      BY <1>1, <1>2, <1>5, <2>2, <2>3, <3>1, <3>2, InPlace
  <2>5. PinsStay(t, D)
    BY <1>1, <1>2, <1>3, <1>5, <2>2, <2>4, PinsAside DEF Draining
  <2> QED
    BY <1>1, <1>2, <2>4, <2>5, RestKept DEF StepOK, PinSide, Typed
<1>6. CASE Scanned(t, c)
  <2>1. /\ Arrives(t, next, first, call, P, local[t], c.page)
        /\ call'[t].op \in {"allocate", "none"}
        /\ \A s, k : Locks(call'[t], local'[t], s, k) => Locks(c, local[t], s, k)
    <3>1. Others(t, call, call)
      BY DEF Others
    <3> QED
      BY <1>1, <1>3, <1>4, <1>6, <3>1, ScannedEnds
  <2>2. LocksRight(t)
    BY <1>2, <2>1 DEF LocksRight, Good, LocksOK
  <2>3. Does(t, P)
    <3>1. Hands(t, TakenBy(t)) /\ ChangedBy(t)
      BY <1>3, <2>1 DEF Arrives
    <3>2. PICK P2 \in Stack : Reaches(t, next, first, call, P, P2)
      BY <2>1 DEF Arrives
    <3> QED
      BY <1>1, <1>2, <2>2, <3>1, <3>2, ReachesDoes
  <2>4. PinsStay(t, D)
    <3>1. held \subseteq held' /\ local'[t].pending = local[t].pending /\ ~Draining(call'[t])
      BY <2>1 DEF Arrives, Hands
    <3> QED
      BY <1>1, <1>2, <1>3, <2>1, <3>1, PinsAside
  <2> QED
    BY <1>1, <1>2, <2>3, <2>4, RestKept DEF StepOK, PinSide, Typed
<1> QED
  BY <1>5, <1>6 DEF ScanPinned

\* The page q is found, and leaves the stack.
LEMMA FoundStep ==
    ASSUME Typed, NEW P \in Stack, NEW D \in PageSets, NEW O \in PageSets, Good(P, D, O), NEW t \in Threads,
           NEW d \in Call, call[t].at = "scan", d.op = "allocate", d.at = "scan", d.stack = call[t].stack,
           d.kind = call[t].kind, d.last = NoPage, d.count = 0, d.page = call[t].curr,
           Unlinked(next, next', P[Moved(t)], call[t].list, d.list, call[t].curr),
           \A p \in held : next'[p] = next[p], next' \in [Pages -> PageOrNull],
           Scanned(t, d), pins[call[t].curr] = 0,
           UNCHANGED <<first, pins, m_last_assigned, given, pinned, usage>>
    PROVE  StepOK(t, P, D)
<1> DEFINE c == call[t]
           q == c.curr
           ca == [call EXCEPT ![t] = d]
<1>1. /\ c.op = "allocate" /\ c.page = NoPage /\ c.last = NoPage /\ c.count = 0
      /\ q \in P[Moved(t)] /\ q \in Pages /\ TakenBy(t) = NoPage
      /\ ~Draining(c) /\ IsList(next, P[Moved(t)], c.list, NoPage)
  BY ScanFacts
<1>2. TypedCalls /\ Spread(next, first, local, call, P) /\ c \in Call
  BY OfThread
<1>3. Others(t, call, ca) /\ ca[t] = d
  BY <1>2 DEF Others, TypedCalls
<1> HIDE DEF ca
<1>4. PICK P1 \in Stack : /\ Spread(next', first, local, ca, P1) /\ FreeLess(call, P, ca, P1, q)
                          /\ OthersMoved(t, P, P1) /\ P1[Moved(t)] = P[Moved(t)] \ {q}
                          /\ LinksKept(t, next, next', P) /\ Within(q, KindsOf(call), P, call[t].kind)
  <2>1. OwnSame(call[t], local[t], ca[t], local[t], {})
    BY <1>3 DEF OwnSame, Own, Searches
  <2>2. LosesPage(t, q, next, local, call, next', local, ca, P[Moved(t)])
    BY <1>1, <1>3, <2>1 DEF LosesPage, Others
  <2> QED
    BY <1>2, <2>2, SpreadLess
<1>5. /\ Arrives(t, next', first, ca, P1, local[t], q)
      /\ call'[t].op \in {"allocate", "none"}
      /\ \A s, k : Locks(call'[t], local'[t], s, k) => Locks(d, local[t], s, k)
  <2>1. /\ Arrives(t, next', first, ca, P1, local[t], d.page)
        /\ call'[t].op \in {"allocate", "none"}
        /\ \A s, k : Locks(call'[t], local'[t], s, k) => Locks(d, local[t], s, k)
    BY <1>2, <1>3, <1>4, ScannedEnds
  <2> QED
    BY <2>1
<1>6. PICK P2 \in Stack : Reaches(t, next', first, ca, P1, P2)
  BY <1>5 DEF Arrives
<1>7. Moves(t, P, P2)
  <2>1. OthersMoved(t, P, P2)
    BY <1>4, <1>6, OthersMovedTrans DEF Reaches
  <2> QED
    BY <1>4, <1>6, <2>1 DEF Moves, Reaches
<1>8. Owned(t, P, P2)
  <2>1. FreeLess(call, P, call', P2, q)
    BY <1>4, <1>6 DEF Reaches, FreeLess, SameFree, SameWithin
  <2>2. Found(t, q)
    BY <1>1, <1>5 DEF Found, Arrives
  <2> QED
    BY <1>4, <2>1, <2>2 DEF Owned
<1>9. LocksRight(t)
  <2>1. \A s, k : Locks(call'[t], local'[t], s, k) => Locks(c, local[t], s, k)
    BY <1>5 DEF Locks
  <2> QED
    BY <2>1 DEF LocksRight, Good, LocksOK
<1>10. Does(t, P)
  BY <1>5, <1>7, <1>8, <1>9 DEF Does, Arrives
<1>11. PinsStay(t, D)
  <2>1. held \subseteq held' /\ local'[t].pending = local[t].pending /\ ~Draining(call'[t])
    BY <1>5 DEF Arrives, Hands
  <2> QED
    BY <1>1, <1>5, <2>1, PinsAside
<1>12. RestTyped
  BY DEF RestTyped, Typed
<1> QED
  BY <1>10, <1>11, <1>12 DEF StepOK, PinSide

\* The search finds a page that is not pinned, at the front or inside of the
\* stack.
LEMMA ScanUnpinnedStep ==
    ASSUME Typed, NEW P \in Stack, NEW D \in PageSets, NEW O \in PageSets, Good(P, D, O), NEW t \in Threads,
           ScanUnpinned(t)
    PROVE  StepOK(t, P, D)
<1> DEFINE c == call[t]
           d == [c EXCEPT !.page = c.curr]
           e == [c EXCEPT !.page = c.curr, !.list = next[c.curr]]
<1>1. /\ c.at = "scan" /\ pins[c.curr] = 0
      /\ UNCHANGED <<first, pins, m_last_assigned, given, pinned, usage>>
  BY DEF ScanUnpinned, At
<1>2. /\ c.op = "allocate" /\ c.page = NoPage /\ c.last = NoPage /\ c.count = 0
      /\ c.curr \in P[Moved(t)] /\ c.curr \in Pages /\ TakenBy(t) = NoPage
      /\ IF c.prev = NoPage THEN c.curr = c.list
         ELSE c.prev \in P[Moved(t)] /\ next[c.prev] = c.curr
      /\ \A p \in P[Moved(t)] : p \in Pages /\ p \notin held
  BY <1>1, ScanFacts
<1>3. c \in Call /\ next[c.curr] \in PageOrNull
  BY <1>2 DEF Typed
<1>4. /\ d \in Call /\ d.op = c.op /\ d.at = c.at /\ d.stack = c.stack /\ d.kind = c.kind /\ d.last = c.last
      /\ d.count = c.count /\ d.page = c.curr /\ d.list = c.list
  BY <1>2, <1>3, FieldsTyped DEF Call
<1>5. /\ e \in Call /\ e.op = c.op /\ e.at = c.at /\ e.stack = c.stack /\ e.kind = c.kind /\ e.last = c.last
      /\ e.count = c.count /\ e.page = c.curr /\ e.list = next[c.curr]
  BY <1>2, <1>3, FieldsTyped DEF Call
<1> HIDE DEF d, e
<1>6. CASE c.prev # NoPage /\ next' = [next EXCEPT ![c.prev] = next[c.curr]] /\ Scanned(t, d)
  <2>1. c.prev \in P[Moved(t)] /\ c.prev \in Pages /\ c.prev \notin held /\ next[c.prev] = c.curr
    BY <1>2, <1>6
  <2>2. /\ next'[c.prev] = next[c.curr] /\ \A r \in Pages \ {c.prev} : next'[r] = next[r]
        /\ next' \in [Pages -> PageOrNull]
    BY <1>3, <1>6, <2>1 DEF Typed
  <2>3. Unlinked(next, next', P[Moved(t)], c.list, d.list, c.curr)
    BY <1>4, <2>1, <2>2 DEF Unlinked
  <2>4. \A p \in held : next'[p] = next[p]
    BY <2>1, <2>2 DEF Typed
  <2> QED
    BY <1>1, <1>2, <1>4, <1>6, <2>2, <2>3, <2>4, FoundStep
<1>7. CASE c.prev = NoPage /\ Scanned(t, e) /\ next' = next
  <2>1. Unlinked(next, next', P[Moved(t)], c.list, e.list, c.curr)
    BY <1>2, <1>5, <1>7 DEF Unlinked
  <2>2. next' \in [Pages -> PageOrNull]
    BY <1>7 DEF Typed
  <2> QED
    BY <1>1, <1>2, <1>5, <1>7, <2>1, <2>2, FoundStep
<1> QED
  BY <1>6, <1>7 DEF ScanUnpinned, d, e

\* A call that moves a stack.
LEMMA MovingFacts ==
    ASSUME Typed, NEW P \in Stack, NEW D \in PageSets, NEW O \in PageSets, Good(P, D, O), NEW t \in Threads,
           call[t].at \in {"exchange", "restore", "steal", "steal_cas", "system", "push", "push_cas"}
    PROVE  /\ call[t].op \in {"allocate", "free", "exit"} /\ call[t].prev = NoPage /\ call[t].count = 0
           /\ call[t].at \notin {"push", "push_cas"} =>
                 call[t].op = "allocate" /\ call[t].last = NoPage
           /\ call[t].at \in {"exchange", "steal", "steal_cas", "system"} =>
                 call[t].list = NoPage /\ call[t].page = NoPage
           /\ TakenBy(t) = call[t].page /\ ~Draining(call[t])
           /\ call[t].op = "exit" => call[t].guarantee = "blocking" /\ local[t].pending = NoPage
           /\ \A k : Own(call[t], local[t], k) = local[t].private[k]
<1>1. StageOK(call[t]) /\ StackOK(next, call[t]) /\ DrainOK(call[t], local[t])
  BY OfThread
<1>2. call[t].op \in {"allocate", "free", "exit"} /\ ~Draining(call[t])
  BY <1>1 DEF StageOK, AllocateStages, Draining
<1>3. call[t].at \notin {"push", "push_cas"} => call[t].op = "allocate"
  BY <1>1 DEF StageOK, AllocateStages
<1>4. TakenBy(t) = call[t].page
  BY <1>1, <1>2 DEF StackOK, TakenBy
<1> QED
  BY <1>1, <1>2, <1>3, <1>4 DEF StackOK, DrainOK, Own, Searches

\* The slots of a thread, their stacks, and pages that no client has.
LEMMA PlacesTyped ==
    ASSUME Typed, NEW P \in Stack, NEW D \in PageSets, NEW O \in PageSets, Good(P, D, O), NEW t \in Threads
    PROVE  /\ local[t].slot \in Slots /\ local[t].victim \in Slots /\ call[t].kind \in Kinds
           /\ \A s \in Slots, k \in Kinds : first[s][k] \in PageOrNull \cup {Marker}
           /\ \A x \in Places : \A p \in P[x] : p \in Pages /\ p \notin held
<1>1. call[t] \in Call /\ local[t] \in Local
  BY OfThread
<1> QED
  BY <1>1 DEF Typed, Call, Local, Good, OwnersOK, Stack

\* What it does with the stacks leaves the pins alone.
LEMMA MovesStep ==
    ASSUME Typed, NEW P \in Stack, NEW D \in PageSets, NEW O \in PageSets, Good(P, D, O), NEW t \in Threads,
           call[t].at \in {"exchange", "restore", "steal", "steal_cas", "system", "push", "push_cas"},
           NEW P2 \in Stack, ChangedBy(t), Moves(t, P, P2), Owned(t, P, P2), LocksRight(t),
           first' \in [Slots -> [Kinds -> PageOrNull \cup {Marker}]], next' \in [Pages -> PageOrNull],
           \A p \in held : next'[p] = next[p], held \subseteq held',
           \A p \in Pages : given[p] > 0 => given'[p] > 0,
           UNCHANGED <<pins, m_last_assigned, pinned, usage>>,
           local'[t].pending = local[t].pending, ~Draining(call'[t]),
           call'[t].op \in {"allocate", "none", call[t].op} \/ (call[t].op = "exit" /\ call'[t].op = "out")
    PROVE  StepOK(t, P, D)
<1>1. call[t].op \in {"allocate", "free", "exit"} /\ ~Draining(call[t])
  BY MovingFacts
<1>2. PinsStay(t, D)
  BY <1>1, PinsAside
<1>3. RestTyped
  BY DEF RestTyped, Typed
<1> QED
  BY <1>2, <1>3 DEF StepOK, Does, PinSide

\* It has no stack when it begins to wait, or is over.
LEMMA WaitStep ==
    ASSUME Typed, NEW P \in Stack, NEW D \in PageSets, NEW O \in PageSets, Good(P, D, O), NEW t \in Threads,
           call[t].at \in {"exchange", "steal", "steal_cas", "system"},
           ChangedBy(t), Waits(call'[t]), local'[t].private = local[t].private,
           local'[t].pending = local[t].pending,
           UNCHANGED <<first, next, pins, m_last_assigned, given, held, pinned, usage>>
    PROVE  StepOK(t, P, D)
<1>1. TypedCalls /\ Spread(next, first, local, call, P)
  BY OfThread
<1>2. /\ call[t].list = NoPage /\ call[t].last = NoPage /\ TakenBy(t) = NoPage
      /\ \A k : Own(call[t], local[t], k) = local[t].private[k]
  BY MovingFacts
<1>3. Others(t, call, call) /\ Others(t, local, local)
  BY DEF Others
<1>4. Reaches(t, next, first, call, P, P) /\ NoLocks(t) /\ TakenBy(t)' = NoPage /\ ~Draining(call'[t])
  BY <1>1, <1>2, <1>3, WaitsEnds
<1>5. Moves(t, P, P)
  BY <1>4 DEF Moves, Reaches, LinksKept
<1>6. Owned(t, P, P)
  BY <1>2, <1>4 DEF Owned, Reaches, Hands
<1>7. call'[t].op \in {"allocate", "none"}
  BY DEF Waits
<1>8. LocksRight(t)
  BY <1>4, NoLocksRight
<1>9. first' \in [Slots -> [Kinds -> PageOrNull \cup {Marker}]] /\ next' \in [Pages -> PageOrNull]
  BY DEF Typed
<1> QED
  BY <1>4, <1>5, <1>6, <1>7, <1>8, <1>9, MovesStep

\* A steal that ends with nothing.
LEMMA AfterStealStep ==
    ASSUME Typed, NEW P \in Stack, NEW D \in PageSets, NEW O \in PageSets, Good(P, D, O), NEW t \in Threads,
           call[t].at \in {"steal", "steal_cas"}, NEW d \in Call, AfterSteal(t, d, local[t]),
           d.op = "allocate", d.count = 0, d.prev = NoPage, d.page = NoPage,
           UNCHANGED <<first, next, pins, m_last_assigned, given, pinned, usage>>
    PROVE  StepOK(t, P, D)
<1>1. TypedCalls /\ local[t] \in Local
  BY OfThread
<1>2. /\ ChangedBy(t) /\ Waits(call'[t])
      /\ local'[t].private = local[t].private /\ local'[t].pending = local[t].pending
      /\ held' = held \cup ({d.page} \ {NoPage})
  BY <1>1, AfterStealEnds
<1>3. held' = held
  BY <1>2
<1> QED
  BY <1>2, <1>3, WaitStep

\* The stack of a slot is taken.
LEMMA TakesStep ==
    ASSUME Typed, NEW P \in Stack, NEW D \in PageSets, NEW O \in PageSets, Good(P, D, O), NEW t \in Threads,
           call[t].at \in {"exchange", "steal_cas"}, NEW s \in Slots, NEW d \in Call, NEW m \in {Marker, NoPage},
           first[s][call[t].kind] # Marker, SetFirst(s, call[t].kind, m), Become(t, d),
           d.op = "allocate", d.kind = call[t].kind, d.list = first[s][call[t].kind],
           d.last = NoPage, d.page = NoPage, d.prev = NoPage, d.count = 0,
           \/ d.at = "restore" /\ d.list = NoPage /\ m = Marker /\ local[t].slot = s
           \/ /\ d.at = "scan" /\ d.list # NoPage /\ d.curr = d.list
              /\ d.stack = "stolen" \/ (d.stack = "current" /\ m = Marker /\ local[t].slot = s),
           UNCHANGED <<next, pins, m_last_assigned, local, given, held, pinned, usage>>
    PROVE  StepOK(t, P, D)
<1> DEFINE k == call[t].kind
<1>1. TypedCalls /\ Spread(next, first, local, call, P)
  BY OfThread
<1>2. /\ call[t].list = NoPage /\ call[t].last = NoPage /\ TakenBy(t) = NoPage /\ call[t].page = NoPage
      /\ \A j : Own(call[t], local[t], j) = local[t].private[j]
  BY MovingFacts
<1>3. k \in Kinds /\ \A r \in Slots, j \in Kinds : first[r][j] \in PageOrNull \cup {Marker}
  BY PlacesTyped
<1>4. /\ ChangedBy(t) /\ call' = [call EXCEPT ![t] = d] /\ call'[t] = d /\ local' = local
      /\ Others(t, call, call') /\ Others(t, local, local')
  BY <1>1 DEF ChangedBy, Become, TypedCalls, Others
<1>5. /\ first'[s][k] = m /\ SlotChanged(first, first', s, k)
      /\ first' \in [Slots -> [Kinds -> PageOrNull \cup {Marker}]]
  BY <1>3 DEF SetFirst, SlotChanged, Typed, PageOrNull
<1>6. TakesSlot(t, s, k, first, local, call, first', local', call')
  <2>1. OwnSame(call[t], local[t], call'[t], local'[t], {})
    BY <1>2, <1>4 DEF OwnSame, Own, Searches
  <2>2. first[s][k] \in Pages \cup {NoPage}
    BY <1>3 DEF PageOrNull
  <2> QED
    BY <1>2, <1>3, <1>4, <1>5, <2>1, <2>2 DEF TakesSlot
<1>7. PICK P2 \in Stack : Spread(next, first', local', call', P2) /\ SameFree(call, P, call', P2) /\ OthersMoved(t, P, P2)
  BY <1>1, <1>6, TakeSlot
<1>8. IsList(next, P2[Moved(t)], d.list, NoPage)
  <2>1. PlacesHave(first', local', call')
    BY HeadsAre
  <2>2. Moved(t) \in Places
    BY PlacesApart
  <2>3. IsList(next, P2[Moved(t)], HeadsOf(first', local', call')[Moved(t)], LastsOf(call')[Moved(t)])
    BY <1>7, <2>2 DEF Spread, AreStacks
  <2>4. HeadsOf(first', local', call')[Moved(t)] = call'[t].list /\ LastsOf(call')[Moved(t)] = call'[t].last
    BY <2>1 DEF PlacesHave
  <2> QED
    BY <1>4, <2>3, <2>4
<1>9. CallOK(next, d, local[t], P2[Moved(t)])
  <2>1. d.list # NoPage => d.list \in P2[Moved(t)]
    BY <1>8, ListTyped
  <2> QED
    BY <2>1 DEF CallOK, StageOK, StackOK, ScanOK, DrainOK, AllocateStages, Draining
<1>10. Moves(t, P, P2)
  BY <1>4, <1>7, <1>9 DEF Moves, LinksKept
<1>11. Owned(t, P, P2)
  BY <1>2, <1>4, <1>7 DEF Owned, Hands, TakenBy
<1>12. LocksRight(t)
  <2>1. \A u \in Threads : ~Locks(call[u], local[u], s, k)
    BY <1>3 DEF Good, LocksOK
  <2>2. \A r \in Slots, j \in Kinds : Locks(call'[t], local'[t], r, j) => r = s /\ j = k /\ m = Marker
    BY <1>4 DEF Locks
  <2> QED
    BY <1>5, <2>1, <2>2 DEF LocksRight, SlotChanged
<1>13. ~Draining(call'[t]) /\ call'[t].op = "allocate"
  BY <1>4 DEF Draining
<1>14. next' \in [Pages -> PageOrNull]
  BY DEF Typed
<1> QED
  BY <1>4, <1>5, <1>10, <1>11, <1>12, <1>13, <1>14, MovesStep

\* The stack of the current slot is taken and locked, or was locked already.
LEMMA ExchangeStep ==
    ASSUME Typed, NEW P \in Stack, NEW D \in PageSets, NEW O \in PageSets, Good(P, D, O), NEW t \in Threads,
           Exchange(t)
    PROVE  StepOK(t, P, D)
<1> DEFINE c == call[t]
           h == Current(t)
           s == local[t].slot
<1>1. /\ c.at = "exchange" /\ SetFirst(s, c.kind, Marker)
      /\ UNCHANGED <<next, pins, m_last_assigned, local, given, held, pinned, usage>>
  BY DEF Exchange, At
<1>2. /\ c.op = "allocate" /\ c.prev = NoPage /\ c.count = 0 /\ c.last = NoPage /\ c.list = NoPage
      /\ c.page = NoPage
  BY <1>1, MovingFacts
<1>3. s \in Slots /\ c.kind \in Kinds /\ first[s][c.kind] \in PageOrNull \cup {Marker}
  BY PlacesTyped
<1>4. TypedCalls /\ c \in Call /\ local[t] \in Local
  BY OfThread
<1>5. CASE h = Marker
  <2> DEFINE d == [c EXCEPT !.at = "steal"]
  <2>1. d \in Call /\ Waits(d)
    BY <1>2, <1>4, FieldsTyped DEF Call, Waits
  <2>2. Become(t, d)
    BY <1>5, PagesNotNull DEF Exchange
  <2> HIDE DEF d
  <2>3. ChangedBy(t) /\ call'[t] = d /\ local' = local
    BY <1>1, <1>4, <2>1, <2>2 DEF ChangedBy, Become, TypedCalls, Others
  <2>4. first' = first
    BY <1>1, <1>3, <1>5 DEF SetFirst, Typed, Current
  <2> QED
    BY <1>1, <2>1, <2>3, <2>4, WaitStep
<1>6. CASE h = NoPage
  <2> DEFINE d == [c EXCEPT !.at = "restore"]
  <2>1. /\ d \in Call /\ d.op = c.op /\ d.kind = c.kind /\ d.list = c.list /\ d.last = c.last
        /\ d.page = c.page /\ d.prev = c.prev /\ d.count = c.count /\ d.at = "restore"
    BY <1>4, FieldsTyped DEF Call
  <2>2. Become(t, d)
    BY <1>6, PagesNotNull DEF Exchange
  <2> HIDE DEF d
  <2> QED
    BY <1>1, <1>2, <1>3, <1>6, <2>1, <2>2, PagesNotNull, TakesStep DEF Current
<1>7. CASE h # Marker /\ h # NoPage
  <2> DEFINE d == [c EXCEPT !.at = "scan", !.stack = "current", !.list = h, !.curr = h]
  <2>1. h \in PageOrNull /\ h \in Pages
    BY <1>3, <1>7 DEF Current, PageOrNull
  <2>2. /\ d \in Call /\ d.op = c.op /\ d.kind = c.kind /\ d.list = h /\ d.curr = h /\ d.last = c.last
        /\ d.page = c.page /\ d.prev = c.prev /\ d.count = c.count /\ d.at = "scan" /\ d.stack = "current"
    BY <1>4, <2>1, FieldsTyped DEF Call
  <2>3. Become(t, d)
    BY <1>7 DEF Exchange
  <2> HIDE DEF d
  <2> QED
    BY <1>1, <1>2, <1>3, <1>7, <2>2, <2>3, TakesStep DEF Current
<1> QED
  BY <1>5, <1>6, <1>7

\* What is left of that stack is put back.
LEMMA RestoreStep ==
    ASSUME Typed, NEW P \in Stack, NEW D \in PageSets, NEW O \in PageSets, Good(P, D, O), NEW t \in Threads,
           Restore(t)
    PROVE  StepOK(t, P, D)
<1> DEFINE c == call[t]
           s == local[t].slot
           k == call[t].kind
           d == [c EXCEPT !.at = "steal", !.list = NoPage]
<1>1. /\ c.at = "restore" /\ SetFirst(s, k, c.list)
      /\ UNCHANGED <<next, pins, m_last_assigned, local, given, pinned, usage>>
  BY DEF Restore, At
<1>2. /\ c.op = "allocate" /\ c.prev = NoPage /\ c.count = 0 /\ c.last = NoPage
      /\ TakenBy(t) = c.page /\ \A j : Own(c, local[t], j) = local[t].private[j]
  BY <1>1, MovingFacts
<1>3. s \in Slots /\ k \in Kinds
  BY PlacesTyped
<1>4. TypedCalls /\ c \in Call /\ local[t] \in Local /\ Spread(next, first, local, call, P)
  BY OfThread
<1>5. c.list \in PageOrNull /\ c.page \in PageOrNull
  BY <1>4 DEF Call
<1>6. /\ d \in Call /\ d.op = c.op /\ d.at = "steal" /\ d.list = NoPage /\ d.last = c.last
      /\ d.page = c.page /\ d.prev = c.prev /\ d.count = c.count
  BY <1>4, FieldsTyped DEF Call
<1> HIDE DEF d
<1>7. /\ ChangedBy(t) /\ local' = local /\ Waits(call'[t]) /\ Hands(t, c.page)
      /\ Others(t, call, call') /\ Others(t, local, local')
  <2>1. CASE c.page # NoPage /\ Return(t, c.page)
    <3>1. ChangedBy(t) /\ call'[t] = NoCall
      BY <1>1, <1>4, <2>1, NoCallIs DEF ChangedBy, Return, Become, TypedCalls, Others
    <3>2. TakenBy(t)' = NoPage
      BY <3>1, NoCallIs DEF TakenBy
    <3> QED
      BY <1>1, <2>1, <3>1, <3>2, NoCallWaits DEF Hands, Return, ChangedBy
  <2>2. CASE c.page = NoPage /\ Become(t, d) /\ held' = held
    <3>1. ChangedBy(t) /\ call'[t] = d
      BY <1>1, <1>4, <1>6, <2>2 DEF ChangedBy, Become, TypedCalls, Others
    <3>2. TakenBy(t)' = NoPage
      BY <1>2, <1>6, <2>2, <3>1 DEF TakenBy
    <3>3. Waits(d)
      BY <1>2, <1>6, <2>2 DEF Waits
    <3> QED
      BY <1>1, <2>2, <3>1, <3>2, <3>3 DEF Hands, ChangedBy
  <2> QED
    BY <2>1, <2>2 DEF Restore, d
<1>8. first[s][k] = Marker /\ \A u \in Threads \ {t} : ~Locks(call[u], local[u], s, k)
  <2>1. Locks(call[t], local[t], s, k)
    BY <1>1 DEF Locks
  <2> QED
    BY <1>3, <2>1 DEF Good, LocksOK
<1>9. /\ first'[s][k] = c.list /\ SlotChanged(first, first', s, k)
      /\ first' \in [Slots -> [Kinds -> PageOrNull \cup {Marker}]]
  BY <1>1, <1>3, <1>5 DEF SetFirst, SlotChanged, Typed, PageOrNull
<1>10. GivesSlot(t, s, k, first, local, call, first', local', call')
  <2>1. OwnSame(call[t], local[t], call'[t], local'[t], {})
    BY <1>2, <1>7, WaitsOK DEF OwnSame
  <2>2. call'[t].list = NoPage /\ call'[t].last = NoPage
    BY <1>7 DEF Waits
  <2> QED
    BY <1>2, <1>3, <1>5, <1>7, <1>8, <1>9, <2>1, <2>2 DEF GivesSlot, PageOrNull
<1>11. PICK P2 \in Stack : Spread(next, first', local', call', P2) /\ SameFree(call, P, call', P2) /\ OthersMoved(t, P, P2)
  BY <1>4, <1>10, GiveSlot
<1>12. Moves(t, P, P2) /\ ~Draining(call'[t]) /\ call'[t].op \in {"allocate", "none"}
  <2>1. CallOK(next, call'[t], local'[t], P2[Moved(t)])
    BY <1>7, WaitsOK
  <2> QED
    BY <1>1, <1>7, <1>11, <2>1 DEF Moves, LinksKept, Waits, Draining
<1>13. Owned(t, P, P2)
  BY <1>1, <1>2, <1>7, <1>11 DEF Owned
<1>14. LocksRight(t)
  <2>1. \A r, j : ~Locks(call'[t], local'[t], r, j)
    BY <1>7, WaitsOK
  <2> QED
    BY <1>8, <1>9, <2>1 DEF LocksRight, SlotChanged
<1>15. held \subseteq held' /\ next' \in [Pages -> PageOrNull]
  BY <1>1, <1>7 DEF Hands, Typed
<1> QED
  BY <1>1, <1>7, <1>9, <1>12, <1>13, <1>14, <1>15, MovesStep

\* The stack of the victim is read.
LEMMA StealStep ==
    ASSUME Typed, NEW P \in Stack, NEW D \in PageSets, NEW O \in PageSets, Good(P, D, O), NEW t \in Threads,
           Steal(t)
    PROVE  StepOK(t, P, D)
<1> DEFINE c == call[t]
           d == [c EXCEPT !.at = "steal_cas", !.seen = Victim(t)]
<1>1. c.at = "steal" /\ UNCHANGED <<first, next, pins, m_last_assigned, given, pinned, usage>>
  BY DEF Steal, At, memory
<1>2. /\ c.op = "allocate" /\ c.prev = NoPage /\ c.count = 0 /\ c.last = NoPage /\ c.list = NoPage
      /\ c.page = NoPage /\ TakenBy(t) = NoPage /\ ~Draining(c)
  BY <1>1, MovingFacts
<1>3. TypedCalls /\ c \in Call /\ DrainOK(c, local[t])
  BY OfThread
<1>4. CASE Victim(t) \in Pages /\ Become(t, d) /\ UNCHANGED <<local, held>>
  <2>1. /\ d \in Call /\ d.op = c.op /\ d.at = "steal_cas" /\ d.list = c.list /\ d.last = c.last
        /\ d.page = c.page /\ d.prev = c.prev /\ d.count = c.count /\ d.kind = c.kind /\ d.seen \in Pages
    BY <1>3, <1>4, FieldsTyped DEF Call
  <2> HIDE DEF d
  <2>2. CallOK(next, d, local[t], P[Moved(t)])
    BY <1>2, <2>1 DEF CallOK, StageOK, StackOK, ScanOK, DrainOK, AllocateStages, Draining
  <2>3. Does(t, P) /\ call'[t] = d
    <3>1. \A k \in Kinds : Searches(d, k) <=> Searches(call[t], k)
      BY <1>1, <2>1 DEF Searches
    <3>2. \A s \in Slots, k \in Kinds : Locks(d, local[t], s, k) => Locks(call[t], local[t], s, k)
      BY <2>1 DEF Locks
    <3> QED
      BY <1>1, <1>4, <2>1, <2>2, <3>1, <3>2, InPlace
  <2>4. PinsStay(t, D)
    BY <1>1, <1>2, <1>4, <2>1, <2>3, PinsAside DEF Draining
  <2> QED
    BY <1>1, <1>3, <2>3, <2>4, RestKept DEF StepOK, PinSide, Typed
<1>5. CASE AfterSteal(t, c, local[t])
  BY <1>1, <1>2, <1>3, <1>5, AfterStealStep
<1> QED
  BY <1>4, <1>5 DEF Steal

\* It is taken, or the steal is over.
LEMMA StealCasStep ==
    ASSUME Typed, NEW P \in Stack, NEW D \in PageSets, NEW O \in PageSets, Good(P, D, O), NEW t \in Threads,
           StealCas(t)
    PROVE  StepOK(t, P, D)
<1> DEFINE c == call[t]
           e == [c EXCEPT !.seen = NoPage]
           h == c.seen
           s == local[t].victim
           d == [e EXCEPT !.at = "scan", !.stack = "stolen", !.list = h, !.curr = h]
<1>1. c.at = "steal_cas" /\ UNCHANGED <<next, pins, m_last_assigned, given, pinned, usage>>
  BY DEF StealCas, At
<1>2. /\ c.op = "allocate" /\ c.prev = NoPage /\ c.count = 0 /\ c.last = NoPage /\ c.list = NoPage
      /\ c.page = NoPage
  BY <1>1, MovingFacts
<1>3. TypedCalls /\ c \in Call /\ StackOK(next, c)
  BY OfThread
<1>4. h \in Pages /\ s \in Slots
  BY <1>1, <1>3, PlacesTyped DEF StackOK
<1>5. /\ e \in Call /\ e.op = c.op /\ e.list = c.list /\ e.last = c.last /\ e.kind = c.kind
      /\ e.page = c.page /\ e.prev = c.prev /\ e.count = c.count
  BY <1>3, FieldsTyped DEF Call
<1> HIDE DEF e
<1>6. /\ d \in Call /\ d.op = c.op /\ d.at = "scan" /\ d.stack = "stolen" /\ d.list = h /\ d.curr = h
      /\ d.last = c.last /\ d.kind = c.kind /\ d.page = c.page /\ d.prev = c.prev /\ d.count = c.count
  BY <1>4, <1>5, FieldsTyped DEF Call
<1>7. CASE Victim(t) = h /\ SetFirst(s, e.kind, NoPage) /\ Become(t, d) /\ UNCHANGED <<local, held>>
  <2> HIDE DEF d
  <2>1. first[s][c.kind] = h /\ h # Marker /\ h # NoPage
    BY <1>4, <1>7, PagesNotNull DEF Victim
  <2>2. SetFirst(s, c.kind, NoPage)
    BY <1>5, <1>7
  <2> QED
    BY <1>1, <1>2, <1>4, <1>6, <1>7, <2>1, <2>2, TakesStep
<1>8. CASE AfterSteal(t, e, local[t]) /\ first' = first
  BY <1>1, <1>2, <1>5, <1>8, AfterStealStep
<1> QED
  BY <1>7, <1>8 DEF StealCas, e

\* A page that the system gives is nobody's, and nobody has pinned it.
LEMMA SystemGives ==
    ASSUME Typed, NEW P \in Stack, NEW D \in PageSets, NEW O \in PageSets, Good(P, D, O), NEW p \in Pages,
           given[p] = 0
    PROVE  p \notin held /\ (\A x \in Places : p \notin P[x]) /\ pins[p] = 0
<1>1. p \notin held /\ \A x \in Places : p \notin P[x]
  BY DEF Good, OwnersOK
<1>2. HavePinned(pinned, p) = {}
  <2>1. \A u \in Threads : pinned[u] # p
    BY PagesNotNull DEF Good, PinsOK
  <2> QED
    BY <2>1 DEF HavePinned
<1>3. Owe(O, p) = {}
  BY <1>1 DEF Good, PendingOK, Owe
<1>4. pins[p] = Cardinality(HavePinned(pinned, p)) + Cardinality(Owe(O, p))
  BY CountsAre DEF Good
<1> QED
  BY <1>1, <1>2, <1>3, <1>4, FS_EmptySet

\* The system gives a page that was nobody's, or none.
LEMMA SystemStep ==
    ASSUME Typed, NEW P \in Stack, NEW D \in PageSets, NEW O \in PageSets, Good(P, D, O), NEW t \in Threads,
           System(t)
    PROVE  StepOK(t, P, D)
<1> DEFINE c == call[t]
           d == [c EXCEPT !.at = "steal", !.round = "loop", !.start = local[t].victim]
<1>1. c.at = "system" /\ UNCHANGED <<first, m_last_assigned, local, pinned, usage>>
  BY DEF System, At
<1>2. /\ c.op = "allocate" /\ c.prev = NoPage /\ c.count = 0 /\ c.last = NoPage /\ c.list = NoPage
      /\ c.page = NoPage /\ TakenBy(t) = NoPage
      /\ \A j : Own(c, local[t], j) = local[t].private[j]
  BY <1>1, MovingFacts
<1>3. TypedCalls /\ c \in Call /\ local[t] \in Local /\ Spread(next, first, local, call, P)
  BY OfThread
<1>4. ASSUME NEW p \in Pages, Source!Give(p), next' = [next EXCEPT ![p] = NoPage],
             pins' = [pins EXCEPT ![p] = 0], Return(t, p)
      PROVE  StepOK(t, P, D)
  <2>1. given[p] = 0 /\ given' = [given EXCEPT ![p] = @ + 1]
    BY <1>4 DEF Source!Give
  <2>2. p \notin held /\ (\A x \in Places : p \notin P[x]) /\ pins[p] = 0
    BY <2>1, SystemGives
  <2>3. pins' = pins
    BY <1>4, <2>2 DEF Typed
  <2>4. /\ \A q \in Pages \ {p} : next'[q] = next[q]
        /\ next' \in [Pages -> PageOrNull] /\ first' \in [Slots -> [Kinds -> PageOrNull \cup {Marker}]]
    BY <1>1, <1>4 DEF Typed, PageOrNull
  <2>5. ChangedBy(t) /\ call'[t] = NoCall
    BY <1>1, <1>3, <1>4, NoCallIs DEF ChangedBy, Return, Become, TypedCalls, Others
  <2>6. Spread(next', first, local, call, P) /\ LinksKept(t, next, next', P)
    <3>1. \A x \in Places : \A q \in P[x] : next'[q] = next[q]
      BY <2>2, <2>4, PlacesTyped
    <3> QED
      BY <1>3, <3>1, SpreadFrame
  <2>7. Reaches(t, next', first, call, P, P) /\ NoLocks(t) /\ TakenBy(t)' = NoPage /\ ~Draining(call'[t])
    <3>1. Others(t, local, local) /\ Others(t, call, call)
      BY DEF Others
    <3>2. \A j \in Kinds : Own(c, local[t], j) = local'[t].private[j]
      BY <1>1, <1>2
    <3> QED
      BY <1>2, <1>3, <2>5, <2>6, <3>1, <3>2, NoCallWaits, WaitsEnds
  <2>8. Moves(t, P, P)
    BY <1>1, <2>6, <2>7 DEF Moves, Reaches
  <2>9. Owned(t, P, P)
    <3>1. Found(t, p)
      BY <1>2, <1>4, <2>7 DEF Found, Hands, Return
    <3> QED
      BY <2>1, <2>3, <2>7, <3>1 DEF Owned, Reaches
  <2>10. LocksRight(t)
    BY <1>1, <2>7, NoLocksRight
  <2>11. (\A q \in held : next'[q] = next[q]) /\ held \subseteq held'
    BY <1>4, <2>2, <2>4 DEF Typed, Return
  <2>12. \A q \in Pages : given[q] > 0 => given'[q] > 0
    BY <2>1 DEF Typed
  <2>13. call'[t].op = "none"
    BY <2>5, NoCallIs
  <2> QED
    BY <1>1, <2>3, <2>4, <2>5, <2>7, <2>8, <2>9, <2>10, <2>11, <2>12, <2>13, MovesStep
<1>5. CASE Become(t, d) /\ UNCHANGED <<next, pins, given, held>>
  <2>1. d \in Call /\ Waits(d)
    <3>1. local[t].victim \in Slots
      BY PlacesTyped
    <3>2. /\ d \in Call /\ d.op = c.op /\ d.at = "steal" /\ d.list = c.list /\ d.last = c.last
          /\ d.page = c.page /\ d.prev = c.prev /\ d.count = c.count
      BY <1>3, <3>1, FieldsTyped DEF Call
    <3> QED
      BY <1>2, <3>2 DEF Waits
  <2> HIDE DEF d
  <2>2. ChangedBy(t) /\ call'[t] = d
    BY <1>1, <1>3, <1>5, <2>1 DEF ChangedBy, Become, TypedCalls, Others
  <2> QED
    BY <1>1, <1>5, <2>1, <2>2, WaitStep
<1>6. CASE Return(t, NoPage) /\ UNCHANGED <<next, pins, given>>
  <2>1. ChangedBy(t) /\ call'[t] = NoCall /\ held' = held
    BY <1>1, <1>3, <1>6, NoCallIs DEF ChangedBy, Return, Become, TypedCalls, Others
  <2> QED
    BY <1>1, <1>6, <2>1, NoCallWaits, WaitStep
<1> QED
  BY <1>4, <1>5, <1>6 DEF System

\* The last page of the stack that is pushed.
LEMMA PushFacts ==
    ASSUME Typed, NEW P \in Stack, NEW D \in PageSets, NEW O \in PageSets, Good(P, D, O), NEW t \in Threads,
           call[t].at \in {"push", "push_cas"}, NEW z,
           IF call[t].op = "free" \/ call[t].at = "push_cas" THEN z = call[t].last
           ELSE z = FindLast(call[t].list)
    PROVE  Pushes(t, z, P) /\ z \in Pages /\ z \notin held
<1> DEFINE c == call[t]
<1>1. /\ StageOK(c) /\ StackOK(next, c) /\ IsList(next, P[Moved(t)], c.list, c.last)
  BY OfThread
<1>2. /\ c.op \in {"allocate", "free", "exit"} /\ c.prev = NoPage /\ c.count = 0
      /\ c.op = "exit" => c.guarantee = "blocking" /\ local[t].pending = NoPage
  BY MovingFacts
<1>3. c.list # NoPage /\ (c.op = "free" => c.last = c.list)
  BY <1>1, <1>2 DEF StageOK, StackOK
<1>4. c.op # "allocate" => c.page = NoPage
  BY <1>1, <1>2 DEF StackOK
<1>5. z \in P[Moved(t)] /\ (c.last = z \/ (c.last = NoPage /\ next[z] = NoPage))
  <2>1. CASE c.op = "free" \/ c.at = "push_cas"
    <3>1. c.last # NoPage
      BY <1>1, <1>3, <2>1 DEF StackOK
    <3> QED
      BY <1>1, <2>1, <3>1, ListTyped
  <2>2. CASE ~(c.op = "free" \/ c.at = "push_cas")
    <3>1. c.last = NoPage
      BY <1>1, <2>2 DEF StackOK
    <3>2. IsList(next, P[Moved(t)], c.list, NoPage)
      BY <1>1, <3>1
    <3>3. Chain(c.list, NoPage) = P[Moved(t)]
      BY <3>2, ChainIs DEF Chain
    <3>4. \E y \in P[Moved(t)] : next[y] = NoPage
      BY <1>3, <3>2, ListEnds
    <3>5. z = CHOOSE y \in P[Moved(t)] : next[y] = NoPage
      BY <2>2, <3>3 DEF FindLast
    <3> QED
      BY <3>1, <3>4, <3>5
  <2> QED
    BY <2>1, <2>2
<1>6. z \in Pages /\ z \notin held
  BY <1>5, PlacesTyped, PlacesApart
<1> QED
  BY <1>1, <1>2, <1>3, <1>4, <1>5, <1>6 DEF Pushes

\* A push fails on a stack that is locked, or on its CAS.
LEMMA PushFailedStep ==
    ASSUME Typed, NEW P \in Stack, NEW D \in PageSets, NEW O \in PageSets, Good(P, D, O), NEW t \in Threads,
           call[t].at \in {"push", "push_cas"}, NEW z \in Pages, Pushes(t, z, P), z \notin held,
           PushFailed(t, call[t], z),
           UNCHANGED <<first, pins, m_last_assigned, given, pinned, usage>>
    PROVE  StepOK(t, P, D)
<1>1. TypedCalls /\ Spread(next, first, local, call, P)
  BY OfThread
<1>2. TakenBy(t) = call[t].page /\ call[t].op \in {"allocate", "free", "exit"}
  BY MovingFacts
<1>3. /\ Arrives(t, next', first, call, P, local[t], call[t].page) /\ NoLocks(t)
      /\ LinksKept(t, next, next', P) /\ next' \in [Pages -> PageOrNull]
      /\ \A r \in Pages \ {z} : next'[r] = next[r]
      /\ \/ call'[t].op \in {call[t].op, "none"}
         \/ call[t].op = "exit" /\ call'[t].op = "out"
  <2>1. next \in [Pages -> PageOrNull]
    BY DEF Typed
  <2> QED
    BY <1>1, <2>1, PushFailedEnds
<1>4. PICK P2 \in Stack : Reaches(t, next', first, call, P, P2)
  BY <1>3 DEF Arrives
<1>5. /\ ChangedBy(t) /\ ~Draining(call'[t]) /\ local'[t].pending = local[t].pending
      /\ Hands(t, call[t].page)
  BY <1>3 DEF Arrives
<1>6. Moves(t, P, P2)
  BY <1>3, <1>4 DEF Moves, Reaches
<1>7. Owned(t, P, P2)
  BY <1>2, <1>4, <1>5 DEF Owned, Reaches
<1>8. LocksRight(t)
  BY <1>3, NoLocksRight
<1>9. (\A p \in held : next'[p] = next[p]) /\ held \subseteq held'
  BY <1>3, <1>5 DEF Typed, Hands
<1>10. first' \in [Slots -> [Kinds -> PageOrNull \cup {Marker}]]
  BY DEF Typed
<1> QED
  BY <1>3, <1>5, <1>6, <1>7, <1>8, <1>9, <1>10, MovesStep

\* The last page is linked to the stack on which the CAS is to put the list.
LEMMA PushStep ==
    ASSUME Typed, NEW P \in Stack, NEW D \in PageSets, NEW O \in PageSets, Good(P, D, O), NEW t \in Threads,
           Push(t)
    PROVE  StepOK(t, P, D)
<1> DEFINE c == call[t]
           h == Current(t)
           z == IF c.op = "free" THEN c.last ELSE FindLast(c.list)
           d == [c EXCEPT !.at = "push_cas", !.last = z, !.seen = h]
<1>1. c.at = "push" /\ UNCHANGED <<first, pins, m_last_assigned, given, pinned, usage>>
  BY DEF Push, At
<1>2. Pushes(t, z, P) /\ z \in Pages /\ z \notin held
  BY <1>1, PushFacts
<1>3. TypedCalls /\ c \in Call /\ Spread(next, first, local, call, P)
  BY OfThread
<1>4. TakenBy(t) = c.page /\ c.op \in {"allocate", "free", "exit"}
  BY <1>1, MovingFacts
<1>5. \/ PushFailed(t, c, z)
      \/ /\ h # Marker /\ next' = [next EXCEPT ![z] = h] /\ Become(t, d) /\ UNCHANGED <<local, held>>
  BY DEF Push
<1> HIDE DEF z
<1>6. CASE PushFailed(t, c, z)
  BY <1>1, <1>2, <1>6, PushFailedStep
<1>7. CASE h # Marker /\ next' = [next EXCEPT ![z] = h] /\ Become(t, d) /\ UNCHANGED <<local, held>>
  <2>1. h \in PageOrNull
    BY <1>7, PlacesTyped DEF Current
  <2>2. /\ d \in Call /\ d.op = c.op /\ d.at = "push_cas" /\ d.list = c.list /\ d.last = z /\ d.seen = h
        /\ d.page = c.page /\ d.prev = c.prev /\ d.count = c.count /\ d.kind = c.kind
        /\ d.guarantee = c.guarantee
    BY <1>2, <1>3, <2>1, FieldsTyped DEF Call
  <2> HIDE DEF d
  <2>3. ChangedBy(t) /\ call'[t] = d /\ local' = local /\ Others(t, call, call') /\ Others(t, local, local')
    BY <1>3, <1>7, <2>2 DEF ChangedBy, Become, TypedCalls, Others
  <2>4. /\ next'[z] = h /\ \A r \in Pages \ {z} : next'[r] = next[r]
        /\ next' \in [Pages -> PageOrNull] /\ first' \in [Slots -> [Kinds -> PageOrNull \cup {Marker}]]
    BY <1>1, <1>2, <1>7, <2>1 DEF Typed
  <2>5. Relinks(t, z, next, local, call, next', local', call', P[Moved(t)])
    <3>1. OwnSame(call[t], local[t], call'[t], local'[t], {})
      BY <1>1, <2>2, <2>3 DEF OwnSame, Own, Searches
    <3> QED
      BY <1>2, <2>2, <2>3, <2>4, <3>1 DEF Relinks, Pushes
  <2>6. Spread(next', first, local', call', P) /\ SameFree(call, P, call', P) /\ LinksKept(t, next, next', P)
    BY <1>3, <2>5, SpreadLinked
  <2>7. CallOK(next', d, local[t], P[Moved(t)])
    <3>1. z # NoPage
      BY <1>2, PagesNotNull
    <3>2. c.op = "free" => z = c.list
      BY <1>2 DEF Pushes, z
    <3>3. StackOK(next', d)
      BY <1>2, <1>4, <2>2, <2>4, <3>1, <3>2 DEF StackOK, Pushes
    <3> QED
      BY <1>2, <1>4, <2>2, <3>3 DEF CallOK, StageOK, ScanOK, DrainOK, AllocateStages, Draining, Pushes
  <2>8. Moves(t, P, P)
    BY <1>1, <2>3, <2>6, <2>7 DEF Moves, OthersMoved
  <2>9. Owned(t, P, P)
    BY <1>1, <1>4, <1>7, <2>2, <2>3, <2>6 DEF Owned, Hands, TakenBy
  <2>10. NoLocks(t) /\ LocksRight(t) /\ ~Draining(call'[t])
    <3>1. NoLocks(t)
      BY <2>2, <2>3 DEF NoLocks, Locks
    <3> QED
      BY <1>1, <2>2, <2>3, <3>1, NoLocksRight DEF Draining
  <2>11. \A p \in held : next'[p] = next[p]
    BY <1>2, <2>4 DEF Typed
  <2> QED
    BY <1>1, <1>7, <2>2, <2>3, <2>4, <2>8, <2>9, <2>10, <2>11, MovesStep
<1> QED
  BY <1>5, <1>6, <1>7

\* The CAS puts the list on the stack of the slot.
LEMMA PushCasStep ==
    ASSUME Typed, NEW P \in Stack, NEW D \in PageSets, NEW O \in PageSets, Good(P, D, O), NEW t \in Threads,
           PushCas(t)
    PROVE  StepOK(t, P, D)
<1> DEFINE c == call[t]
           s == local[t].slot
           k == call[t].kind
           ca == [call EXCEPT ![t] = NoCall]
<1>1. c.at = "push_cas" /\ UNCHANGED <<pins, m_last_assigned, given, pinned, usage>>
  BY DEF PushCas, At
<1>2. Pushes(t, c.last, P) /\ c.last \in Pages /\ c.last \notin held
  BY <1>1, PushFacts
<1>3. /\ TypedCalls /\ c \in Call /\ local[t] \in Local /\ Spread(next, first, local, call, P)
      /\ StackOK(next, c)
  BY OfThread
<1>4. /\ TakenBy(t) = c.page /\ c.op \in {"allocate", "free", "exit"}
      /\ \A j : Own(c, local[t], j) = local[t].private[j]
  BY <1>1, MovingFacts
<1>5. CASE PushFailed(t, c, c.last) /\ first' = first
  BY <1>1, <1>2, <1>5, PushFailedStep
<1>6. CASE Current(t) = c.seen /\ SetFirst(s, k, c.list) /\ Pushed(t, c, local[t]) /\ next' = next
  <2>1. /\ s \in Slots /\ k \in Kinds /\ c.last # NoPage /\ first[s][k] = next[c.last]
        /\ first[s][k] \in PageOrNull /\ c.list \in Pages
    BY <1>1, <1>2, <1>3, <1>6, PlacesTyped DEF StackOK, Current, Typed, Pushes, Call, PageOrNull
  <2>2. /\ first'[s][k] = c.list /\ SlotChanged(first, first', s, k)
        /\ first' \in [Slots -> [Kinds -> PageOrNull \cup {Marker}]]
    BY <1>6, <2>1 DEF SetFirst, SlotChanged, Typed, PageOrNull
  <2>3. ca[t] = NoCall /\ Others(t, call, ca) /\ Others(t, local, local)
    BY <1>3 DEF TypedCalls, Others
  <2> HIDE DEF ca
  <2>4. JoinsSlot(t, s, k, next, first, local, call, first', local, ca)
    <3>1. OwnSame(call[t], local[t], ca[t], local[t], {})
      BY <1>4, <2>3, NoCallWaits, WaitsOK DEF OwnSame
    <3> QED
      BY <2>1, <2>2, <2>3, <3>1, NoCallIs DEF JoinsSlot, PageOrNull
  <2>5. PICK P1 \in Stack : Spread(next, first', local, ca, P1) /\ SameFree(call, P, ca, P1) /\ OthersMoved(t, P, P1)
    BY <1>3, <2>4, JoinSlot
  <2>6. /\ Arrives(t, next, first', ca, P1, local[t], c.page) /\ NoLocks(t)
        /\ call'[t].op \in {"allocate", "none"} \/ (c.op = "exit" /\ call'[t].op \in {"exit", "out"})
    <3>1. \A j \in Kinds : Own(ca[t], local[t], j) = local[t].private[j]
      BY <2>3, NoCallWaits, WaitsOK
    <3>2. /\ c.count = 0 /\ c.prev = NoPage /\ (c.op # "allocate" => c.page = NoPage)
          /\ c.op = "exit" => c.guarantee = "blocking" /\ local[t].pending = NoPage
      BY <1>2 DEF Pushes
    <3> QED
      BY <1>3, <1>6, <2>3, <2>5, <3>1, <3>2, NoCallIs, PushedEnds
  <2>7. PICK P2 \in Stack : Reaches(t, next, first', ca, P1, P2)
    BY <2>6 DEF Arrives
  <2>8. /\ ChangedBy(t) /\ ~Draining(call'[t]) /\ local'[t].pending = local[t].pending
        /\ Hands(t, c.page)
    BY <2>6 DEF Arrives
  <2>9. Moves(t, P, P2)
    <3>1. OthersMoved(t, P, P2)
      BY <2>5, <2>7, OthersMovedTrans DEF Reaches
    <3> QED
      BY <1>6, <2>7, <3>1 DEF Moves, Reaches, LinksKept
  <2>10. Owned(t, P, P2)
    <3>1. SameFree(call, P, call', P2)
      BY <2>5, <2>7, SameFreeTrans DEF Reaches
    <3> QED
      BY <1>1, <1>4, <2>8, <3>1 DEF Owned
  <2>11. LocksRight(t)
    <3>1. \A u \in Threads : ~Locks(call[u], local[u], s, k)
      BY <2>1, PagesNotNull DEF Good, LocksOK, PageOrNull
    <3> QED
      BY <2>2, <2>6, <3>1 DEF LocksRight, NoLocks, SlotChanged
  <2>12. held \subseteq held' /\ next' \in [Pages -> PageOrNull]
    BY <1>6, <2>8 DEF Hands, Typed
  <2> QED
    BY <1>1, <1>4, <1>6, <2>2, <2>6, <2>8, <2>9, <2>10, <2>11, <2>12, MovesStep
<1> QED
  BY <1>5, <1>6 DEF PushCas

\* Whatever a step does to pins, the counts stay exact.
LEMMA PinSideKept ==
    ASSUME Typed, NEW t \in Threads, NEW D \in PageSets, NEW O \in PageSets, ChangedBy(t),
           PinsGood(D, O), PinSide(t, D)
    PROVE  \E D2 \in PageSets, O2 \in PageSets : PinsGood(D2, O2)'
BY StayKept, DrainedKept, UnpinKept, ChangeKept, LaterKept DEF PinSide

\* Each step of a thread.
LEMMA ThreadStep ==
    ASSUME Typed, NEW P \in Stack, NEW D \in PageSets, NEW O \in PageSets, Good(P, D, O), NEW t \in Threads,
           \/ try_allocate_page(t) \/ deallocate_page(t) \/ pin_page(t) \/ unpin_page(t)
           \/ try_reserve_lockfree_memory(t)
           \/ EndThread(t) \/ AssignSlot(t) \/ StoreLastAssigned(t)
           \/ DrainAll(t) \/ DrainLoad(t) \/ DrainCas(t) \/ DrainNext(t)
           \/ FetchAdd(t) \/ LoadPins(t) \/ PinsCas(t)
           \/ ScanPinned(t) \/ ScanUnpinned(t)
           \/ Exchange(t) \/ Restore(t) \/ Steal(t) \/ StealCas(t) \/ System(t)
           \/ Push(t) \/ PushCas(t)
    PROVE  StepOK(t, P, D)
BY AllocateStep, FreeStep, PinStep, UnpinStep, ReserveStep, EndThreadStep, AssignSlotStep, StoreStep,
   DrainAllStep, DrainLoadStep, DrainCasStep, DrainNextStep, FetchAddStep, LoadPinsStep, PinsCasStep,
   ScanPinnedStep, ScanUnpinnedStep, ExchangeStep, RestoreStep, StealStep, StealCasStep, SystemStep,
   PushStep, PushCasStep

\* A step keeps the types, and for some sets of pages all the rest.
LEMMA StepKept ==
    ASSUME Typed, NEW P \in Stack, NEW D \in PageSets, NEW O \in PageSets, Good(P, D, O), NEW t \in Threads,
           StepOK(t, P, D)
    PROVE  Typed' /\ \E P2 \in Stack, D2 \in PageSets, O2 \in PageSets :
                        Good(P2, D2, O2)' /\ Moves(t, P, P2) /\ Owned(t, P, P2)
<1>1. ChangedBy(t) /\ LocksRight(t) /\ PinSide(t, D) /\ RestTyped
  BY DEF StepOK, Does
<1>2. PICK P2 \in Stack : Moves(t, P, P2) /\ Owned(t, P, P2)
  BY DEF StepOK, Does
<1>3. PICK D2 \in PageSets, O2 \in PageSets : PinsGood(D2, O2)'
  BY <1>1, OfThread, PinSideKept
<1>4. ListsOK(P2)'
  BY <1>2 DEF ListsOK, Moves, Spread
<1>5. OwnersOK(P2)'
  BY <1>1, <1>2, OwnersKept DEF Good
<1>6. CallsOK(P2)'
  BY <1>1, <1>2, CallsKept DEF Good
<1>7. LocksOK'
  BY <1>1, LocksKept DEF Good
<1>8. Good(P2, D2, O2)'
  BY <1>3, <1>4, <1>5, <1>6, <1>7 DEF Good, PinsGood
<1>9. Typed'
  <2>1. pins' \in [Pages -> Nat]
    <3>1. \A p \in Pages : pins'[p] \in Nat
      BY <1>3, CountsAre, CountsNat DEF PinsGood
    <3> QED
      BY <1>1, <3>1 DEF RestTyped
  <2>2. given' \in [Pages -> Nat]
    BY <1>2 DEF Owned, Typed
  <2>3. held' \subseteq Pages
    <3>1. TakenBy(t) \in PageOrNull
      BY OfThread DEF TakenBy, Call, PageOrNull
    <3> QED
      BY <1>2, <3>1 DEF Owned, Found, Hands, Typed, PageOrNull
  <2> QED
    BY <1>1, <2>1, <2>2, <2>3 DEF Typed, RestTyped, ChangedBy
<1> QED
  BY <1>2, <1>8, <1>9

---------------------------------------------------------------------------
(* The sets of the invariant are the ones of the lists. *)

\* The pages of each stack are those of the chain of the model.
LEMMA StacksAre ==
    ASSUME NEW nx, NEW H, NEW L, NEW P, P = [x \in Places |-> P[x]], AreStacks(nx, H, L, P)
    PROVE  P = [x \in Places |-> ChainOf(nx, H[x], L[x])]
<1>1. \A x \in Places : P[x] = ChainOf(nx, H[x], L[x])
  BY ChainIs DEF AreStacks
<1> QED
  BY <1>1

\* So are those of the lists of the threads.
LEMMA SetsAre ==
    ASSUME NEW nx, NEW h, NEW D, D = [t \in Threads |-> D[t]],
           \A t \in Threads : IsList(nx, D[t], h[t], NoPage)
    PROVE  D = [t \in Threads |-> ChainOf(nx, h[t], NoPage)]
<1>1. \A t \in Threads : D[t] = ChainOf(nx, h[t], NoPage)
  BY ChainIs
<1> QED
  BY <1>1

\* What a thread owes begins where it stands in its list.
LEMMA OwedAre ==
    ASSUME NEW t
    PROVE  Owed(t) = ChainOf(next, OwedFrom(t), NoPage) /\ Owed(t)' = ChainOf(next', OwedFrom(t)', NoPage)
BY DEF Owed, OwedFrom, Chain, At

\* So the sets that exist are the ones the invariant names.
LEMMA NamesAre ==
    ASSUME NEW P \in Stack, NEW D \in PageSets, NEW O \in PageSets
    PROVE  /\ Good(P, D, O) => P = Stacks /\ D = PendingPages /\ O = OwedPages
           /\ Good(P, D, O)' => P = Stacks' /\ D = PendingPages' /\ O = OwedPages'
<1>1. /\ P = [x \in Places |-> P[x]] /\ D = [t \in Threads |-> D[t]] /\ O = [t \in Threads |-> O[t]]
  BY DEF Stack, PageSets
<1>2. ASSUME Good(P, D, O) PROVE P = Stacks /\ D = PendingPages /\ O = OwedPages
  <2> DEFINE h == [t \in Threads |-> local[t].pending]
             g == [t \in Threads |-> OwedFrom(t)]
  <2>1. P = Stacks
    <3>1. AreStacks(next, HeadsOf(first, local, call), LastsOf(call), P)
      BY <1>2 DEF Good, ListsOK
    <3>2. P = [x \in Places |-> ChainOf(next, HeadsOf(first, local, call)[x], LastsOf(call)[x])]
      BY <1>1, <3>1, StacksAre
    <3> QED
      BY <3>2 DEF Stacks, Chain
  <2>2. D = [t \in Threads |-> ChainOf(next, h[t], NoPage)]
    <3>1. \A t \in Threads : IsList(next, D[t], h[t], NoPage)
      BY <1>2 DEF Good, PendingOK
    <3> HIDE DEF h
    <3> QED
      BY <1>1, <3>1, SetsAre
  <2>3. O = [t \in Threads |-> ChainOf(next, g[t], NoPage)]
    <3>1. \A t \in Threads : IsList(next, O[t], g[t], NoPage)
      BY <1>2 DEF Good, PendingOK
    <3> HIDE DEF g
    <3> QED
      BY <1>1, <3>1, SetsAre
  <2>4. D = PendingPages
    BY <2>2 DEF PendingPages, Chain
  <2>5. O = OwedPages
    BY <2>3, OwedAre DEF OwedPages
  <2> QED
    BY <2>1, <2>4, <2>5
<1>3. ASSUME Good(P, D, O)' PROVE P = Stacks' /\ D = PendingPages' /\ O = OwedPages'
  <2> DEFINE h == [t \in Threads |-> local'[t].pending]
             g == [t \in Threads |-> OwedFrom(t)']
  <2>1. P = Stacks'
    <3>1. AreStacks(next', HeadsOf(first', local', call'), LastsOf(call'), P)
      BY <1>3 DEF Good, ListsOK
    <3>2. P = [x \in Places |-> ChainOf(next', HeadsOf(first', local', call')[x], LastsOf(call')[x])]
      BY <1>1, <3>1, StacksAre
    <3> QED
      BY <3>2 DEF Stacks, Chain
  <2>2. D = [t \in Threads |-> ChainOf(next', h[t], NoPage)]
    <3>1. \A t \in Threads : IsList(next', D[t], h[t], NoPage)
      BY <1>3 DEF Good, PendingOK
    <3> HIDE DEF h
    <3> QED
      BY <1>1, <3>1, SetsAre
  <2>3. O = [t \in Threads |-> ChainOf(next', g[t], NoPage)]
    <3>1. \A t \in Threads : IsList(next', O[t], g[t], NoPage)
      BY <1>3 DEF Good, PendingOK
    <3> HIDE DEF g
    <3> QED
      BY <1>1, <3>1, SetsAre
  <2>4. D = PendingPages'
    BY <2>2 DEF PendingPages, Chain
  <2>5. O = OwedPages'
    BY <2>3, OwedAre DEF OwedPages
  <2> QED
    BY <2>1, <2>4, <2>5
<1> QED
  BY <1>2, <1>3

\* The invariant gives sets of pages.
LEMMA NamesTyped ==
    ASSUME IInv
    PROVE  Stacks \in Stack /\ PendingPages \in PageSets /\ OwedPages \in PageSets
<1>1. \A x \in Places : Stacks[x] \in SUBSET Pages
  BY ListTyped DEF IInv, Good, ListsOK, AreStacks
<1>2. \A t \in Threads : PendingPages[t] \in SUBSET Pages /\ OwedPages[t] \in SUBSET Pages
  BY ListTyped DEF IInv, Good, PendingOK
<1> QED
  BY <1>1, <1>2 DEF Stack, PageSets, Stacks, PendingPages, OwedPages

\* At the start all lists are empty.
LEMMA InitGood ==
    ASSUME Init, usage # "any"
    PROVE  IInv
<1> DEFINE P == [x \in Places |-> {}]
           D == [t \in Threads |-> {}]
           c0 == [NoCall EXCEPT !.op = "out"]
<1>1. /\ c0 \in Call /\ c0.op = "out" /\ c0.at = "idle" /\ c0.list = NoPage /\ c0.last = NoPage
      /\ c0.page = NoPage /\ c0.prev = NoPage /\ c0.count = 0
  BY NoCallTyped, NoCallIs DEF Call, Ops
<1>2. /\ first = [s \in Slots |-> [k \in Kinds |-> NoPage]] /\ next = [p \in Pages |-> NoPage]
      /\ pins = [p \in Pages |-> 0] /\ m_last_assigned = 0 /\ local = [t \in Threads |-> NewLocal]
      /\ call = [t \in Threads |-> c0] /\ given = [p \in Pages |-> 0]
      /\ held = {} /\ pinned = [t \in Threads |-> NoPage] /\ usage \in Usages
  BY DEF Init, Source!Init
<1> HIDE DEF c0
<1>3. NewLocal \in Local /\ NewLocal.private = [k \in Kinds |-> NoPage] /\ NewLocal.pending = NoPage
  BY NoCallTyped DEF NewLocal
<1>4. \A t \in Threads : call[t] = c0 /\ local[t] = NewLocal /\ pinned[t] = NoPage
  BY <1>2
<1>5. Typed
  <2>1. usage \in {"early_free", "exclusive"}
    BY <1>2, AllocatorAssumption
  <2>2. 0 \in Slots
    BY SlotsTyped
  <2> QED
    BY <1>1, <1>2, <1>3, <2>1, <2>2 DEF Typed, PageOrNull
<1>6. ListsOK(P)
  <2>1. PlacesHave(first, local, call)
    BY HeadsAre
  <2>2. \A s \in Slots, k \in Kinds : SlotHead(first, s, k) = NoPage
    BY <1>2 DEF SlotHead
  <2>3. \A t \in Threads, k \in Kinds : Own(call[t], local[t], k) = NoPage
    BY <1>3, <1>4 DEF Own
  <2>4. \A x \in Places : HeadsOf(first, local, call)[x] = NoPage /\ LastsOf(call)[x] = NoPage
    BY <1>1, <1>4, <2>1, <2>2, <2>3, PlacesAre DEF PlacesHave
  <2> QED
    BY <2>4, NoList DEF ListsOK, AreStacks
<1>7. \A t \in Threads : TakenBy(t) = NoPage /\ OwedFrom(t) = NoPage /\ ~Draining(call[t]) /\ ~Pins(t)
  BY <1>1, <1>3, <1>4 DEF TakenBy, OwedFrom, Draining, Pins, At
<1>8. OwnersOK(P)
  BY <1>2, <1>7 DEF OwnersOK
<1>9. CallsOK(P)
  <2>1. StageOK(c0) /\ StackOK(next, c0) /\ \A S : ScanOK(next, c0, NewLocal, S)
    BY <1>1 DEF StageOK, StackOK, ScanOK, AllocateStages
  <2>2. DrainOK(c0, NewLocal)
    BY <1>1, <1>3 DEF DrainOK
  <2> QED
    BY <1>4, <2>1, <2>2 DEF CallsOK, CallOK
<1>10. LocksOK
  BY <1>1, <1>4 DEF LocksOK, Locks
<1>11. PendingOK(D, D) /\ DisjointPending(D)
  BY <1>3, <1>4, <1>7, NoList DEF PendingOK, DisjointPending
<1>12. PinsOK
  BY <1>1, <1>4, <1>7 DEF PinsOK
<1>13. ExclusiveOK(D)
  BY <1>4, <1>7 DEF ExclusiveOK, Uses
<1>14. CountsOK(D)
  <2>1. \A p \in Pages : HavePinned(pinned, p) = {} /\ Owe(D, p) = {} /\ pins[p] = 0
    BY <1>2, PagesNotNull DEF HavePinned, Owe
  <2> QED
    BY <2>1, CountsAre, FS_EmptySet
<1>15. Good(P, D, D)
  BY <1>6, <1>8, <1>9, <1>10, <1>11, <1>12, <1>13, <1>14 DEF Good
<1>16. P \in Stack /\ D \in PageSets
  BY DEF Stack, PageSets
<1> HIDE DEF P, D
<1>17. P = Stacks /\ D = PendingPages /\ D = OwedPages
  BY <1>15, <1>16, NamesAre
<1> QED
  BY <1>5, <1>15, <1>17 DEF IInv

\* A step that changes nothing.
LEMMA StutterKept ==
    ASSUME IInv, UNCHANGED vars
    PROVE  IInv'
<1>1. UNCHANGED <<first, next, pins, m_last_assigned, local, call, given, held, pinned, usage>>
  BY DEF vars
<1>2. Typed'
  BY <1>1 DEF IInv, Typed
<1>3. \A t \in Threads : /\ TakenBy(t)' = TakenBy(t) /\ OwedFrom(t)' = OwedFrom(t) /\ Pins(t)' = Pins(t)
                         /\ \A p : Uses(t, p)' = Uses(t, p)
  BY <1>1 DEF TakenBy, OwedFrom, Pins, Uses, At
<1>4. Stacks' = Stacks /\ PendingPages' = PendingPages /\ OwedPages' = OwedPages
  BY <1>1 DEF Stacks, PendingPages, OwedPages, Owed, Chain, At
<1>5. ASSUME NEW P, NEW D, NEW O, Good(P, D, O) PROVE Good(P, D, O)'
  <2>1. ListsOK(P)'
    BY <1>1, <1>5 DEF Good, ListsOK
  <2>2. OwnersOK(P)'
    BY <1>1, <1>3, <1>5 DEF Good, OwnersOK
  <2>3. CallsOK(P)' /\ LocksOK'
    BY <1>1, <1>5 DEF Good, CallsOK, LocksOK
  <2>4. PendingOK(D, O)' /\ DisjointPending(D)'
    BY <1>1, <1>3, <1>5 DEF Good, PendingOK, DisjointPending
  <2>5. PinsOK'
    BY <1>1, <1>3, <1>5 DEF Good, PinsOK, MayUnpin
  <2>6. ExclusiveOK(D)' /\ CountsOK(O)'
    BY <1>1, <1>3, <1>5 DEF Good, ExclusiveOK, CountsOK
  <2> QED
    BY <2>1, <2>2, <2>3, <2>4, <2>5, <2>6 DEF Good
<1>6. Good(Stacks, PendingPages, OwedPages)
  BY DEF IInv
<1>7. PICK P, D, O : P = Stacks /\ D = PendingPages /\ O = OwedPages
  OBVIOUS
<1>8. Good(P, D, O)'
  BY <1>5, <1>6, <1>7
<1> QED
  BY <1>2, <1>4, <1>7, <1>8 DEF IInv

\* The invariant is inductive, and a step is one of a thread.
LEMMA StepTaken ==
    ASSUME IInv, Next
    PROVE  /\ IInv'
           /\ \E t \in Threads : StepOK(t, Stacks, PendingPages)
                                 /\ Moves(t, Stacks, Stacks') /\ Owned(t, Stacks, Stacks')
<1>1. PICK P \in Stack, D \in PageSets, O \in PageSets : P = Stacks /\ D = PendingPages /\ O = OwedPages
  BY NamesTyped
<1>2. Typed /\ Good(P, D, O)
  BY <1>1 DEF IInv
<1>3. PICK t \in Threads : StepOK(t, P, D)
  BY <1>2, ThreadStep DEF Next
<1>4. Typed' /\ \E P2 \in Stack, D2 \in PageSets, O2 \in PageSets :
                   Good(P2, D2, O2)' /\ Moves(t, P, P2) /\ Owned(t, P, P2)
  BY <1>2, <1>3, StepKept
<1>5. PICK P2 \in Stack, D2 \in PageSets, O2 \in PageSets :
         Good(P2, D2, O2)' /\ Moves(t, P, P2) /\ Owned(t, P, P2)
  BY <1>4
<1>6. P2 = Stacks' /\ D2 = PendingPages' /\ O2 = OwedPages'
  BY <1>5, NamesAre
<1>7. IInv'
  BY <1>4, <1>5, <1>6 DEF IInv
<1> QED
  BY <1>1, <1>3, <1>5, <1>6, <1>7

\* The invariant holds in every program whose clients never unpin wait-free (no
\* queue does), or pin a page one at a time: see MayFree, MayPin and MayUnpin.
THEOREM AllocatorInvariant == Spec /\ usage # "any" => []IInv
<1>1. Init /\ usage # "any" => IInv
  BY InitGood
<1>2. IInv /\ [Next]_vars => IInv'
  BY StutterKept, StepTaken
<1> QED
  BY <1>1, <1>2, PTL DEF Spec

\* The fields of the allocator keep their types: a stack of a slot is a page, the
\* null pointer or lock_marker, and no pin count goes below zero.
THEOREM TypeCorrect == Spec /\ usage # "any" => []TypeOK
<1>1. IInv => TypeOK
  BY DEF IInv, Typed, Local, TypeOK
<1> QED
  BY <1>1, AllocatorInvariant, PTL

\* m_pin_count is exact: the pin count of a page is the number of threads that
\* have it pinned or have left an unpin for later (process_pending_unpins), so no
\* unpin is lost or made twice by a wait-free call.
THEOREM PinCounts == Spec /\ usage # "any" => []PinsExact
<1>1. ASSUME IInv PROVE PinsExact
  <2>1. CountsOK(OwedPages)
    BY <1>1 DEF IInv, Good
  <2>2. \A p \in Pages : {t \in Threads : p \in OwedPages[t]} = {t \in Threads : p \in Owed(t)}
    BY DEF OwedPages
  <2> QED
    BY <2>1, <2>2 DEF CountsOK, PinsExact
<1> QED
  BY <1>1, AllocatorInvariant, PTL

---------------------------------------------------------------------------
(* The free pages are those of the stacks. *)

\* A private stack that is searched is still the one its thread knows.
KnowsPrivate(lo, ca) ==
    \A t \in Threads, k \in Kinds : Searches(ca[t], k) =>
        ca[t].list = lo[t].private[k] /\ ca[t].last = NoPage
FreeChains(nx, fi, lo, ca, k) ==
    LET slots == {s \in Slots : fi[s][k] \in Pages}
        keepers == {t \in Threads : lo[t].private[k] # NoPage}
        movers == {t \in Threads : ca[t].list # NoPage /\ ca[t].kind = k}
    IN  UNION ({ChainOf(nx, fi[s][k], NoPage) : s \in slots}
               \cup {ChainOf(nx, lo[t].private[k], NoPage) : t \in keepers}
               \cup {ChainOf(nx, ca[t].list, ca[t].last) : t \in movers})

\* The free pages of a kind are those in the stacks of that kind; the private
\* stack that is searched is counted with its thread, and once.
LEMMA FreeChainsAre ==
    ASSUME NEW nx, NEW fi, NEW lo, NEW ca, NEW P \in Stack, Spread(nx, fi, lo, ca, P),
           KnowsPrivate(lo, ca), NEW k \in Kinds, \A s \in Slots : fi[s][k] \in PageOrNull \cup {Marker}
    PROVE  \A p : p \in FreeChains(nx, fi, lo, ca, k) <=> Within(p, KindsOf(ca), P, k)
<1>1. PlacesHave(fi, lo, ca)
  BY HeadsAre
<1>2. \A s \in Slots : /\ IsList(nx, P[InSlot(s, k)], SlotHead(fi, s, k), NoPage)
                       /\ KindsOf(ca)[InSlot(s, k)] = k
  BY <1>1, PlacesApart DEF Spread, AreStacks, PlacesHave
<1>3. \A t \in Threads : /\ IsList(nx, P[Private(t, k)], Own(ca[t], lo[t], k), NoPage)
                         /\ KindsOf(ca)[Private(t, k)] = k
  BY <1>1, PlacesApart DEF Spread, AreStacks, PlacesHave
<1>4. \A t \in Threads : IsList(nx, P[Moved(t)], ca[t].list, ca[t].last) /\ KindsOf(ca)[Moved(t)] = ca[t].kind
  BY <1>1, PlacesApart DEF Spread, AreStacks, PlacesHave
<1>5. \A s \in Slots : IF fi[s][k] \in Pages THEN ChainOf(nx, fi[s][k], NoPage) = P[InSlot(s, k)]
                       ELSE P[InSlot(s, k)] = {}
  <2> TAKE s \in Slots
  <2>1. CASE fi[s][k] \in Pages
    <3>1. SlotHead(fi, s, k) = fi[s][k]
      BY <2>1, PagesNotNull DEF SlotHead
    <3> QED
      BY <1>2, <2>1, <3>1, ChainIs
  <2>2. CASE fi[s][k] \notin Pages
    <3>1. SlotHead(fi, s, k) = NoPage
      BY <2>2 DEF SlotHead, PageOrNull
    <3> QED
      BY <1>2, <2>2, <3>1 DEF IsList
  <2> QED
    BY <2>1, <2>2
<1>6. \A t \in Threads : IF ca[t].list # NoPage THEN ChainOf(nx, ca[t].list, ca[t].last) = P[Moved(t)]
                         ELSE P[Moved(t)] = {}
  BY <1>4, ChainIs DEF IsList
<1>7. \A t \in Threads :
         IF Searches(ca[t], k)
         THEN /\ P[Private(t, k)] = {} /\ ca[t].kind = k
              /\ lo[t].private[k] # NoPage => ChainOf(nx, lo[t].private[k], NoPage) = P[Moved(t)]
         ELSE IF lo[t].private[k] # NoPage THEN ChainOf(nx, lo[t].private[k], NoPage) = P[Private(t, k)]
         ELSE P[Private(t, k)] = {}
  <2> TAKE t \in Threads
  <2>1. CASE Searches(ca[t], k)
    <3>1. P[Private(t, k)] = {}
      BY <1>3, <2>1 DEF Own, IsList
    <3>2. ca[t].list = lo[t].private[k] /\ ca[t].last = NoPage /\ ca[t].kind = k
      BY <2>1 DEF KnowsPrivate, Searches
    <3> QED
      BY <1>6, <2>1, <3>1, <3>2
  <2>2. CASE ~Searches(ca[t], k)
    <3>1. IsList(nx, P[Private(t, k)], lo[t].private[k], NoPage)
      BY <1>3, <2>2 DEF Own
    <3>2. lo[t].private[k] = NoPage => P[Private(t, k)] = {}
      BY <3>1 DEF IsList
    <3>3. ChainOf(nx, lo[t].private[k], NoPage) = P[Private(t, k)]
      BY <3>1, ChainIs
    <3> QED
      BY <2>2, <3>2, <3>3
  <2> QED
    BY <2>1, <2>2
<1>8. ASSUME NEW p, Within(p, KindsOf(ca), P, k) PROVE p \in FreeChains(nx, fi, lo, ca, k)
  <2>1. PICK x \in Places : KindsOf(ca)[x] = k /\ p \in P[x]
    BY <1>8 DEF Within
  <2>2. CASE \E s \in Slots, j \in Kinds : x = InSlot(s, j)
    <3>1. PICK s \in Slots, j \in Kinds : x = InSlot(s, j)
      BY <2>2
    <3>2. j = k
      BY <1>1, <2>1, <3>1 DEF PlacesHave
    <3>3. fi[s][k] \in Pages /\ p \in ChainOf(nx, fi[s][k], NoPage)
      BY <1>5, <2>1, <3>1, <3>2
    <3> QED
      BY <3>3 DEF FreeChains
  <2>3. CASE \E t \in Threads, j \in Kinds : x = Private(t, j)
    <3>1. PICK t \in Threads, j \in Kinds : x = Private(t, j)
      BY <2>3
    <3>2. j = k
      BY <1>1, <2>1, <3>1 DEF PlacesHave
    <3>3. lo[t].private[k] # NoPage /\ p \in ChainOf(nx, lo[t].private[k], NoPage)
      BY <1>7, <2>1, <3>1, <3>2
    <3> QED
      BY <3>3 DEF FreeChains
  <2>4. CASE \E t \in Threads : x = Moved(t)
    <3>1. PICK t \in Threads : x = Moved(t)
      BY <2>4
    <3>2. ca[t].list # NoPage /\ ca[t].kind = k /\ p \in ChainOf(nx, ca[t].list, ca[t].last)
      BY <1>4, <1>6, <2>1, <3>1
    <3> QED
      BY <3>2 DEF FreeChains
  <2> QED
    BY <2>2, <2>3, <2>4, PlacesAre
<1>9. ASSUME NEW p, p \in FreeChains(nx, fi, lo, ca, k) PROVE Within(p, KindsOf(ca), P, k)
  <2>1. \/ \E s \in Slots : fi[s][k] \in Pages /\ p \in ChainOf(nx, fi[s][k], NoPage)
        \/ \E t \in Threads : lo[t].private[k] # NoPage /\ p \in ChainOf(nx, lo[t].private[k], NoPage)
        \/ \E t \in Threads : ca[t].list # NoPage /\ ca[t].kind = k /\ p \in ChainOf(nx, ca[t].list, ca[t].last)
    BY <1>9 DEF FreeChains
  <2>2. \/ \E s \in Slots : p \in P[InSlot(s, k)]
        \/ \E t \in Threads : p \in P[Private(t, k)]
        \/ \E t \in Threads : ca[t].kind = k /\ p \in P[Moved(t)]
    BY <1>5, <1>6, <1>7, <2>1
  <2> QED
    BY <1>2, <1>3, <1>4, <2>2, PlacesApart DEF Within
<1> QED
  BY <1>8, <1>9

\* The free pages of the pool are those in the stacks of the invariant.
LEMMA FreeIs ==
    ASSUME NEW k \in Kinds
    PROVE  /\ IInv => \A p : p \in FreePages(k) <=> Within(p, KindsOf(call), Stacks, k)
           /\ IInv' => \A p : p \in FreePages(k)' <=> Within(p, KindsOf(call'), Stacks', k)
<1>1. ASSUME IInv PROVE \A p : p \in FreePages(k) <=> Within(p, KindsOf(call), Stacks, k)
  <2>1. FreePages(k) = FreeChains(next, first, local, call, k)
    BY DEF FreePages, FreeChains, Chain
  <2>2. PICK P \in Stack : P = Stacks
    BY <1>1, NamesTyped
  <2>3. Spread(next, first, local, call, P) /\ CallsOK(P)
    BY <1>1, <2>2 DEF IInv, Good, ListsOK, Spread
  <2>4. KnowsPrivate(local, call)
    BY <2>3 DEF CallsOK, CallOK, ScanOK, StackOK, KnowsPrivate, Searches, StageOK, AllocateStages
  <2>5. \A s \in Slots : first[s][k] \in PageOrNull \cup {Marker}
    BY <1>1 DEF IInv, Typed
  <2> QED
    BY <2>1, <2>2, <2>3, <2>4, <2>5, FreeChainsAre
<1>2. ASSUME IInv' PROVE \A p : p \in FreePages(k)' <=> Within(p, KindsOf(call'), Stacks', k)
  <2>1. FreePages(k)' = FreeChains(next', first', local', call', k)
    BY DEF FreePages, FreeChains, Chain
  <2>2. PICK P \in Stack : P = Stacks'
    <3>1. \A x \in Places : Stacks'[x] \in SUBSET Pages
      BY <1>2, ListTyped DEF IInv, Good, ListsOK, AreStacks
    <3> QED
      BY <3>1 DEF Stack, Stacks
  <2>3. Spread(next', first', local', call', P) /\ CallsOK(P)'
    BY <1>2, <2>2 DEF IInv, Good, ListsOK, Spread
  <2>4. KnowsPrivate(local', call')
    BY <2>3 DEF CallsOK, CallOK, ScanOK, StackOK, KnowsPrivate, Searches, StageOK, AllocateStages
  <2>5. \A s \in Slots : first'[s][k] \in PageOrNull \cup {Marker}
    BY <1>2 DEF IInv, Typed
  <2> QED
    BY <2>1, <2>2, <2>3, <2>4, <2>5, FreeChainsAre
<1> QED
  BY <1>1, <1>2

---------------------------------------------------------------------------
(* The pool of pages that the allocator implements. *)

Fresh == {p \in Pages : given[p] = 0}
Free == [k \in Kinds |-> FreePages(k)]
InUse == held \cup Taken

\* The pages that allocations have found.
LEMMA TakenIs ==
    /\ \A p : p \in Taken <=> p # NoPage /\ \E t \in Threads : TakenBy(t) = p
    /\ \A p : p \in Taken' <=> p # NoPage /\ \E t \in Threads : TakenBy(t)' = p
BY DEF Taken, TakenBy

\* The pages in use change by what the step of one thread takes or gives.
LEMMA InUseKept ==
    ASSUME NEW t \in Threads, ChangedBy(t), Hands(t, TakenBy(t))
    PROVE  InUse' = InUse
<1>1. \A u \in Threads \ {t} : TakenBy(u)' = TakenBy(u)
  BY DEF ChangedBy, Others, TakenBy
<1>2. \A p : p \in InUse' <=> p \in InUse
  BY <1>1, TakenIs DEF Hands, InUse
<1> QED
  BY <1>2

\* A page that is found gets in use.
LEMMA InUseMore ==
    ASSUME NEW t \in Threads, ChangedBy(t), NEW q, Found(t, q)
    PROVE  InUse' = InUse \cup {q}
<1>1. \A u \in Threads \ {t} : TakenBy(u)' = TakenBy(u)
  BY DEF ChangedBy, Others, TakenBy
<1>2. TakenBy(t) = NoPage /\ Hands(t, q) /\ q # NoPage
  BY PagesNotNull DEF Found
<1>3. \A p : p \in InUse' <=> p \in InUse \/ p = q
  BY <1>1, <1>2, TakenIs DEF Hands, InUse
<1> QED
  BY <1>3

\* A page that is given back is not in use any more.
LEMMA InUseLess ==
    ASSUME IInv, NEW t \in Threads, ChangedBy(t), NEW q \in held, TakenBy(t) = NoPage, TakenBy(t)' = NoPage,
           held' = held \ {q}
    PROVE  InUse' = InUse \ {q}
<1>1. \A u \in Threads \ {t} : TakenBy(u)' = TakenBy(u)
  BY DEF ChangedBy, Others, TakenBy
<1>2. \A u \in Threads : TakenBy(u) # NoPage => TakenBy(u) # q
  BY DEF IInv, Good, OwnersOK
<1>3. \A p : p \in InUse' <=> p \in InUse /\ p # q
  BY <1>1, <1>2, TakenIs DEF InUse
<1> QED
  BY <1>3

\* A page that is free, or fresh, is not in use.
LEMMA NotInUse ==
    ASSUME IInv, NEW q, given[q] = 0 \/ \E k \in Kinds : Within(q, KindsOf(call), Stacks, k)
    PROVE  q \notin InUse
<1>1. \A p \in held : given[p] > 0 /\ \A x \in Places : p \notin Stacks[x]
  BY DEF IInv, Good, OwnersOK
<1>2. \A t \in Threads : TakenBy(t) # NoPage =>
         given[TakenBy(t)] > 0 /\ \A x \in Places : TakenBy(t) \notin Stacks[x]
  BY DEF IInv, Good, OwnersOK
<1> QED
  BY <1>1, <1>2, TakenIs DEF InUse, Within

\* The pool has the same free pages as before,
LEMMA SameFreePages ==
    ASSUME IInv, IInv', SameFree(call, Stacks, call', Stacks')
    PROVE  Free' = Free
<1>1. \A k \in Kinds : FreePages(k)' = FreePages(k)
  <2> TAKE k \in Kinds
  <2>1. \A p : p \in FreePages(k)' <=> p \in FreePages(k)
    BY FreeIs DEF SameFree, SameWithin
  <2> QED
    BY <2>1
<1> QED
  BY <1>1 DEF Free

\* or less the one that was found,
LEMMA LessFreePages ==
    ASSUME IInv, IInv', NEW q, NEW j \in Kinds, FreeLess(call, Stacks, call', Stacks', q),
           Within(q, KindsOf(call), Stacks, j)
    PROVE  q \in Free[j] /\ Free' = [Free EXCEPT ![j] = @ \ {q}]
<1>1. \A k \in Kinds : \A p : p \in FreePages(k)' <=> p \in FreePages(k) /\ p # q
  BY FreeIs DEF FreeLess
<1>2. q \in FreePages(j)
  BY FreeIs
<1>3. \A k \in Kinds \ {j} : q \notin FreePages(k)
  <2> TAKE k \in Kinds \ {j}
  <2>1. ~Within(q, KindsOf(call), Stacks, k)
    BY DEF IInv, Good, ListsOK, AreStacks, Within
  <2> QED
    BY <2>1, FreeIs
<1>4. \A k \in Kinds : FreePages(k)' = IF k = j THEN FreePages(k) \ {q} ELSE FreePages(k)
  BY <1>1, <1>3
<1> QED
  BY <1>2, <1>4 DEF Free

\* or also the one that was given back.
LEMMA MoreFreePages ==
    ASSUME IInv, IInv', NEW q, NEW j \in Kinds, FreeMore(call, Stacks, call', Stacks', q, j)
    PROVE  Free' = [Free EXCEPT ![j] = @ \cup {q}]
<1>1. \A k \in Kinds : \A p : p \in FreePages(k)' <=> p \in FreePages(k) \/ (p = q /\ k = j)
  BY FreeIs DEF FreeMore, MoreWithin
<1>2. \A k \in Kinds : FreePages(k)' = IF k = j THEN FreePages(k) \cup {q} ELSE FreePages(k)
  BY <1>1
<1> QED
  BY <1>2 DEF Free

---------------------------------------------------------------------------
(* The pins *)

\* A set with a member is not empty.
LEMMA SomeCounted ==
    ASSUME NEW B \in SUBSET Threads, NEW t \in B
    PROVE  Cardinality(B) \in Nat /\ Cardinality(B) > 0
<1>1. B = (B \ {t}) \cup {t} /\ t \notin B \ {t} /\ B \ {t} \in SUBSET Threads /\ t \in Threads
  OBVIOUS
<1>2. Cardinality(B \ {t}) \in Nat /\ Cardinality((B \ {t}) \cup {t}) = Cardinality(B \ {t}) + 1
  BY <1>1, CountMore
<1>3. Cardinality(B) = Cardinality((B \ {t}) \cup {t})
  BY <1>1, Zenon
<1> QED
  BY <1>2, <1>3

\* A page is pinned that the system has given, and unpinned if it has pins.
PinsOnly ==
    \/ pins' = pins
    \/ \E p \in Pages : given[p] > 0 /\ pins' = [pins EXCEPT ![p] = pins[p] + 1]
    \/ \E p \in Pages : pins[p] > 0 /\ pins' = [pins EXCEPT ![p] = pins[p] - 1]

\* A step changes one pin count at most, by one, and no count below zero.
LEMMA PinsMoveOne ==
    ASSUME IInv, NEW t \in Threads, PinSide(t, PendingPages)
    PROVE  PinsOnly
<1> DEFINE c == call[t]
<1>1. PICK P \in Stack, D \in PageSets, O \in PageSets : P = Stacks /\ D = PendingPages /\ O = OwedPages
  BY NamesTyped
<1>2. Typed /\ Good(P, D, O)
  BY <1>1 DEF IInv
<1>3. \A p \in Pages : /\ pins[p] = Cardinality(HavePinned(pinned, p)) + Cardinality(Owe(O, p))
                       /\ Cardinality(HavePinned(pinned, p)) \in Nat /\ Cardinality(Owe(O, p)) \in Nat
                       /\ HavePinned(pinned, p) \in SUBSET Threads /\ Owe(O, p) \in SUBSET Threads
  <2>1. CountsOK(O)
    BY <1>2 DEF Good
  <2>2. \A p : HavePinned(pinned, p) \in SUBSET Threads /\ Owe(O, p) \in SUBSET Threads
    BY DEF HavePinned, Owe
  <2> QED
    BY <2>1, <2>2, CountsAre, CountsNat
<1>4. CASE PinsUnpin(t)
  <2>1. c.at \in {"drain", "drain_cas"} /\ pins' = [pins EXCEPT ![c.curr] = @ - 1]
    BY <1>4 DEF PinsUnpin
  <2>2. c.curr \in Pages /\ IsList(next, O[t], OwedFrom(t), NoPage)
    BY <1>2, <2>1, DrainFacts, OfThread DEF Draining
  <2>3. OwedFrom(t) = c.curr
    BY <2>1 DEF OwedFrom, At
  <2>4. t \in Owe(O, c.curr)
    BY <2>2, <2>3, ListTyped, PagesNotNull DEF Owe
  <2>5. pins[c.curr] > 0
    BY <1>3, <2>2, <2>4, SomeCounted
  <2> QED
    BY <2>1, <2>2, <2>5 DEF PinsOnly
<1>5. CASE PinsChange(t)
  <2>1. pins' = [pins EXCEPT ![c.page] = Changed(t, @)] /\ Pins(t)
    BY <1>5 DEF PinsChange, PinChanged
  <2>2. c.page \in Pages /\ given[c.page] > 0
    BY <1>2, <2>1 DEF Good, PinsOK
  <2>3. CASE c.op = "pin"
    BY <2>1, <2>2, <2>3 DEF PinsOnly, Changed
  <2>4. CASE c.op = "unpin"
    <3>1. t \in HavePinned(pinned, c.page)
      BY <1>2, <2>4 DEF Good, PinsOK, HavePinned
    <3>2. pins[c.page] > 0
      BY <1>3, <2>2, <3>1, SomeCounted
    <3> QED
      BY <2>1, <2>2, <2>4, <3>2 DEF PinsOnly, Changed
  <2> QED
    BY <2>1, <2>3, <2>4 DEF Pins
<1>6. CASE PinsStay(t, PendingPages) \/ PinsDrained(t) \/ PinsLater(t)
  BY <1>6 DEF PinsStay, PinsDrained, PinsLater, PinsOnly
<1> QED
  BY <1>4, <1>5, <1>6 DEF PinSide

---------------------------------------------------------------------------

\* A step of a thread is one of the pool, or changes nothing of it.
LEMMA PoolStep ==
    ASSUME IInv, IInv', NEW t \in Threads, StepOK(t, Stacks, PendingPages), Owned(t, Stacks, Stacks')
    PROVE  Pool!Next \/ UNCHANGED <<Fresh, Free, InUse, pins>>
<1>1. ChangedBy(t) /\ PinsOnly
  BY PinsMoveOne DEF StepOK, Does
<1>2. given \in [Pages -> Nat] /\ held \subseteq Pages /\ pins \in [Pages -> Nat] /\ call[t] \in Call
  BY DEF IInv, Typed
<1>3. call'[t] \in Call
  BY <1>1 DEF ChangedBy
<1>4. CASE SameFree(call, Stacks, call', Stacks') /\ given' = given /\ Hands(t, TakenBy(t))
  <2>1. Free' = Free /\ InUse' = InUse /\ Fresh' = Fresh
    BY <1>1, <1>4, SameFreePages, InUseKept DEF Fresh
  <2>2. CASE pins' = pins
    BY <2>1, <2>2
  <2>3. ASSUME NEW p \in Pages, given[p] > 0, pins' = [pins EXCEPT ![p] = pins[p] + 1] PROVE Pool!Next
    <3>1. p \notin Fresh
      BY <2>3 DEF Fresh
    <3>2. Pool!Pin(p)
      BY <2>1, <2>3, <3>1 DEF Pool!Pin, Pool!Pinned, Fresh, Free, InUse
    <3> QED
      BY <3>2 DEF Pool!Next
  <2>4. ASSUME NEW p \in Pages, pins[p] > 0, pins' = [pins EXCEPT ![p] = pins[p] - 1] PROVE Pool!Next
    <3>1. Pool!Unpin(p)
      BY <2>1, <2>4 DEF Pool!Unpin, Pool!Pinned, Fresh, Free, InUse
    <3> QED
      BY <3>1 DEF Pool!Next
  <2> QED
    BY <1>1, <2>2, <2>3, <2>4 DEF PinsOnly
<1>5. ASSUME NEW q, Found(t, q), given' = given, pins[q] = 0, pins' = pins,
             Within(q, KindsOf(call), Stacks, call[t].kind), FreeLess(call, Stacks, call', Stacks', q)
      PROVE  Pool!Next
  <2> DEFINE k == call[t].kind
  <2>1. k \in Kinds /\ q \in Pages
    BY <1>2, <1>5 DEF Call, Found
  <2>2. q \in Free[k] /\ Free' = [Free EXCEPT ![k] = @ \ {q}]
    BY <1>5, <2>1, LessFreePages
  <2>3. q \notin InUse /\ InUse' = InUse \cup {q} /\ Fresh' = Fresh
    BY <1>1, <1>5, <2>1, NotInUse, InUseMore DEF Fresh
  <2> HIDE DEF k
  <2>4. Pool!Allocate(k, q)
    BY <1>5, <2>2, <2>3 DEF Pool!Allocate, Pool!Take, Fresh, Free, InUse
  <2> QED
    BY <2>1, <2>4 DEF Pool!Next
<1>6. ASSUME NEW q, Found(t, q), given[q] = 0, given' = [given EXCEPT ![q] = @ + 1], pins' = pins,
             SameFree(call, Stacks, call', Stacks')
      PROVE  Pool!Next
  <2>1. q \in Pages
    BY <1>6 DEF Found
  <2>2. Free' = Free /\ q \notin InUse /\ InUse' = InUse \cup {q}
    BY <1>1, <1>6, NotInUse, InUseMore, SameFreePages
  <2>3. q \in Fresh /\ Fresh' = Fresh \ {q}
    BY <1>2, <1>6, <2>1 DEF Fresh
  <2>4. Pool!AllocateNew(q)
    BY <1>6, <2>2, <2>3 DEF Pool!AllocateNew, Pool!Take, Fresh, Free, InUse
  <2> QED
    BY <2>1, <2>4 DEF Pool!Next
<1>7. ASSUME NEW q \in held, TakenBy(t) = NoPage, TakenBy(t)' = NoPage, given' = given, pins' = pins,
             held' = held \ {q}, FreeMore(call, Stacks, call', Stacks', q, call'[t].kind)
      PROVE  Pool!Next
  <2>1. PICK k \in Kinds : k = call'[t].kind
    BY <1>3 DEF Call
  <2>2. Free' = [Free EXCEPT ![k] = @ \cup {q}]
    BY <1>7, <2>1, MoreFreePages
  <2>3. q \in Pages /\ q \in InUse /\ InUse' = InUse \ {q} /\ Fresh' = Fresh
    BY <1>1, <1>2, <1>7, InUseLess DEF InUse, Fresh
  <2>4. Pool!Deallocate(k, q)
    BY <1>7, <2>2, <2>3 DEF Pool!Deallocate, Fresh, Free, InUse
  <2> QED
    BY <2>3, <2>4 DEF Pool!Next
<1> QED
  BY <1>4, <1>5, <1>6, <1>7 DEF Owned

\* At the start all pages are fresh.
LEMMA PoolInit ==
    ASSUME Init, IInv
    PROVE  Pool!Init
<1>1. given = [p \in Pages |-> 0] /\ held = {} /\ pins = [p \in Pages |-> 0]
  BY DEF Init, Source!Init
<1>2. \A t \in Threads : call[t].list = NoPage /\ call[t].page = NoPage /\ local[t].private = [k \in Kinds |-> NoPage]
  BY DEF Init, NoCall, NewLocal
<1>3. \A s \in Slots, k \in Kinds : first[s][k] = NoPage
  BY DEF Init
<1>4. \A k \in Kinds : FreePages(k) = {}
  BY <1>2, <1>3, PagesNotNull DEF FreePages
<1>5. Taken = {}
  BY <1>2 DEF Taken
<1> QED
  BY <1>1, <1>4, <1>5 DEF Pool!Init

\* The allocator implements the pool of pages: try_allocate_page returns a page of
\* the kind asked that nobody had, unpinned at the step that saw it; no page is
\* lost, or in two stacks, by a steal, a push that fails or a thread that ends.
THEOREM ImplementsPool == Spec /\ usage # "any" => PoolSpec
<1>1. Init /\ IInv => Pool!Init
  BY PoolInit
<1>2. IInv /\ IInv' /\ [Next]_vars => [Pool!Next]_<<Fresh, Free, InUse, pins>>
  <2>1. ASSUME IInv, IInv', Next PROVE Pool!Next \/ UNCHANGED <<Fresh, Free, InUse, pins>>
    BY <2>1, StepTaken, PoolStep
  <2>2. ASSUME UNCHANGED vars PROVE UNCHANGED <<Fresh, Free, InUse, pins>>
    BY <2>2 DEF vars, Fresh, Free, InUse, FreePages, Taken, Chain
  <2> QED
    BY <2>1, <2>2
<1>3. IInv /\ IInv' /\ [Next]_vars =>
         [Pool!Next]_<<{p \in Pages : given[p] = 0}, [k \in Kinds |-> FreePages(k)], held \cup Taken, pins>>
  BY <1>2 DEF Fresh, Free, InUse
<1> QED
  BY <1>1, <1>3, AllocatorInvariant, PTL DEF Spec, PoolSpec, Pool!Spec
===========================================================================
