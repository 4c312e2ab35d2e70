---------------------- MODULE LfQueueRelaxed_proof -----------------------
(***************************************************************************)
(* The queue with consistency_relaxed, whatever the number of threads and  *)
(* pages: its types, the pages that the consumers have pinned, the order of *)
(* its blocks, and what follows from it: a consumer keeps the element it has *)
(* taken, no element is taken twice, and a producer finds the room it has  *)
(* reserved zeroed.  Then that nothing is missing: no element is cut from the *)
(* queue, no page leaks, the tail is reached and a put keeps its block.    *)
(*                                                                         *)
(* First, that the chain of blocks from the head passes through every      *)
(* block of the queue: what the order of the blocks, with nothing missing, *)
(* says of paths; and the steps after which nothing is missing.            *)
(***************************************************************************)
EXTENDS LfQueueRelaxed, LfQueueOrder_proof, FiniteSetTheorems, WellFoundedInduction

---------------------------------------------------------------------------
(* Least numbers *)

\* A set of numbers has a least one.
LEMMA LeastNumber == ASSUME NEW T \in SUBSET Nat, T # {} PROVE \E x \in T : \A y \in T : x <= y
<1> DEFINE F == {0 .. n : n \in T}
<1>1. F \subseteq FiniteSubsetsOf(Nat) /\ F # {}
  <2>1. \A n \in T : 0 .. n \in SUBSET Nat /\ IsFiniteSet(0 .. n)
    BY FS_Interval
  <2> QED
    BY <2>1 DEF FiniteSubsetsOf
<1>2. PICK s \in F : \A u \in F : <<u, s>> \notin StrictSubsetOrdering(Nat)
  BY <1>1, FS_StrictSubsetOrderingWellFounded, WFMin
<1>3. PICK x \in T : s = 0 .. x
  BY <1>2
<1>4. \A y \in T : ~ (y < x)
  <2> SUFFICES ASSUME NEW y \in T, y < x PROVE FALSE
    OBVIOUS
  <2>1. 0 .. y \in F /\ 0 .. y \in SUBSET Nat /\ s \in SUBSET Nat
    BY <1>3
  <2>2. (0 .. y) \subseteq s /\ (0 .. y) # s
    BY <1>3
  <2> QED
    BY <1>2, <2>1, <2>2 DEF StrictSubsetOrdering
<1> QED
  BY <1>4

\* What holds of 0, and of every number if it holds of the one before, holds
\* up to any bound.
LEMMA UpTo ==
    ASSUME NEW N \in Nat, NEW S, 0 \in S, \A n \in 0 .. N - 1 : n \in S => n + 1 \in S
    PROVE  0 .. N \subseteq S
<1> SUFFICES ASSUME NEW k \in 0 .. N, k \notin S PROVE FALSE
  OBVIOUS
<1> DEFINE T == {n \in 0 .. N : n \notin S}
<1>1. PICK n \in T : \A m \in T : n <= m
  <2>1. T \in SUBSET Nat /\ k \in T
    OBVIOUS
  <2> QED
    BY <2>1, LeastNumber
<1>2. n \in 1 .. N /\ n - 1 \in 0 .. N - 1 /\ n - 1 \notin T
  BY <1>1
<1> QED
  BY <1>1, <1>2

---------------------------------------------------------------------------
(* The recursive function that Chain is made of *)

\* f gives the block after each number of steps from the head, up to n.
Steps(f, n) == f = [k \in 0 .. n |-> IF k = 0 THEN First ELSE After(f[k - 1])]
Step == CHOOSE f : Steps(f, Cardinality(Block))

LEMMA AfterTyped == IInv => \A b \in BlockOrNull : After(b) \in BlockOrNull
<1> SUFFICES ASSUME IInv, NEW b \in Block PROVE After(b) \in BlockOrNull
  BY Addresses DEF After, BlockOrNull
<1>1. m_next[b].to \in BlockOrNull
  BY Typed DEF NextPtr
<1>2. \A p \in Reserving(b) : ReservedEnd(p) \in Block
  BY ReservedBlock DEF Reserving, Stores
<1> QED
  BY <1>1, <1>2, Addresses DEF After, BlockOrNull

\* There is such a function for every bound, hence the one that Chain takes.
LEMMA StepsExist == ASSUME IInv, NEW N \in Nat PROVE \E f : Steps(f, N)
<1> DEFINE S == {n \in Nat : \E f : Steps(f, n)}
<1>1. 0 \in S
  <2> DEFINE f == [k \in 0 .. 0 |-> First]
  <2>1. Steps(f, 0)
    BY DEF Steps
  <2> QED
    BY <2>1
<1>2. ASSUME NEW n \in Nat, n \in S PROVE n + 1 \in S
  <2>1. PICK f : Steps(f, n)
    BY <1>2
  <2> DEFINE g == [k \in 0 .. n + 1 |-> IF k = 0 THEN First ELSE After(f[k - 1])]
  <2>2. \A k \in 0 .. n : g[k] = f[k]
    BY <2>1 DEF Steps
  <2>3. \A k \in 0 .. n + 1 : k # 0 => k - 1 \in 0 .. n
    OBVIOUS
  <2>4. g = [k \in 0 .. n + 1 |-> IF k = 0 THEN First ELSE After(g[k - 1])]
    BY <2>2, <2>3, Zenon
  <2>5. Steps(g, n + 1)
    BY <2>4 DEF Steps
  <2> HIDE DEF g
  <2> QED
    BY <2>5
<1>3. \A n \in 0 .. N - 1 : n \in S => n + 1 \in S
  BY <1>2
<1> HIDE DEF S
<1>4. 0 .. N \subseteq S
  BY <1>1, <1>3, UpTo
<1> QED
  BY <1>4 DEF S

LEMMA FiniteMemory == IsFiniteSet(Block) /\ Cardinality(Block) \in Nat
<1>1. IsFiniteSet(Slots)
  BY FS_Interval, BaseAssumption DEF Slots
<1>2. IsFiniteSet(Block)
  BY <1>1, ChainAssumption, FS_Product DEF Block
<1> QED
  BY <1>2, FS_CardinalityType

LEMMA ChainSteps ==
    ASSUME IInv
    PROVE  /\ Chain = {Step[n] : n \in 0 .. Cardinality(Block) - 1} \ {NoBlock}
           /\ Step[0] = First
           /\ \A n \in 0 .. Cardinality(Block) - 1 : Step[n + 1] = After(Step[n])
<1>1. Chain = {Step[n] : n \in 0 .. Cardinality(Block) - 1} \ {NoBlock}
  BY DEF Chain, Step, Steps
<1>2. Steps(Step, Cardinality(Block))
  BY StepsExist, FiniteMemory DEF Step
<1>3. \A n \in 0 .. Cardinality(Block) : Step[n] = IF n = 0 THEN First ELSE After(Step[n - 1])
  BY <1>2 DEF Steps
<1> QED
  BY <1>1, <1>3, FiniteMemory

---------------------------------------------------------------------------
(* One block after another *)

\* Every block of the queue ends where the next one begins, and the chain ends
\* with the last.
LEMMA Successors ==
    ASSUME NEW rank \in [Pages -> Nat], IInv, Ordered(rank), NEW b, Live(b)
    PROVE  /\ After(b) # NoBlock =>
                /\ Live(After(b)) /\ Before(rank, b, After(b))
                /\ Inner(After(b)) => Begins(After(b))
           /\ Inner(b) => \A e \in Block : Spans(b, e) => After(b) = e
           /\ ~Inner(b) => \/ Open(PageOf(b))
                           \/ \E y \in LinkedPages : /\ After(b) = FirstBlock(y)
                                                     /\ rank[y] = rank[PageOf(b)] + 1
<1>1. b \in Block /\ PageOf(b) \in LinkedPages /\ PageOf(b) \in Pages /\ b # NoBlock
  BY Addresses DEF Live
<1>2. \A p \in Reserving(b) : Stores(p) /\ p \in Producers /\ ReservedEnd(p) \in Block /\ Spans(b, ReservedEnd(p))
  BY ReservedBlock DEF Reserving, Stores, Spans
<1>3. m_next[b].to \in BlockOrNull
  BY <1>1, Typed DEF NextPtr
<1>4. After(b) # NoBlock => After(b) \in Block /\ Spans(b, After(b))
  <2>1. CASE ~IsEnd(m_next[b])
    BY <1>1, <1>3, <2>1, Addresses DEF After, Spans, IsEnd
  <2>2. CASE IsEnd(m_next[b])
    BY <1>1, <1>2, <2>2 DEF After
  <2> QED
    BY <2>1, <2>2
<1>5. \A e \in Block : Spans(b, e) => After(b) # NoBlock
  <2> SUFFICES ASSUME NEW e \in Block, Spans(b, e) PROVE After(b) # NoBlock
    OBVIOUS
  <2>1. CASE m_next[b].to = e
    BY <1>1, <2>1, Addresses DEF After, IsEnd
  <2>2. CASE m_next[b].to # e
    <3>1. Reserving(b) # {}
      BY <2>2 DEF Spans
    <3> QED
      BY <1>1, <1>2, <3>1, Addresses DEF After, IsEnd
  <2> QED
    BY <2>1, <2>2
<1>6. CASE Inner(b)
  <2>1. \A e \in Block : Spans(b, e) => BlockApart(b, e)
    BY <1>1, <1>6 DEF Ordered, BlocksApart
  <2>2. \A e \in Block : Spans(b, e) => After(b) = e
    <3> SUFFICES ASSUME NEW e \in Block, Spans(b, e) PROVE After(b) = e
      OBVIOUS
    <3>1. After(b) \in Block /\ Spans(b, After(b))
      BY <1>4, <1>5
    <3>2. SamePage(b, b) /\ b[2] <= b[2]
      BY <1>1, Spots DEF SamePage
    <3> QED
      BY <1>1, <1>6, <2>1, <3>1, <3>2 DEF BlockApart
  <2>3. ASSUME After(b) # NoBlock
        PROVE  /\ Live(After(b)) /\ Before(rank, b, After(b))
               /\ Inner(After(b)) => Begins(After(b))
    <3>1. After(b) \in Block /\ Spans(b, After(b)) /\ SamePage(b, After(b)) /\ b[2] < After(b)[2]
      BY <1>4, <2>1, <2>3 DEF BlockApart
    <3>2. Live(After(b))
      <4>1. PageOf(b) = PageOf(First) => First[2] <= b[2]
        BY DEF Live
      <4>2. b[2] \in Nat /\ After(b)[2] \in Nat /\ First[2] \in Nat
        BY <1>1, <3>1, Spots, Typed
      <4> QED
        BY <1>1, <3>1, <4>1, <4>2 DEF Live, SamePage
    <3>3. Begins(After(b))
      BY <1>1, <1>6, <3>1 DEF Begins
    <3> QED
      BY <3>1, <3>2, <3>3 DEF Before, SamePage
  <2> QED
    BY <1>6, <2>2, <2>3
<1>7. CASE ~Inner(b)
  <2>1. b = End(PageOf(b))
    BY <1>1, <1>7, Spots DEF Inner
  <2>2. PageOrdered(rank, PageOf(b))
    BY <1>1 DEF Ordered, PagesOrdered
  <2>3. CASE Open(PageOf(b))
    <3>1. IsEnd(m_next[b])
      BY <2>1, <2>3 DEF Open, IsEnd, InvalidNextPage
    <3>2. Reserving(b) = {}
      <4>1. \A p \in Reserving(b) : Inner(prod[p].tail) /\ prod[p].tail = b
        BY <1>2 DEF Ordered, ReservationsOK, ReservationOK, Reserving
      <4> QED
        BY <1>7, <4>1
    <3>3. After(b) = NoBlock
      BY <1>1, <3>1, <3>2 DEF After
    <3> QED
      BY <1>7, <2>3, <3>3
  <2>4. CASE ~Open(PageOf(b))
    <3>1. PICK y \in LinkedPages : m_next[b] = NextWord(FirstBlock(y), {"dead"}) /\ rank[y] = rank[PageOf(b)] + 1
      BY <2>1, <2>2, <2>4 DEF PageOrdered
    <3>2. y \in Pages /\ FirstBlock(y) \in Block /\ FirstBlock(y) # NoBlock /\ PageOf(FirstBlock(y)) = y /\ FirstBlock(y)[2] = 0
      BY Addresses DEF LinkedPages, FirstBlock, PageOf
    <3>3. After(b) = FirstBlock(y)
      BY <1>1, <3>1, <3>2 DEF After, IsEnd, NextWord
    <3>4. rank[y] \in Nat /\ rank[PageOf(b)] \in Nat /\ rank[PageOf(b)] < rank[y]
      BY <1>1, <3>1, <3>2
    <3>5. y # PageOf(First)
      <4>1. rank[PageOf(First)] <= rank[PageOf(b)]
        BY <2>2 DEF PageOrdered
      <4>2. PageOf(First) \in LinkedPages
        BY <1>1 DEF Ordered, HeadPlace
      <4>3. rank[PageOf(First)] \in Nat
        BY <4>2 DEF LinkedPages
      <4> QED
        BY <3>4, <4>1, <4>3
    <3>6. Live(FirstBlock(y))
      BY <3>2, <3>5 DEF Live
    <3>7. Before(rank, b, FirstBlock(y)) /\ Begins(FirstBlock(y))
      BY <3>2, <3>4 DEF Before, Begins
    <3> QED
      BY <1>7, <3>1, <3>3, <3>6, <3>7
  <2> QED
    BY <2>3, <2>4
<1> QED
  BY <1>6, <1>7

---------------------------------------------------------------------------
(* The chain ends within its bound: each block has fewer after it *)

Later(rank, b) == {c \in Block : PageOf(c) \in LinkedPages /\ ~Before(rank, c, b)}

LEMMA BlocksLeft ==
    ASSUME NEW rank \in [Pages -> Nat], NEW a, Live(a), NEW b, Live(b)
    PROVE  /\ Cardinality(Later(rank, b)) \in 1 .. Cardinality(Block)
           /\ Before(rank, a, b) => Cardinality(Later(rank, b)) < Cardinality(Later(rank, a))
<1>1. \A c \in Block : PageOf(c) \in LinkedPages => rank[PageOf(c)] \in Nat /\ c[2] \in Nat
  BY Spots
<1>2. a \in Block /\ PageOf(a) \in LinkedPages /\ b \in Block /\ PageOf(b) \in LinkedPages
  BY DEF Live
<1>3. IsFiniteSet(Later(rank, a)) /\ IsFiniteSet(Later(rank, b)) /\ Cardinality(Later(rank, b)) <= Cardinality(Block)
  BY FiniteMemory, FS_Subset DEF Later
<1>4. Cardinality(Later(rank, b)) \in Nat /\ Cardinality(Later(rank, a)) \in Nat
  BY <1>3, FS_CardinalityType
<1>5. b \in Later(rank, b)
  BY <1>1, <1>2 DEF Later, Before
<1>6. Cardinality(Later(rank, b)) # 0
  BY <1>3, <1>5, FS_EmptySet
<1>7. ASSUME Before(rank, a, b) PROVE Cardinality(Later(rank, b)) < Cardinality(Later(rank, a))
  <2>1. Later(rank, b) \subseteq Later(rank, a)
    <3> SUFFICES ASSUME NEW c \in Block, PageOf(c) \in LinkedPages, Before(rank, c, a) PROVE Before(rank, c, b)
      BY DEF Later
    <3> QED
      BY <1>1, <1>2, <1>7 DEF Before
  <2>2. a \in Later(rank, a) /\ a \notin Later(rank, b)
    BY <1>1, <1>2, <1>7 DEF Later, Before
  <2> QED
    BY <1>3, <1>4, <2>1, <2>2, FS_Subset
<1> QED
  BY <1>3, <1>4, <1>6, <1>7, FiniteMemory

\* The chain starts at the head, stays in the queue, and goes on from each of
\* its blocks: it is not cut by its bound.
LEMMA ChainFacts ==
    ASSUME NEW rank \in [Pages -> Nat], IInv, Ordered(rank)
    PROVE  /\ m_initial_page # NoPage => First \in Chain
           /\ \A b \in Chain : /\ Live(b) /\ (Inner(b) => Begins(b))
                               /\ After(b) # NoBlock => After(b) \in Chain
<1> DEFINE N == Cardinality(Block)
           Ahead(b) == Cardinality(Later(rank, b))
           S == {n \in 0 .. N : Step[n] # NoBlock =>
                    Live(Step[n]) /\ (Inner(Step[n]) => Begins(Step[n])) /\ Ahead(Step[n]) <= N - n}
<1>1. N \in Nat
  BY FiniteMemory
<1>2. /\ Chain = {Step[n] : n \in 0 .. N - 1} \ {NoBlock}
      /\ Step[0] = First
      /\ \A n \in 0 .. N - 1 : Step[n + 1] = After(Step[n])
  BY ChainSteps
<1>3. /\ First # NoBlock => Live(First) /\ Begins(First)
      /\ m_initial_page # NoPage => First # NoBlock
  <2>1. CASE m_initial_page = NoPage
    BY <2>1, Addresses DEF Ordered, HeadPlace, First
  <2>2. CASE m_initial_page # NoPage
    <3>1. PageOf(First) \in LinkedPages /\ PageOf(First) \in Pages
      BY <2>2 DEF Ordered, HeadPlace, LinkedPages
    <3>2. First \in Block
      BY <3>1, Typed, Addresses, BaseAssumption DEF NoBlock, PageOf
    <3> QED
      BY <3>1, <3>2, Spots, Addresses DEF Live, Begins
  <2> QED
    BY <2>1, <2>2
<1>4. 0 \in S
  <2>1. First # NoBlock => Ahead(First) <= N
    BY <1>1, <1>3, BlocksLeft
  <2> QED
    BY <1>1, <1>2, <1>3, <2>1
<1>5. ASSUME NEW n \in 0 .. N - 1, n \in S PROVE n + 1 \in S
  <2> SUFFICES ASSUME Step[n + 1] # NoBlock
               PROVE  /\ Live(Step[n + 1]) /\ (Inner(Step[n + 1]) => Begins(Step[n + 1]))
                      /\ Ahead(Step[n + 1]) <= N - (n + 1)
    BY <1>1
  <2>1. Step[n + 1] = After(Step[n]) /\ Step[n] # NoBlock
    BY <1>2 DEF After
  <2>2. Live(Step[n]) /\ Ahead(Step[n]) <= N - n
    BY <1>5, <2>1
  <2>3. /\ Live(Step[n + 1]) /\ Before(rank, Step[n], Step[n + 1])
        /\ Inner(Step[n + 1]) => Begins(Step[n + 1])
    BY <2>1, <2>2, Successors
  <2>4. Ahead(Step[n + 1]) < Ahead(Step[n]) /\ Ahead(Step[n + 1]) \in Nat /\ Ahead(Step[n]) \in Nat
    <3>1. /\ Ahead(Step[n]) \in 1 .. N /\ Ahead(Step[n + 1]) \in 1 .. N
          /\ Ahead(Step[n + 1]) < Ahead(Step[n])
      BY <2>2, <2>3, BlocksLeft
    <3> QED
      BY <1>1, <3>1
  <2> HIDE DEF Ahead
  <2> QED
    BY <1>1, <2>2, <2>3, <2>4
<1>6. 0 .. N \subseteq S
  <2> HIDE DEF S
  <2> QED
    BY <1>1, <1>4, <1>5, UpTo
<1>7. m_initial_page # NoPage => First \in Chain
  <2> SUFFICES ASSUME m_initial_page # NoPage PROVE First \in Chain
    OBVIOUS
  <2>1. Ahead(First) \in 1 .. N
    BY <1>3, BlocksLeft
  <2>2. 0 \in 0 .. N - 1
    BY <1>1, <2>1
  <2> QED
    BY <1>2, <1>3, <2>2
<1>8. ASSUME NEW b \in Chain
      PROVE  /\ Live(b) /\ (Inner(b) => Begins(b))
             /\ After(b) # NoBlock => After(b) \in Chain
  <2>1. PICK n \in 0 .. N - 1 : b = Step[n] /\ b # NoBlock
    BY <1>2, <1>8
  <2>2. Live(b) /\ (Inner(b) => Begins(b))
    BY <1>1, <1>6, <2>1
  <2>3. ASSUME After(b) # NoBlock PROVE After(b) \in Chain
    <3>1. Step[n + 1] = After(b) /\ n + 1 \in 0 .. N
      BY <1>1, <1>2, <2>1
    <3>2. Live(Step[n + 1]) /\ Ahead(Step[n + 1]) <= N - (n + 1)
      BY <1>6, <2>3, <3>1
    <3>3. Ahead(Step[n + 1]) \in 1 .. N
      BY <3>2, BlocksLeft
    <3>4. n + 1 \in 0 .. N - 1
      <4> HIDE DEF Ahead
      <4> QED
        BY <1>1, <3>1, <3>2, <3>3
    <3> QED
      BY <1>2, <2>3, <3>1, <3>4
  <2> QED
    BY <2>2, <2>3
<1> QED
  BY <1>7, <1>8

\* Where the chain must pass: a block, the tail, the start of a page.
Landmark(b) ==
    \/ b[2] = 0
    \/ Inner(b) /\ \E e \in Block : Spans(b, e)
    \/ b = m_tail /\ Open(PageOf(b))

\* It does: the last block of the chain that is not after b is b itself.
LEMMA ChainHas ==
    ASSUME NEW rank \in [Pages -> Nat], IInv, Ordered(rank), Tiled,
           NEW b, Live(b), Landmark(b)
    PROVE  b \in Chain
<1>0. \A c \in Chain : Live(c) /\ (Inner(c) => Begins(c)) /\ (After(c) # NoBlock => After(c) \in Chain)
  BY ChainFacts
<1> DEFINE Ahead(c) == Cardinality(Later(rank, c))
           S == {c \in Chain : ~Before(rank, b, c)}
           K == {Ahead(c) : c \in S}
<1>1. b \in Block /\ PageOf(b) \in LinkedPages /\ m_initial_page # NoPage
  BY DEF Live, Ordered, HeadPlace
<1>2. First \in S
  <2>1. First \in Chain
    BY <1>1, ChainFacts
  <2>2. rank[PageOf(First)] <= rank[PageOf(b)] /\ (PageOf(b) = PageOf(First) => First[2] <= b[2])
    BY <1>1 DEF Live, Ordered, PagesOrdered, PageOrdered
  <2>3. rank[PageOf(First)] \in Nat /\ rank[PageOf(b)] \in Nat /\ First[2] \in Nat /\ b[2] \in Nat
    <3>1. PageOf(First) \in LinkedPages
      BY <1>1 DEF Ordered, HeadPlace
    <3> QED
      BY <1>1, <3>1, Typed, Spots DEF LinkedPages
  <2> QED
    BY <2>1, <2>2, <2>3 DEF Before
<1>4. PICK c \in S : \A d \in S : Ahead(c) <= Ahead(d)
  <2>1. \A d \in S : Ahead(d) \in Nat
    BY <1>0, BlocksLeft, FiniteMemory
  <2>2. PICK k \in K : \A l \in K : k <= l
    <3>1. K \in SUBSET Nat /\ K # {}
      BY <1>2, <2>1
    <3> HIDE DEF K
    <3> QED
      BY <3>1, LeastNumber
  <2> QED
    BY <2>2
<1>5. c \in Chain /\ Live(c) /\ c \in Block /\ PageOf(c) \in LinkedPages /\ ~Before(rank, b, c)
  BY <1>0 DEF Live
<1>6. rank[PageOf(b)] \in Nat /\ rank[PageOf(c)] \in Nat /\ b[2] \in Nat /\ c[2] \in Nat
  BY <1>1, <1>5, Spots DEF LinkedPages
<1> SUFFICES ASSUME c # b PROVE FALSE
  BY <1>5
<1>7. Before(rank, c, b)
  <2>1. rank[PageOf(c)] = rank[PageOf(b)] => PageOf(c) = PageOf(b)
    BY <1>1, <1>5 DEF Ordered, PagesOrdered, PageOrdered
  <2>2. PageOf(c) = PageOf(b) => c[2] # b[2]
    BY <1>1, <1>5, Spots
  <2> QED
    BY <1>5, <1>6, <2>1, <2>2 DEF Before
<1>8. After(c) # NoBlock /\ ~Before(rank, b, After(c))
  <2>1. CASE Inner(c)
    <3>1. CASE \E e \in Block : Spans(c, e)
      <4>1. PICK e \in Block : Spans(c, e)
        BY <3>1
      <4>2. After(c) = e /\ e # NoBlock /\ BlockApart(c, e) /\ e[2] \in Nat
        BY <1>5, <2>1, <4>1, Successors, Addresses, Spots DEF Ordered, BlocksApart
      <4>3. PageOf(c) = PageOf(b) => e[2] <= b[2]
        <5> SUFFICES ASSUME PageOf(c) = PageOf(b) PROVE e[2] <= b[2]
          OBVIOUS
        <5>1. c[2] < b[2]
          BY <1>6, <1>7 DEF Before
        <5>2. CASE b[2] = 0
          BY <1>6, <5>1, <5>2
        <5>3. CASE Inner(b) /\ \E g \in Block : Spans(b, g)
          <6>1. PICK g \in Block : Spans(b, g)
            BY <5>3
          <6>2. SamePage(c, b) /\ c[2] <= b[2]
            BY <1>6, <5>1 DEF SamePage
          <6> QED
            BY <1>1, <4>2, <5>3, <6>1, <6>2 DEF BlockApart
        <5>4. CASE b = m_tail /\ Open(PageOf(b))
          BY <4>2, <5>4 DEF BlockApart, TailSlot
        <5> QED
          BY <5>2, <5>3, <5>4 DEF Landmark
      <4>4. PageOf(e) = PageOf(c)
        BY <4>2 DEF BlockApart, SamePage
      <4> QED
        BY <1>6, <1>7, <4>2, <4>3, <4>4 DEF Before
    <3>2. CASE ~\E e \in Block : Spans(c, e)
      <4>1. Open(PageOf(c)) /\ c[2] = TailSlot(PageOf(c))
        BY <1>0, <1>5, <2>1, <3>2 DEF Tiled
      <4>2. rank[PageOf(b)] <= rank[PageOf(c)]
        <5>1. PageOrdered(rank, PageOf(c))
          BY <1>5 DEF Ordered, PagesOrdered
        <5>2. \A y \in LinkedPages : rank[y] = rank[PageOf(c)] + 1 => m_next[End(PageOf(c))] # NextWord(FirstBlock(y), {"dead"})
          BY <4>1 DEF Open, InvalidNextPage, NextWord
        <5> QED
          BY <1>1, <5>1, <5>2 DEF PageOrdered
      <4>3. PageOf(b) = PageOf(c) /\ c[2] < b[2]
        BY <1>6, <1>7, <4>2 DEF Before
      <4>4. CASE b[2] = 0
        BY <1>6, <4>3, <4>4
      <4>5. CASE Inner(b) /\ \E g \in Block : Spans(b, g)
        <5>1. PICK g \in Block : Spans(b, g)
          BY <4>5
        <5>2. BlockApart(b, g)
          BY <1>1, <4>5, <5>1 DEF Ordered, BlocksApart
        <5>3. b[2] < g[2] /\ g[2] <= TailSlot(PageOf(c)) /\ g[2] \in Nat
          BY <4>1, <4>3, <5>2, Spots DEF BlockApart
        <5> QED
          BY <1>6, <4>1, <4>3, <5>3
      <4>6. CASE b = m_tail /\ Open(PageOf(b))
        BY <1>6, <4>1, <4>3, <4>6 DEF TailSlot
      <4> QED
        BY <4>4, <4>5, <4>6 DEF Landmark
    <3> QED
      BY <3>1, <3>2
  <2>2. CASE ~Inner(c)
    <3>1. PageOf(c) # PageOf(b)
      <4>1. c[2] = EndSlot
        BY <1>5, <2>2, Spots DEF Inner
      <4> QED
        BY <1>1, <1>6, <1>7, <4>1, Spots DEF Before
    <3>2. rank[PageOf(c)] < rank[PageOf(b)]
      BY <1>7, <3>1 DEF Before
    <3>3. ~Open(PageOf(c))
      <4>1. PageOrdered(rank, PageOf(c))
        BY <1>5 DEF Ordered, PagesOrdered
      <4>2. Open(PageOf(c)) =>
               \A y \in LinkedPages : rank[y] = rank[PageOf(c)] + 1 => m_next[End(PageOf(c))] # NextWord(FirstBlock(y), {"dead"})
        BY DEF Open, InvalidNextPage, NextWord
      <4> QED
        BY <1>1, <1>6, <3>2, <4>1, <4>2 DEF PageOrdered
    <3>4. PICK y \in LinkedPages : After(c) = FirstBlock(y) /\ rank[y] = rank[PageOf(c)] + 1
      BY <1>5, <2>2, <3>3, Successors
    <3>5. y \in Pages /\ FirstBlock(y) # NoBlock /\ PageOf(FirstBlock(y)) = y /\ FirstBlock(y)[2] = 0
      BY Addresses DEF LinkedPages, FirstBlock, PageOf
    <3> QED
      BY <1>6, <3>2, <3>4, <3>5 DEF Before
  <2> QED
    BY <2>1, <2>2
<1>9. After(c) \in S
  BY <1>0, <1>5, <1>8
<1>10. Live(After(c)) /\ Before(rank, c, After(c))
  BY <1>5, <1>8, Successors
<1>11. Ahead(After(c)) < Ahead(c) /\ Ahead(After(c)) \in Nat /\ Ahead(c) \in Nat
  <2>1. Ahead(After(c)) \in 1 .. Cardinality(Block) /\ Ahead(c) \in 1 .. Cardinality(Block)
    BY <1>5, <1>10, BlocksLeft
  <2>2. Ahead(After(c)) < Ahead(c)
    BY <1>5, <1>10, BlocksLeft
  <2> QED
    BY <2>1, <2>2, FiniteMemory
<1> HIDE DEF Ahead
<1> QED
  BY <1>4, <1>9, <1>11

---------------------------------------------------------------------------
(* What the chain passes through *)

\* The block of a word that a thread owns, or that is ready.
LEMMA WrittenBlocks ==
    ASSUME NEW rank \in [Pages -> Nat], IInv, Ordered(rank), Tiled,
           NEW b, Inner(b), m_next[b].to \in Block
    PROVE  b \in Chain
BY ChainHas DEF Landmark, Inner, Spans

\* The start of every page of the queue but the first one is in the chain,
\* which starts in that one.
LEMMA PageStarts ==
    ASSUME NEW rank \in [Pages -> Nat], IInv, Ordered(rank), Tiled
    PROVE  LinkedPages = ChainPages
<1>1. ASSUME NEW x \in LinkedPages PROVE x \in ChainPages
  <2>1. CASE x = PageOf(First)
    BY <2>1, ChainFacts DEF ChainPages, Ordered, HeadPlace
  <2>2. CASE x # PageOf(First)
    <3>1. FirstBlock(x) \in Block /\ PageOf(FirstBlock(x)) = x /\ FirstBlock(x)[2] = 0
      BY Addresses DEF LinkedPages, FirstBlock, PageOf
    <3>2. Live(FirstBlock(x))
      BY <2>2, <3>1 DEF Live
    <3>3. FirstBlock(x) \in Chain
      BY <3>1, <3>2, ChainHas DEF Landmark
    <3> QED
      BY <3>1, <3>3 DEF ChainPages
  <2> QED
    BY <2>1, <2>2
<1>2. ASSUME NEW b \in Chain PROVE PageOf(b) \in LinkedPages
  BY <1>2, ChainFacts DEF Live
<1> QED
  BY <1>1, <1>2 DEF ChainPages

LEMMA ElementsReached ==
    ASSUME NEW rank \in [Pages -> Nat], IInv, Ordered(rank), NothingMissing
    PROVE  NoElementLost
<1> SUFFICES ASSUME NEW e \in Element, status[e] \in {"ready", "consuming"}
             PROVE  \E b \in Chain : /\ content[b] = <<e[1], e[2], 0>>
                                     /\ Consumable(m_next[b]) <=> status[e] = "ready"
  BY DEF NoElementLost
<1>1. CASE status[e] = "ready"
  <2>1. PICK b \in Block : ReadyBlock(b) /\ content[b] = <<e[1], e[2], 0>>
    BY <1>1 DEF NothingMissing, Located, ElementLocated
  <2>2. b \in Chain
    BY <2>1, WrittenBlocks DEF NothingMissing, ReadyBlock
  <2>3. Consumable(m_next[b])
    <3>1. "invalid_next_page" \notin m_next[b].flags
      BY <2>1, Addresses DEF NothingMissing, LinksValid, ReadyBlock
    <3> QED
      BY <2>1, <3>1 DEF ReadyBlock, Consumable
  <2> QED
    BY <1>1, <2>1, <2>2, <2>3
<1>2. CASE status[e] = "consuming"
  <2>1. PICK c \in Consumers : Takes(c) /\ content[cons[c].control] = <<e[1], e[2], 0>>
    BY <1>2 DEF NothingMissing, Located, ElementLocated
  <2>2. Inner(cons[c].control) /\ m_next[cons[c].control] = TakenWord(c)
    BY <2>1 DEF Ordered, OwnersOK, TakerOwns
  <2>3. cons[c].next.to \in Block
    BY <2>1, Typed DEF ConsumerOK, Takes, At
  <2>4. m_next[cons[c].control].to \in Block /\ "busy" \in m_next[cons[c].control].flags
    BY <2>2, <2>3 DEF TakenWord, NextWord
  <2>5. cons[c].control \in Chain
    BY <2>2, <2>4, WrittenBlocks DEF NothingMissing
  <2> QED
    BY <1>2, <2>1, <2>4, <2>5 DEF Consumable
<1> QED
  BY <1>1, <1>2

LEMMA TailReached ==
    ASSUME NEW rank \in [Pages -> Nat], IInv, Ordered(rank), NothingMissing
    PROVE  TailReachable
<1> SUFFICES ASSUME m_tail # InvalidBlock
             PROVE  /\ ~Allocatable(PageOf(m_tail))
                    /\ \/ m_tail \in Chain
                       \/ \E p \in Producers : /\ PAt(p, "advance_tail")
                                               /\ prod[p].tail = m_tail
                                               /\ <<p, "end_block">> \in pinners[PageOf(m_tail)]
                                               /\ prod[p].new_page \in ChainPages
  BY DEF TailReachable
<1>1. m_tail \in Block
  BY Typed
<1>2. CASE Open(PageOf(m_tail))
  <2>1. PageOf(m_tail) \in LinkedPages
    BY <1>2 DEF Open
  <2>2. Live(m_tail)
    BY <1>1, <1>2, <2>1 DEF Live, Ordered, TailPlace, TailSlot
  <2>3. m_tail \in Chain
    BY <1>2, <2>2, ChainHas DEF Landmark, NothingMissing
  <2> QED
    BY <2>1, <2>3 DEF LinkedPages, Allocatable
<1>3. CASE ~Open(PageOf(m_tail))
  <2>1. PICK p \in Producers : AdvancesTail(p)
    BY <1>3 DEF Ordered, TailPlace
  <2>2. prod[p].pc = "advance_tail" /\ prod[p].tail = m_tail
    BY <2>1 DEF AdvancesTail, PAt
  <2>3. prod[p].pinned = PageOf(m_tail) /\ Open(prod[p].new_page)
    BY <2>2 DEF Ordered, CreationOK, CreationPlaced
  <2>4. <<p, "end_block">> \in pinners[PageOf(m_tail)]
    BY <1>1, <2>3, Addresses, BaseAssumption DEF Ordered, CreationOK, CreationPlaced
  <2>5. prod[p].new_page \in ChainPages
    BY <2>3, PageStarts DEF Open, NothingMissing
  <2> QED
    BY <2>2, <2>4, <2>5 DEF PAt, Allocatable
<1> QED
  BY <1>2, <1>3

LEMMA PagesReached ==
    ASSUME NEW rank \in [Pages -> Nat], IInv, Ordered(rank), NothingMissing
    PROVE  PagesAccountedFor
<1>1. LinkedPages = ChainPages /\ NoPage \notin LinkedPages
  BY PageStarts, BaseAssumption DEF LinkedPages, NothingMissing
<1>2. \A q \in NewPages : q \in Pages /\ pool[q] = "queue"
  <2> SUFFICES ASSUME NEW p \in Producers, Creates(p)
               PROVE  prod[p].new_page \in Pages /\ pool[prod[p].new_page] = "queue"
    BY DEF NewPages, Creates
  <2> QED
    BY Typed DEF Creates, ProducerOK, Ordered, NewPagesBlank, NewPageBlank
<1>3. \A q \in LeftPages : q \in Pages /\ pool[q] = "queue"
  <2> SUFFICES ASSUME NEW c \in Consumers, Leaves(c)
               PROVE  PageOf(cons[c].control) \in Pages /\ pool[PageOf(cons[c].control)] = "queue"
    BY DEF LeftPages, Leaves
  <2>1. cons[c].control \in Block
    BY Typed DEF Leaves, ConsumerOK
  <2> QED
    BY <2>1, Addresses DEF NothingMissing, LeftApart
<1> QED
  BY <1>1, <1>2, <1>3 DEF PagesAccountedFor, LinkedPages

LEMMA PutsReached ==
    ASSUME NEW rank \in [Pages -> Nat], IInv, Ordered(rank), NothingMissing
    PROVE  PendingHolds
<1> SUFFICES ASSUME NEW p \in Producers, Putting(p)
             PROVE  /\ m_next[prod[p].control] = prod[p].next
                    /\ prod[p].control \in Chain
                    /\ pool[PageOf(prod[p].control)] = "queue"
                    /\ PAt(p, "pending") => content[prod[p].control] = <<p, prod[p].puts, 0>>
  BY DEF PendingHolds, Putting
<1>1. Inner(prod[p].control) /\ m_next[prod[p].control] = prod[p].next
  BY DEF Ordered, OwnersOK, PutterOwns
<1>2. prod[p].next.to \in Block
  BY Typed DEF ProducerOK, Putting
<1>3. prod[p].control \in Chain
  BY <1>1, <1>2, WrittenBlocks DEF NothingMissing
<1>4. pool[PageOf(prod[p].control)] = "queue"
  BY <1>1 DEF Inner, Live, LinkedPages
<1>5. PAt(p, "pending") => content[prod[p].control] = <<p, prod[p].puts, 0>>
  BY DEF Ordered, ElementsOK, PutElementOK, PAt
<1> QED
  BY <1>1, <1>3, <1>4, <1>5

---------------------------------------------------------------------------
(* What a step must leave alone for nothing to be missing after it *)

\* The blocks follow one another as before.
LEMMA TiledKept ==
    ASSUME Tiled, Kept, EndsKept, SpansKept
    PROVE  Tiled'
<1>1. /\ \A b : Inner(b)' <=> Inner(b)
      /\ \A x : TailSlot(x)' = TailSlot(x)
      /\ \A x : Open(x)' <=> Open(x)
      /\ First' = First
  BY LiveKept, OpenKept DEF Kept
<1> SUFFICES ASSUME NEW b \in Block, Inner(b), Begins(b)'
             PROVE  \/ \E e \in Block : Spans(b, e)'
                    \/ Open(PageOf(b)) /\ b[2] = TailSlot(PageOf(b))
  BY <1>1 DEF Tiled
<1>2. Begins(b)
  BY <1>1 DEF Begins, SpansKept
<1> QED
  BY <1>2 DEF Tiled, SpansKept

\* The blocks to be consumed and those being consumed keep their elements.
LEMMA LocatedStays ==
    ASSUME Located, \A e \in Element : status'[e] \in {"ready", "consuming"} => status[e] = status'[e],
           \A b \in Block : ReadyBlock(b) => ReadyBlock(b)' /\ content'[b] = content[b],
           \A c \in Consumers : Takes(c) =>
               Takes(c)' /\ content'[cons'[c].control] = content[cons[c].control]
    PROVE  Located'
<1> SUFFICES ASSUME NEW e \in Element PROVE ElementLocated(e)'
  BY DEF Located
<1>1. ElementLocated(e)
  BY DEF Located
<1> QED
  BY <1>1 DEF ElementLocated

\* The step is about one element.
LEMMA LocatedKept ==
    ASSUME Located, NEW i, \A e \in Element : e # i => status'[e] = status[e],
           \A b \in Block : ReadyBlock(b) /\ content[b] # <<i[1], i[2], 0>> =>
               ReadyBlock(b)' /\ content'[b] = content[b],
           \A c \in Consumers : Takes(c) /\ content[cons[c].control] # <<i[1], i[2], 0>> =>
               Takes(c)' /\ content'[cons'[c].control] = content[cons[c].control],
           i \in Element, ElementLocated(i)'
    PROVE  Located'
<1> SUFFICES ASSUME NEW e \in Element, e # i PROVE ElementLocated(e)'
  BY DEF Located
<1>1. ElementLocated(e) /\ status'[e] = status[e]
  BY DEF Located
<1>2. <<e[1], e[2], 0>> # <<i[1], i[2], 0>>
  BY DEF Element
<1> QED
  BY <1>1, <1>2 DEF ElementLocated

\* No consumer leaves a page.
LEMMA LeftKept ==
    ASSUME LeftApart,
           \A c \in Consumers : Leaves(c)' =>
               /\ Leaves(c) /\ cons'[c].control = cons[c].control
               /\ pool'[PageOf(cons[c].control)] = pool[PageOf(cons[c].control)]
    PROVE  LeftApart'
BY DEF LeftApart, SamePage

\* No word says that a page is the last one, unless it names no block.
LEMMA LinksKept ==
    ASSUME LinksValid,
           \A b \in Block : m_next'[b] = m_next[b] \/ m_next'[b].to = NoBlock
                            \/ "invalid_next_page" \notin m_next'[b].flags,
           \A p \in Producers : prod'[p].flags = prod[p].flags \/ "invalid_next_page" \notin prod'[p].flags
    PROVE  LinksValid'
BY DEF LinksValid

---------------------------------------------------------------------------
(* The steps of a consumer *)

\* A consumer reads and pins, or clears what the head has left.
LEMMA ConsumerLosesNothing ==
    ASSUME NEW rank, IInv, Ordered(rank), NothingMissing, UNCHANGED tailVars, Kept, status' = status,
           \A b \in Block : /\ Live(b) => m_next'[b] = m_next[b] /\ content'[b] = content[b]
                            /\ m_next'[b] \in {m_next[b], Zero},
           \A c \in Consumers : Takes(c) => Takes(c)' /\ cons'[c].control = cons[c].control,
           \A c \in Consumers : Leaves(c)' =>
               /\ Leaves(c) /\ cons'[c].control = cons[c].control
               /\ pool'[PageOf(cons[c].control)] = pool[PageOf(cons[c].control)]
    PROVE  NothingMissing'
<1>1. prod' = prod /\ Zero.to = NoBlock
  BY DEF tailVars, Zero
<1>2. \A b : Inner(b) => Live(b) /\ b \in Block
  BY DEF Inner, Live
<1>3. EndsKept
  BY EndsLive, Spots DEF EndsKept
<1>4. SpansKept
  BY <1>1, <1>2 DEF SpansKept, Spans, Reserving, ReservedEnd, PAt
<1>5. Tiled'
  BY <1>3, <1>4, TiledKept DEF NothingMissing
<1>6. Located'
  <2>1. \A b \in Block : ReadyBlock(b) => ReadyBlock(b)' /\ content'[b] = content[b]
    BY <1>2, LiveKept DEF ReadyBlock
  <2>2. \A c \in Consumers : Takes(c) =>
            Takes(c)' /\ content'[cons'[c].control] = content[cons[c].control]
    BY <1>2 DEF Ordered, OwnersOK, TakerOwns
  <2> QED
    BY <2>1, <2>2, LocatedStays DEF NothingMissing
<1>7. LeftApart' /\ LinksValid'
  BY <1>1, LeftKept, LinksKept DEF NothingMissing
<1> QED
  BY <1>5, <1>6, <1>7 DEF NothingMissing

\* The consumers that leave a page tell which pages are left.
LEMMA LeftPagesOf ==
    /\ \A q : q \in LeftPages <=> \E c \in Consumers : Leaves(c) /\ q = PageOf(cons[c].control)
    /\ \A q : q \in LeftPages' <=> \E c \in Consumers : Leaves(c)' /\ q = PageOf(cons'[c].control)
BY DEF LeftPages, Leaves

\* begin_iteration, move_next, and what ends a search.
LEMMA SearchMoves ==
    ASSUME NEW rank, IInv, Ordered(rank), UNCHANGED tailVars, NEW c \in Consumers,
           \/ LoadHead(c) \/ ReloadHead(c) \/ LoadInitialPage(c) \/ InitHead(c)
           \/ PinHead(c) \/ UnpinOld(c) \/ LoadHeadNext(c)
           \/ Start(c, "consume") \/ Start(c, "empty") \/ Return(c) \/ DestroyConsume(c)
           \/ MoveNext(c) \/ Reread(c) \/ UnpinLeft(c) \/ LoadNext(c)
           \/ TryBusy(c) /\ m_next[cons[c].control] # cons[c].next
           \/ AdvanceHead(c) /\ m_head # cons[c].control
    PROVE  /\ UNCHANGED <<m_next, content, pool, m_initial_page, status, heap>> /\ Kept
           /\ \A d \in Consumers \ {c} : cons'[d] = cons[d]
           /\ Free(cons[c].pc) /\ Free(cons'[c].pc)
<1> USE DEF LoadHead, ReloadHead, LoadInitialPage, InitHead, PinHead, UnpinOld, LoadHeadNext,
            Start, Return, DestroyConsume, MoveNext, Reread, UnpinLeft, LoadNext, TryBusy, AdvanceHead
<1>1. cons[c] \in Consume /\ cons \in [Consumers -> Consume]
  BY Typed DEF IInv, TypeOK, HeadTypeOK
<1>2. UNCHANGED <<m_next, content, pool, m_initial_page, status, heap>>
  BY DEF baseVars
<1>3. First' = First
  <2>1. CASE InitHead(c)
    <3>1. cons[c].target \in {NoBlock, FirstBlock(m_initial_page)}
      BY <2>1 DEF InitHead, At, Ordered, ConsumersPlaced, ConsumerPlaced
    <3> QED
      BY <1>2, <2>1, <3>1, Addresses DEF InitHead, First
  <2>2. CASE ~InitHead(c)
    BY <1>2, <2>2 DEF First
  <2> QED
    BY <2>1, <2>2
<1>4. \A d \in Consumers \ {c} : cons'[d] = cons[d]
  BY <1>1 DEF FollowHead, Goto, Enter
<1>5. Free(cons[c].pc)
  BY DEF At, Free
<1>6. Free(cons'[c].pc)
  <2>1. \A b : Free(AfterLoad(cons[c].mode, m_next[b]))
    BY <1>1 DEF AfterLoad, Consume, Mode, Free
  <2>2. Free(AfterLoad(cons[c].mode, Zero))
    BY <1>1 DEF AfterLoad, Consume, Mode, Free
  <2>3. \A b, n : Enter(c, b, n) => cons'[c].pc = AfterLoad(cons[c].mode, n)
    BY <1>1 DEF Enter, Consume
  <2>4. \A h : FollowHead(c, h) => cons'[c].pc \in {"load_head_next", "pin_head"}
    BY <1>1 DEF FollowHead, Consume
  <2>5. \A s : Goto(c, s) => cons'[c].pc = s
    BY <1>1 DEF Goto, Consume
  <2> HIDE DEF LoadHead, ReloadHead, LoadInitialPage, InitHead, PinHead, UnpinOld, LoadHeadNext,
               Start, Return, DestroyConsume, MoveNext, Reread, UnpinLeft, LoadNext, TryBusy, AdvanceHead
  <2>6. CASE LoadHead(c) \/ ReloadHead(c) \/ InitHead(c) \/ LoadHeadNext(c)
    BY <2>1, <2>2, <2>3, <2>4, <2>5, <2>6 DEF LoadHead, ReloadHead, InitHead, LoadHeadNext, Free
  <2>7. CASE LoadInitialPage(c) \/ PinHead(c) \/ UnpinOld(c)
    BY <1>1, <2>5, <2>7 DEF LoadInitialPage, PinHead, UnpinOld, Consume, Free
  <2>8. CASE Start(c, "consume") \/ Start(c, "empty") \/ Return(c) \/ DestroyConsume(c)
    BY <1>1, <2>8 DEF Start, Return, DestroyConsume, At, Consume, Free
  <2>9. CASE MoveNext(c) \/ Reread(c) \/ UnpinLeft(c) \/ LoadNext(c)
    BY <1>1, <2>1, <2>3, <2>5, <2>9 DEF MoveNext, Reread, UnpinLeft, LoadNext, Consume, Free
  <2>10. CASE TryBusy(c) /\ m_next[cons[c].control] # cons[c].next
    BY <1>1, <2>10 DEF TryBusy, Consume, Free
  <2>11. CASE AdvanceHead(c) /\ m_head # cons[c].control
    BY <2>5, <2>11 DEF AdvanceHead, Free
  <2> QED
    BY <2>6, <2>7, <2>8, <2>9, <2>10, <2>11
<1>7. \A d \in Consumers : (Leaves(d)' <=> Leaves(d)) /\ (Leaves(d) => cons'[d] = cons[d])
  BY <1>4, <1>5, <1>6 DEF Free, Leaves
<1>8. Kept
  <2>1. LeftPages' = LeftPages
    <3>1. \A q : q \in LeftPages' <=> q \in LeftPages
      BY <1>7, LeftPagesOf
    <3> QED
      BY <3>1 DEF LeftPages
  <2> QED
    BY <1>2, <1>3, <2>1 DEF Kept, LinkedPages, NewPages, tailVars
<1> QED
  BY <1>2, <1>4, <1>5, <1>6, <1>8

LEMMA SearchLosesNothing ==
    ASSUME NEW rank, IInv, Ordered(rank), NothingMissing, UNCHANGED tailVars, NEW c \in Consumers,
           \/ LoadHead(c) \/ ReloadHead(c) \/ LoadInitialPage(c) \/ InitHead(c)
           \/ PinHead(c) \/ UnpinOld(c) \/ LoadHeadNext(c)
           \/ Start(c, "consume") \/ Start(c, "empty") \/ Return(c) \/ DestroyConsume(c)
           \/ MoveNext(c) \/ Reread(c) \/ UnpinLeft(c) \/ LoadNext(c)
           \/ TryBusy(c) /\ m_next[cons[c].control] # cons[c].next
           \/ AdvanceHead(c) /\ m_head # cons[c].control
    PROVE  NothingMissing'
<1>1. /\ UNCHANGED <<m_next, content, pool, m_initial_page, status>> /\ Kept
      /\ \A d \in Consumers \ {c} : cons'[d] = cons[d]
      /\ Free(cons[c].pc) /\ Free(cons'[c].pc)
  BY SearchMoves
<1>2. \A d \in Consumers : /\ Takes(d) => Takes(d)' /\ cons'[d] = cons[d]
                           /\ Leaves(d)' <=> Leaves(d)
                           /\ Leaves(d) => cons'[d] = cons[d]
  BY <1>1 DEF Free, Takes, At, Leaves
<1> QED
  BY <1>1, <1>2, ConsumerLosesNothing

\* The rest of advance_head clears what the head has left.
LEMMA CleaningMoves ==
    ASSUME NEW rank, IInv, Ordered(rank), LeftApart, UNCHANGED tailVars, NEW c \in Consumers,
           FreeExternal(c) \/ ZeroControl(c) \/ Memset(c) \/ DeallocatePage(c)
    PROVE  /\ Kept /\ status' = status
           /\ cons[c] \in Consume /\ cons \in [Consumers -> Consume]
           /\ cons[c].control \in Block /\ cons[c].next.to \in Block /\ ~Live(cons[c].control)
           /\ cons[c].pc \in {"free_external", "zero", "memset", "free_page"}
           /\ cons'[c].control = cons[c].control /\ cons'[c].next = cons[c].next
           /\ \A d \in Consumers \ {c} : cons'[d] = cons[d]
           /\ \A x \in Block : /\ Live(x) => m_next'[x] = m_next[x] /\ content'[x] = content[x]
                               /\ m_next'[x] \in {m_next[x], Zero}
           /\ \A d \in Consumers : Leaves(d)' =>
                  Leaves(d) /\ cons'[d].control = cons[d].control
                  /\ pool'[PageOf(cons[d].control)] = pool[PageOf(cons[d].control)]
<1> PICK b, n : b = cons[c].control /\ n = cons[c].next
  OBVIOUS
<1>1. /\ cons[c] \in Consume /\ cons \in [Consumers -> Consume]
      /\ cons[c].pc \in {"free_external", "zero", "memset", "free_page"}
      /\ b \in Block /\ n.to \in Block /\ ConsumerPlaced(c) /\ ~Live(b)
  BY Typed DEF IInv, TypeOK, HeadTypeOK, FreeExternal, ZeroControl, Memset, DeallocatePage, At,
     ConsumerOK, Ordered, ConsumersPlaced, ConsumerPlaced
<1>2. /\ UNCHANGED <<m_initial_page, status, m_head>> /\ First' = First /\ NewPages' = NewPages
  BY DEF FreeExternal, ZeroControl, Memset, DeallocatePage, First, NewPages, tailVars
<1>3. \A d \in Consumers \ {c} : cons'[d] = cons[d]
  BY <1>1 DEF FreeExternal, ZeroControl, Memset, DeallocatePage, Goto
<1>4. /\ cons'[c].control = b /\ cons'[c].next = n
      /\ cons'[c].pc \in {"zero", "free_page"} /\ ~SamePage(b, n.to) => cons[c].pc = "zero"
      /\ cons[c].pc = "zero" /\ ~SamePage(b, n.to) => cons'[c].pc = "free_page"
      /\ DeallocatePage(c) => cons'[c].pc = "move"
  <2>1. CASE FreeExternal(c)
    <3>1. SamePage(b, n.to) /\ cons[c].pc = "free_external"
      BY <1>1, <2>1 DEF FreeExternal, At, ConsumerPlaced
    <3> QED
      BY <1>1, <2>1, <3>1 DEF FreeExternal, DeallocatePage, At, Goto, Consume
  <2>2. CASE ZeroControl(c)
    BY <1>1, <2>2 DEF ZeroControl, DeallocatePage, At, Goto, Consume
  <2>3. CASE Memset(c) \/ DeallocatePage(c)
    BY <1>1, <2>3 DEF Memset, DeallocatePage, At, Goto, Consume
  <2> QED
    BY <2>1, <2>2, <2>3
<1>5. /\ \A d \in Consumers \ {c} : Leaves(d)' <=> Leaves(d)
      /\ Leaves(c)' => Leaves(c)
      /\ ~DeallocatePage(c) => (Leaves(c) => Leaves(c)')
      /\ DeallocatePage(c) => cons[c].pc = "free_page" /\ Leaves(c) /\ ~Leaves(c)'
  <2>1. Leaves(c) /\ ~DeallocatePage(c) => cons[c].pc = "zero"
    BY <1>1 DEF Leaves, FreeExternal, ZeroControl, Memset, At
  <2>2. DeallocatePage(c) => cons[c].pc = "free_page" /\ ~SamePage(b, n.to)
    BY <1>1 DEF DeallocatePage, At, ConsumerPlaced
  <2> QED
    BY <1>3, <1>4, <2>1, <2>2 DEF Leaves
<1>6. /\ ~DeallocatePage(c) => pool' = pool
      /\ DeallocatePage(c) => /\ pool'[PageOf(b)] # "queue"
                              /\ \A q \in Pages \ {PageOf(b)} : pool'[q] = pool[q]
  <2>1. pool \in [Pages -> {"zeroed", "uninitialized", "queue"}]
    BY DEF IInv, TypeOK, BaseTypeOK
  <2> QED
    BY <1>1, <2>1, Spots DEF FreeExternal, ZeroControl, Memset, DeallocatePage
<1>7. \A d \in Consumers : Leaves(d)' =>
          Leaves(d) /\ cons'[d].control = cons[d].control
          /\ pool'[PageOf(cons[d].control)] = pool[PageOf(cons[d].control)]
  <2> SUFFICES ASSUME NEW d \in Consumers, Leaves(d)', DeallocatePage(c)
               PROVE  pool'[PageOf(cons[d].control)] = pool[PageOf(cons[d].control)]
    BY <1>3, <1>4, <1>5, <1>6
  <2>1. Leaves(d) /\ d # c /\ PageOf(cons[d].control) # PageOf(b)
    BY <1>5 DEF LeftApart, SamePage
  <2>2. PageOf(cons[d].control) \in Pages
    BY <2>1, Typed, Spots DEF Leaves, ConsumerOK
  <2> QED
    BY <1>6, <2>1, <2>2
<1>8. Kept
  <2>1. \A q \in Pages : q \in LinkedPages' <=> q \in LinkedPages
    <3> SUFFICES ASSUME NEW q \in Pages PROVE q \in LinkedPages' <=> q \in LinkedPages
      OBVIOUS
    <3>1. CASE ~DeallocatePage(c)
      <4>1. q \in LeftPages' <=> q \in LeftPages
        BY <1>3, <1>4, <1>5, <3>1, LeftPagesOf
      <4> QED
        BY <1>2, <1>6, <3>1, <4>1 DEF LinkedPages
    <3>2. CASE DeallocatePage(c) /\ q # PageOf(b)
      <4>1. q \in LeftPages' <=> q \in LeftPages
        BY <1>3, <1>4, <1>5, <3>2, LeftPagesOf
      <4> QED
        BY <1>2, <1>6, <3>2, <4>1 DEF LinkedPages
    <3>3. CASE DeallocatePage(c) /\ q = PageOf(b)
      <4>1. q \in LeftPages
        BY <1>5, <3>3, LeftPagesOf
      <4> QED
        BY <1>6, <3>3, <4>1 DEF LinkedPages
    <3> QED
      BY <3>1, <3>2, <3>3
  <2>2. LinkedPages' = LinkedPages
    BY <2>1 DEF LinkedPages
  <2> QED
    BY <1>2, <2>2 DEF Kept, tailVars
<1>9. \A x \in Block : /\ Live(x) => m_next'[x] = m_next[x] /\ content'[x] = content[x]
                       /\ m_next'[x] \in {m_next[x], Zero}
  <2>1. CASE FreeExternal(c) \/ DeallocatePage(c)
    BY <2>1 DEF FreeExternal, DeallocatePage
  <2>2. CASE ZeroControl(c)
    BY <1>1, <2>2 DEF ZeroControl, IInv, TypeOK, BaseTypeOK
  <2>3. CASE Memset(c)
    <3> SUFFICES ASSUME NEW x \in Block, Live(x), SamePage(x, b), x[2] \in b[2] .. (n.to[2] - 1)
                 PROVE  FALSE
      BY <2>3 DEF Memset
    <3>1. x[2] \in Nat /\ b[2] \in Nat /\ n.to[2] \in Nat /\ First[2] \in Nat
      BY <1>1, Spots, Typed
    <3>2. b[2] <= x[2] /\ x[2] < n.to[2] /\ PageOf(x) = PageOf(b)
      BY <3>1 DEF SamePage
    <3>3. PageOf(b) = PageOf(First) /\ ~(First[2] <= b[2])
      BY <1>1, <3>2 DEF Live
    <3>4. First[2] <= x[2]
      BY <3>2, <3>3 DEF Live
    <3>5. n.to[2] <= First[2]
      BY <1>1, <2>3, <3>3 DEF Memset, At, ConsumerPlaced
    <3> QED
      BY <3>1, <3>2, <3>4, <3>5
  <2> QED
    BY <2>1, <2>2, <2>3
<1> QED
  BY <1>1, <1>2, <1>3, <1>4, <1>7, <1>8, <1>9

LEMMA CleaningLosesNothing ==
    ASSUME NEW rank, IInv, Ordered(rank), NothingMissing, UNCHANGED tailVars, NEW c \in Consumers,
           FreeExternal(c) \/ ZeroControl(c) \/ Memset(c) \/ DeallocatePage(c)
    PROVE  NothingMissing'
<1>1. /\ Kept /\ status' = status
      /\ cons[c].pc \in {"free_external", "zero", "memset", "free_page"}
      /\ \A d \in Consumers \ {c} : cons'[d] = cons[d]
      /\ \A x \in Block : /\ Live(x) => m_next'[x] = m_next[x] /\ content'[x] = content[x]
                          /\ m_next'[x] \in {m_next[x], Zero}
      /\ \A d \in Consumers : Leaves(d)' =>
             Leaves(d) /\ cons'[d].control = cons[d].control
             /\ pool'[PageOf(cons[d].control)] = pool[PageOf(cons[d].control)]
  BY CleaningMoves DEF NothingMissing
<1>2. \A d \in Consumers : Takes(d) => Takes(d)' /\ cons'[d].control = cons[d].control
  BY <1>1 DEF Takes, At
<1> QED
  BY <1>1, <1>2, ConsumerLosesNothing

\* The head moves past a block.
LEMMA AdvanceLosesNothing ==
    ASSUME NEW rank \in [Pages -> Nat], IInv, Ordered(rank), NothingMissing, UNCHANGED tailVars,
           NEW c \in Consumers, ZeroedPages, AdvanceHead(c), m_head = cons[c].control
    PROVE  NothingMissing'
<1> PICK b, n : b = cons[c].control /\ n = cons[c].next
  OBVIOUS
<1>1. /\ cons[c] \in Consume /\ cons \in [Consumers -> Consume] /\ At(c, "advance")
      /\ cons[c].pc = "advance"
  BY Typed DEF IInv, TypeOK, HeadTypeOK, AdvanceHead, At
<1>2. /\ b = First /\ b \in Block /\ n.to \in Block /\ n \in NextPtr /\ IsDead(n)
      /\ Live(b) /\ m_next[b] = n
      /\ SamePage(b, n.to) => Inner(b)
      /\ ~SamePage(b, n.to) => n.flags = {"dead"} /\ \E y \in LinkedPages : n.to = FirstBlock(y)
  BY <1>1, HeadWord
<1>3. /\ \A d \in Consumers \ {c} : cons'[d] = cons[d]
      /\ cons'[c].control = b /\ cons'[c].next = n
      /\ cons'[c].pc = IF "external" \in n.flags THEN "free_external" ELSE "zero"
      /\ m_head' = n.to /\ UNCHANGED baseVars
  BY <1>1 DEF AdvanceHead, AfterAdvance, Goto, Consume
<1>4. /\ \A x : Open(x)' <=> Open(x)
      /\ \A a : Inner(a)' => Inner(a)
      /\ \A a, g \in Block : Inner(a) /\ Spans(a, g) /\ a # b => Inner(a)'
      /\ First' = n.to
  <2>1. (cons'[c].pc = "free_external" /\ SamePage(b, n.to)) \/ cons'[c].pc = "zero"
    BY <1>2, <1>3
  <2> QED
    BY <1>1, <1>3, <2>1, HeadLeaves
<1>5. UNCHANGED <<m_next, content, pool, status>> /\ prod' = prod /\ m_tail' = m_tail
  BY <1>3 DEF baseVars, tailVars
<1>6. Tiled'
  <2>1. \A a, e : Spans(a, e)' <=> Spans(a, e)
    BY <1>5 DEF Spans, Reserving, ReservedEnd, PAt
  <2>2. \A x : TailSlot(x)' = TailSlot(x)
    BY <1>5 DEF TailSlot
  <2>3. n.to[2] = 0 \/ (Inner(b) /\ Spans(b, n.to))
    BY <1>2 DEF Spans, FirstBlock
  <2>4. ASSUME NEW a \in Block, Begins(a)' PROVE Begins(a)
    BY <1>4, <2>1, <2>3, <2>4, <1>2 DEF Begins
  <2> QED
    BY <1>4, <2>1, <2>2, <2>4 DEF NothingMissing, Tiled
<1>7. Located'
  <2>1. \A a \in Block : ReadyBlock(a) => ReadyBlock(a)' /\ content'[a] = content[a]
    <3> SUFFICES ASSUME NEW a \in Block, ReadyBlock(a) PROVE Inner(a)'
      BY <1>5 DEF ReadyBlock
    <3>1. a # b /\ Inner(a) /\ Spans(a, m_next[a].to) /\ m_next[a].to \in Block
      BY <1>2 DEF ReadyBlock, IsDead, Spans
    <3> QED
      BY <1>4, <3>1
  <2>2. \A d \in Consumers : Takes(d) => Takes(d)' /\ content'[cons'[d].control] = content[cons[d].control]
    BY <1>1, <1>3, <1>5 DEF Takes, At
  <2> QED
    BY <1>5, <2>1, <2>2, LocatedStays DEF NothingMissing
<1>8. LeftApart'
  <2>1. /\ \A d \in Consumers \ {c} : Leaves(d)' <=> Leaves(d)
        /\ \A d \in Consumers : cons'[d].control = cons[d].control
    BY <1>3 DEF Leaves
  <2>2. PageOf(b) \in LinkedPages /\ ~Leaves(c)
    BY <1>1, <1>2 DEF Live, Leaves
  <2>3. pool[PageOf(b)] = "queue" /\ PageOf(b) \notin LeftPages
    BY <2>2 DEF LinkedPages
  <2>4. \A d \in Consumers : Leaves(d) => PageOf(cons[d].control) # PageOf(b)
    BY <2>3, LeftPagesOf
  <2> QED
    BY <1>5, <2>1, <2>3, <2>4 DEF NothingMissing, LeftApart, SamePage
<1>9. LinksValid'
  BY <1>5, LinksKept DEF NothingMissing
<1> QED
  BY <1>6, <1>7, <1>8, <1>9 DEF NothingMissing

\* The flags of one block change: it is taken, consumed or put back.
LEMMA FlagsLoseNothing ==
    ASSUME NEW rank, IInv, Ordered(rank), NothingMissing, UNCHANGED <<tailVars, m_head, m_initial_page>>,
           UNCHANGED <<content, pool>>, NEW c \in Consumers, \A d \in Consumers \ {c} : cons'[d] = cons[d],
           cons[c].pc \in {"try_busy", "consuming"},
           cons'[c].pc \in {"consuming", "advance", "idle"},
           NEW b \in Block, Inner(b), m_next'[b].to = m_next[b].to,
           "invalid_next_page" \notin m_next'[b].flags,
           \A a \in Block \ {b} : m_next'[a] = m_next[a],
           cons[c].control = b, Holds(b, "ready") \/ Holds(b, "consuming"),
           NEW s, status' = [status EXCEPT ![ElementOf(content[b])] = s],
           \/ s \notin {"ready", "consuming"}
           \/ s = "ready" /\ ReadyBlock(b)'
           \/ s = "consuming" /\ Takes(c)' /\ cons'[c].control = b
    PROVE  NothingMissing'
<1>1. prod' = prod /\ m_tail' = m_tail /\ content' = content /\ pool' = pool
  BY DEF tailVars
<1>2. PICK i : i = ElementOf(content[b])
  OBVIOUS
<1>3. /\ i \in Element /\ content[b] = <<i[1], i[2], 0>>
      /\ status'[i] = s /\ \A e \in Element : e # i => status'[e] = status[e]
  <2>1. content[b] \in Item /\ content[b][3] = 0 /\ status \in [Element -> Status]
    BY DEF Holds, IInv, TypeOK, BaseTypeOK
  <2>2. i \in Element
    BY <1>2, <2>1, ElementItems
  <2>3. content[b] = <<i[1], i[2], 0>>
    BY <1>2, <2>1 DEF Item, ElementOf
  <2> QED
    BY <1>2, <2>1, <2>2, <2>3
<1>4. /\ \A d \in Consumers : Leaves(d)' <=> Leaves(d)
      /\ \A d \in Consumers : Leaves(d) => cons'[d] = cons[d]
  BY DEF Leaves
<1>5. Kept
  <2>1. LeftPages' = LeftPages
    <3>1. \A q : q \in LeftPages' <=> q \in LeftPages
      BY <1>4, LeftPagesOf
    <3> QED
      BY <3>1 DEF LeftPages
  <2> QED
    BY <1>1, <2>1 DEF Kept, LinkedPages, NewPages, First
<1>6. \A a : Inner(a)' <=> Inner(a)
  BY <1>5, LiveKept
<1>7. Tiled'
  <2>1. EndsKept
    <3>1. \A x \in LinkedPages : End(x) \in Block /\ End(x) # b
      BY EndsLive, Spots
    <3> QED
      BY <3>1 DEF EndsKept
  <2>2. \A a \in Block : m_next'[a].to = m_next[a].to
    OBVIOUS
  <2>3. SpansKept
    BY <1>1, <2>2 DEF SpansKept, Spans, Reserving, ReservedEnd, PAt
  <2> QED
    BY <1>5, <2>1, <2>3, TiledKept DEF NothingMissing
<1>8. Located'
  <2>1. \A a \in Block : ReadyBlock(a) /\ content[a] # <<i[1], i[2], 0>> =>
            ReadyBlock(a)' /\ content'[a] = content[a]
    BY <1>1, <1>3, <1>6 DEF ReadyBlock
  <2>2. \A d \in Consumers : Takes(d) /\ content[cons[d].control] # <<i[1], i[2], 0>> =>
            Takes(d)' /\ content'[cons'[d].control] = content[cons[d].control]
    BY <1>1, <1>3 DEF Takes, At
  <2>3. ElementLocated(i)'
    BY <1>1, <1>3 DEF ElementLocated
  <2> QED
    BY <1>3, <2>1, <2>2, <2>3, LocatedKept DEF NothingMissing
<1>9. LeftApart' /\ LinksValid'
  <2>1. LeftApart'
    BY <1>1, <1>4, LeftKept DEF NothingMissing
  <2>2. LinksValid'
    BY <1>1, LinksKept DEF NothingMissing
  <2> QED
    BY <2>1, <2>2
<1> QED
  BY <1>7, <1>8, <1>9 DEF NothingMissing

\* An element is taken.
LEMMA TryBusyLosesNothing ==
    ASSUME NEW rank, IInv, Ordered(rank), NothingMissing, UNCHANGED tailVars, NEW c \in Consumers,
           TryBusy(c), m_next[cons[c].control] = cons[c].next
    PROVE  NothingMissing'
<1> PICK b, n : b = cons[c].control /\ n = cons[c].next
  OBVIOUS
<1>1. /\ cons[c] \in Consume /\ cons \in [Consumers -> Consume] /\ cons[c].pc = "try_busy"
      /\ b \in Block /\ n.to \in Block /\ n \in NextPtr /\ Consumable(n) /\ m_next[b] = n
      /\ m_next \in [Block -> NextPtr]
  BY Typed DEF IInv, TypeOK, BaseTypeOK, HeadTypeOK, TryBusy, At, ConsumerOK, Consume, Ordered,
     ConsumersPlaced, ConsumerPlaced
<1>2. Inner(b) /\ Holds(b, "ready")
  BY <1>1, ReadyFound DEF ReadyBlock, Ordered, ElementsOK
<1>3. /\ m_next' = [m_next EXCEPT ![b].flags = @ \cup {"busy"}]
      /\ cons' = [cons EXCEPT ![c].pc = "consuming", ![c].next.flags = @ \cup {"dead"}]
      /\ status' = [status EXCEPT ![ElementOf(content[b])] = "consuming"]
      /\ UNCHANGED <<content, pool, m_initial_page, m_head>>
  BY <1>1 DEF TryBusy
<1>4. /\ m_next'[b].to = m_next[b].to /\ m_next'[b].flags = n.flags \cup {"busy"}
      /\ \A a \in Block \ {b} : m_next'[a] = m_next[a]
  BY <1>1, <1>3 DEF NextPtr
<1>5. "invalid_next_page" \notin m_next'[b].flags
  BY <1>1, <1>4 DEF Consumable
<1>6. /\ \A d \in Consumers \ {c} : cons'[d] = cons[d]
      /\ cons'[c].pc = "consuming" /\ cons'[c].control = b
  BY <1>1, <1>3 DEF Consume
<1> QED
  BY <1>1, <1>2, <1>3, <1>4, <1>5, <1>6, FlagsLoseNothing DEF Takes, At

\* A consume operation ends.
LEMMA ReleaseLosesNothing ==
    ASSUME NEW rank, IInv, Ordered(rank), NothingMissing, UNCHANGED tailVars, NEW c \in Consumers,
           CommitConsume(c) \/ CancelConsume(c)
    PROVE  NothingMissing'
<1> PICK b, n : b = cons[c].control /\ n = cons[c].next
  OBVIOUS
<1>1. /\ cons[c] \in Consume /\ cons \in [Consumers -> Consume] /\ cons[c].pc = "consuming"
      /\ b \in Block /\ n.to \in Block /\ n \in NextPtr /\ Takes(c)
      /\ m_next \in [Block -> NextPtr]
  BY Typed DEF IInv, TypeOK, BaseTypeOK, HeadTypeOK, CommitConsume, CancelConsume, At, ConsumerOK, Consume, Takes
<1>2. /\ Inner(b) /\ m_next[b] = TakenWord(c) /\ "busy" \notin n.flags
      /\ Holds(b, "consuming") /\ m_next[b].to = n.to
  BY <1>1 DEF Ordered, OwnersOK, TakerOwns, ElementsOK, TakenWord, NextWord
<1>3. "invalid_next_page" \notin n.flags
  <2>1. "invalid_next_page" \notin m_next[b].flags
    BY <1>1, <1>2, Addresses DEF NothingMissing, LinksValid
  <2> QED
    BY <1>2, <2>1 DEF TakenWord, NextWord
<1>4. /\ UNCHANGED <<content, pool, m_initial_page, m_head>>
      /\ \A d \in Consumers \ {c} : cons'[d] = cons[d]
      /\ cons'[c].pc \in {"advance", "idle"}
  BY <1>1 DEF CommitConsume, CancelConsume, Consume
<1>5. CASE CommitConsume(c)
  <2> PICK s : s = "consumed"
    OBVIOUS
  <2>1. /\ status' = [status EXCEPT ![ElementOf(content[b])] = s] /\ s # "ready" /\ s # "consuming"
        /\ m_next'[b] = n /\ \A a \in Block \ {b} : m_next'[a] = m_next[a]
    BY <1>1, <1>5 DEF CommitConsume
  <2>2. m_next'[b].to = m_next[b].to /\ "invalid_next_page" \notin m_next'[b].flags
    BY <1>2, <1>3, <2>1
  <2>3. cons[c].pc \in {"try_busy", "consuming"} /\ cons'[c].pc \in {"consuming", "advance", "idle"}
        /\ b \in Block /\ cons[c].control = b /\ Inner(b) /\ Holds(b, "consuming")
    BY <1>1, <1>2, <1>4
  <2> QED
    BY <1>4, <2>1, <2>2, <2>3, FlagsLoseNothing DEF Takes, At
<1>6. CASE CancelConsume(c)
  <2>1. /\ status' = [status EXCEPT ![ElementOf(content[b])] = "ready"]
        /\ m_next'[b] = NextWord(n.to, n.flags \ {"dead"})
        /\ \A a \in Block \ {b} : m_next'[a] = m_next[a]
    BY <1>1, <1>6 DEF CancelConsume
  <2>2. /\ m_next'[b].to = n.to /\ m_next'[b].flags = n.flags \ {"dead"}
        /\ "invalid_next_page" \notin m_next'[b].flags
        /\ m_next'[b].flags \cap {"busy", "dead"} = {}
    BY <1>2, <1>3, <2>1 DEF NextWord
  <2>3. Inner(b)'
    <3>1. LeftPages' = LeftPages
      <4>1. \A d \in Consumers : (Leaves(d)' <=> Leaves(d)) /\ (Leaves(d) => cons'[d] = cons[d])
        BY <1>1, <1>4 DEF Leaves
      <4>2. \A q : q \in LeftPages' <=> q \in LeftPages
        BY <4>1, LeftPagesOf
      <4> QED
        BY <4>2 DEF LeftPages
    <3>2. LinkedPages' = LinkedPages /\ First' = First
      BY <1>4, <3>1 DEF LinkedPages, NewPages, First, tailVars
    <3> QED
      BY <1>2, <3>2, PlaceKept
  <2>4. ReadyBlock(b)'
    BY <1>1, <2>2, <2>3 DEF ReadyBlock
  <2>5. cons[c].pc \in {"try_busy", "consuming"} /\ cons'[c].pc \in {"consuming", "advance", "idle"}
        /\ b \in Block /\ cons[c].control = b /\ Inner(b) /\ Holds(b, "consuming")
        /\ m_next'[b].to = m_next[b].to
    BY <1>1, <1>2, <1>4, <2>2
  <2> QED
    BY <1>4, <2>1, <2>2, <2>4, <2>5, FlagsLoseNothing
<1> QED
  BY <1>5, <1>6

\* Every step of a consumer.
LEMMA ConsumerKeepsAll ==
    ASSUME NEW rank \in [Pages -> Nat], IInv, Ordered(rank), NothingMissing, UNCHANGED tailVars,
           NEW c \in Consumers, ZeroedPages, ConsumerNext(c)
    PROVE  NothingMissing'
<1>1. CASE TryBusy(c)
  BY <1>1, TryBusyLosesNothing, SearchLosesNothing
<1>2. CASE AdvanceHead(c)
  BY <1>2, AdvanceLosesNothing, SearchLosesNothing
<1>3. CASE CommitConsume(c) \/ CancelConsume(c)
  BY <1>3, ReleaseLosesNothing
<1>4. CASE FreeExternal(c) \/ ZeroControl(c) \/ Memset(c) \/ DeallocatePage(c)
  BY <1>4, CleaningLosesNothing
<1>5. CASE \/ LoadHead(c) \/ ReloadHead(c) \/ LoadInitialPage(c) \/ InitHead(c)
           \/ PinHead(c) \/ UnpinOld(c) \/ LoadHeadNext(c)
           \/ Start(c, "consume") \/ Start(c, "empty") \/ Return(c) \/ DestroyConsume(c)
           \/ MoveNext(c) \/ Reread(c) \/ UnpinLeft(c) \/ LoadNext(c)
  BY <1>5, SearchLosesNothing
<1> QED
  BY <1>1, <1>2, <1>3, <1>4, <1>5 DEF ConsumerNext, ConsumerStep

---------------------------------------------------------------------------
(* The steps of a producer *)

\* The producers' steps that keep the head and the pages that are linked: what
\* is left to show of one.
LEMMA PutKeepsRest ==
    ASSUME NothingMissing, Kept, EndsKept, SpansKept, cons' = cons, Located',
           \A b \in Block : \/ m_next'[b] = m_next[b]
                            \/ m_next'[b].to = NoBlock
                            \/ "invalid_next_page" \notin m_next'[b].flags,
           \A p \in Producers : prod'[p].flags = prod[p].flags \/ "invalid_next_page" \notin prod'[p].flags,
           \A c \in Consumers : Leaves(c) =>
               pool'[PageOf(cons[c].control)] = pool[PageOf(cons[c].control)]
    PROVE  NothingMissing'
<1>1. Tiled'
  BY TiledKept DEF NothingMissing
<1>2. LeftApart'
  <2>1. \A c \in Consumers : Leaves(c)' <=> Leaves(c)
    BY DEF Leaves
  <2> QED
    BY <2>1, LeftKept DEF NothingMissing
<1>3. LinksValid'
  BY LinksKept DEF NothingMissing
<1> QED
  BY <1>1, <1>2, <1>3 DEF NothingMissing

\* A producer goes on, gets a page of its own, or gives it back.
LEMMA PutLosesNothing ==
    ASSUME NEW rank, IInv, Ordered(rank), NothingMissing,
           UNCHANGED <<m_head, cons, m_initial_page, m_tail, content, status>>, LinkedPages' = LinkedPages,
           NEW p \in Producers, \A q \in Producers \ {p} : prod'[q] = prod[q],
           ~Reserves(prod[p].pc), ~Reserves(prod'[p].pc),
           prod'[p].flags = prod[p].flags \/ "invalid_next_page" \notin prod'[p].flags,
           \A b \in Block : PageOf(b) \in LinkedPages => m_next'[b] = m_next[b],
           \A b \in Block : m_next'[b] = m_next[b] \/ m_next'[b].to = NoBlock,
           \A c \in Consumers : Leaves(c) =>
               pool'[PageOf(cons[c].control)] = pool[PageOf(cons[c].control)]
    PROVE  NothingMissing'
<1>1. Kept
  BY DEF Kept, First
<1>2. /\ \A b : Inner(b)' <=> Inner(b)
      /\ \A b : Inner(b) => b \in Block /\ PageOf(b) \in LinkedPages
  BY <1>1, LiveKept DEF Inner, Live
<1>3. EndsKept
  BY Spots DEF EndsKept, LinkedPages
<1>4. SpansKept
  BY <1>2, ReservationsStay
<1>5. Located'
  <2>1. \A b \in Block : ReadyBlock(b) => ReadyBlock(b)'
    BY <1>2 DEF ReadyBlock
  <2>2. \A c \in Consumers : Takes(c) => Takes(c)'
    BY DEF Takes, At
  <2> QED
    BY <2>1, <2>2, LocatedStays DEF NothingMissing
<1>6. \A q \in Producers : prod'[q].flags = prod[q].flags \/ "invalid_next_page" \notin prod'[q].flags
  OBVIOUS
<1> QED
  BY <1>1, <1>3, <1>4, <1>5, <1>6, PutKeepsRest

\* Nothing is written.
LEMMA QuietPut ==
    ASSUME NEW rank, IInv, Ordered(rank), NothingMissing,
           UNCHANGED <<m_head, cons, m_initial_page, m_tail>>,
           UNCHANGED <<m_next, content, pool, status>>,
           NEW p \in Producers, \A q \in Producers \ {p} : prod'[q] = prod[q],
           ~Reserves(prod[p].pc), ~Reserves(prod'[p].pc),
           Created(prod'[p].pc) <=> Created(prod[p].pc),
           Created(prod[p].pc) => prod'[p].new_page = prod[p].new_page,
           prod'[p].flags = prod[p].flags \/ "invalid_next_page" \notin prod'[p].flags
    PROVE  NothingMissing'
<1>1. NewPages' = NewPages
  BY NewPagesKept
<1>2. LinkedPages' = LinkedPages
  BY <1>1 DEF LinkedPages, LeftPages
<1> QED
  BY <1>2, PutLosesNothing

\* Starting an allocation, and giving up.
LEMMA StartsLoseNothing ==
    ASSUME NEW rank, IInv, Ordered(rank), NothingMissing, UNCHANGED headVars, NEW p \in Producers,
           \/ \E size \in Sizes, g \in Guarantees : StartPut(p, size, g)
           \/ \E size \in Sizes : RawAllocate(p, size)
           \/ GiveUp(p)
    PROVE  NothingMissing'
<1>1. prod[p] \in Producer /\ prod \in [Producers -> Producer]
  BY Typed DEF IInv, TypeOK, TailTypeOK
<1>2. /\ UNCHANGED <<m_head, cons, m_initial_page, m_tail>>
      /\ UNCHANGED <<m_next, content, pool, status>>
  BY DEF headVars, StartPut, RawAllocate, GiveUp
<1>3. CASE \E size \in Sizes, g \in Guarantees : StartPut(p, size, g)
  <2>1. PICK size \in Sizes, g \in Guarantees : StartPut(p, size, g)
    BY <1>3
  <2> DEFINE f == IF External(size) THEN {"busy"} \cup {"external"} ELSE {"busy"}
             s == IF External(size) THEN 1 ELSE size
  <2>2. prod' = [prod EXCEPT ![p] = [[NewProducer EXCEPT !.puts = prod[p].puts + 1, !.guarantee = g]
                                       EXCEPT !.pc = "load_tail", !.size = s, !.flags = f]]
    BY <2>1 DEF StartPut, Allocate
  <2>3. "invalid_next_page" \notin f
    OBVIOUS
  <2> HIDE DEF f, s
  <2>4. /\ \A q \in Producers \ {p} : prod'[q] = prod[q]
        /\ prod[p].pc = "idle" /\ prod'[p].pc = "load_tail" /\ prod'[p].flags = f
    BY <1>1, <2>1, <2>2 DEF StartPut, PAt, NewProducer
  <2> QED
    BY <1>2, <2>3, <2>4, QuietPut DEF Reserves, Created
<1>4. CASE \E size \in Sizes : RawAllocate(p, size)
  <2>1. PICK size \in Sizes : RawAllocate(p, size)
    BY <1>4
  <2> DEFINE f == IF External(size) THEN {"dead"} \cup {"external"} ELSE {"dead"}
             s == IF External(size) THEN 1 ELSE size
  <2>2. prod' = [prod EXCEPT ![p] = [[prod[p] EXCEPT !.raws = prod[p].raws + 1]
                                       EXCEPT !.pc = "load_tail", !.size = s, !.flags = f]]
    BY <2>1 DEF RawAllocate, Allocate
  <2>3. "invalid_next_page" \notin f
    OBVIOUS
  <2> HIDE DEF f, s
  <2>4. /\ \A q \in Producers \ {p} : prod'[q] = prod[q]
        /\ prod[p].pc = "pending" /\ prod'[p].pc = "load_tail" /\ prod'[p].flags = f
    BY <1>1, <2>1, <2>2 DEF RawAllocate, PAt, Producer
  <2> QED
    BY <1>2, <2>3, <2>4, QuietPut DEF Reserves, Created
<1>5. CASE GiveUp(p)
  <2>1. /\ \A q \in Producers \ {p} : prod'[q] = prod[q]
        /\ prod[p].pc = "give_up" /\ prod'[p].pc \in {"idle", "pending"}
        /\ prod'[p].flags = {}
    BY <1>1, <1>5 DEF GiveUp, Fail, PAt, Done, NewProducer, Producer
  <2> QED
    BY <1>2, <2>1, QuietPut DEF Reserves, Created
<1> QED
  BY <1>3, <1>4, <1>5

\* The allocation loop, with the end block of a page pinned or not.
LEMMA LoopLosesNothing ==
    ASSUME NEW rank, IInv, Ordered(rank), NothingMissing, UNCHANGED headVars, NEW p \in Producers,
           \/ LoadTail(p) \/ PinEnd(p) \/ CreatePageFails(p) \/ UnpinEnd(p) \/ UnpinFailed(p)
           \/ PAt(p, "try") /\ (\E b, k : Retry(p, b, k)) /\ UNCHANGED <<baseVars, m_tail, m_rest>>
           \/ PAt(p, "try") /\ PGoto(p, "give_up") /\ UNCHANGED <<baseVars, m_tail, m_rest>>
    PROVE  NothingMissing'
<1>1. prod[p] \in Producer /\ prod \in [Producers -> Producer]
  BY Typed DEF IInv, TypeOK, TailTypeOK
<1>2. /\ UNCHANGED <<m_head, cons, m_initial_page, m_tail>>
      /\ UNCHANGED <<m_next, content, pool, status>>
  BY DEF headVars, baseVars, LoadTail, PinEnd, CreatePageFails, UnpinEnd, UnpinFailed
<1>3. prod[p].pc \in {"load_tail", "try", "create_page", "unpin_end", "unpin_failed"}
  BY DEF LoadTail, PinEnd, CreatePageFails, Creating, UnpinEnd, UnpinFailed, PAt
<1>4. /\ \A q \in Producers \ {p} : prod'[q] = prod[q]
      /\ prod'[p].pc \in {"try", "recheck", "give_up", "unpin_failed"}
      /\ prod'[p].flags = prod[p].flags
  <2>1. CASE LoadTail(p) \/ (PAt(p, "try") /\ \E b, k : Retry(p, b, k))
    <3>1. PICK b, k : Retry(p, b, k)
      BY <2>1 DEF LoadTail
    <3> QED
      BY <1>1, <3>1 DEF Retry, Producer
  <2>2. CASE PinEnd(p) \/ CreatePageFails(p) \/ PGoto(p, "give_up")
    BY <1>1, <2>2 DEF PinEnd, CreatePageFails, PGoto, Producer
  <2>3. CASE UnpinEnd(p) \/ UnpinFailed(p)
    BY <1>1, <2>3 DEF UnpinEnd, UnpinFailed, Producer
  <2> QED
    BY <2>1, <2>2, <2>3
<1> QED
  BY <1>2, <1>3, <1>4, QuietPut DEF Reserves, Created

\* Another producer has been faster.
LEMMA OvertakenLosesNothing ==
    ASSUME NEW rank, IInv, Ordered(rank), NothingMissing, UNCHANGED headVars, m_rest = 0, NEW p \in Producers,
           \/ RecheckTail(p)
           \/ LinkPage(p) /\ m_next[prod[p].tail] # InvalidNextPage
           \/ AdvanceTail(p) /\ m_tail # prod[p].tail
           \/ InitPage(p) /\ m_initial_page # NoPage
           \/ InitTail(p) /\ m_tail # InvalidBlock
    PROVE  NothingMissing'
<1>1. prod[p] \in Producer /\ prod \in [Producers -> Producer]
  BY Typed DEF IInv, TypeOK, TailTypeOK
<1>2. /\ UNCHANGED <<m_head, cons, m_initial_page, m_tail>>
      /\ UNCHANGED <<m_next, content, pool, status>>
  BY DEF headVars, baseVars, RecheckTail, LinkPage, AdvanceTail, InitPage, InitTail, TailIs
<1>3. /\ \A q \in Producers \ {p} : prod'[q] = prod[q]
      /\ prod'[p].flags = prod[p].flags
      /\ \/ /\ prod[p].pc \in {"recheck", "advance_tail", "init_tail"}
            /\ prod'[p].pc \in {"create_page", "unpin_end", "try"}
         \/ /\ prod[p].pc \in {"link_page", "init_page"}
            /\ prod'[p].pc \in {"discard_page", "discard_initial"}
            /\ prod'[p].new_page = prod[p].new_page
  <2>1. CASE RecheckTail(p)
    BY <1>1, <2>1 DEF RecheckTail, PAt, PGoto, Producer
  <2>2. CASE LinkPage(p) /\ m_next[prod[p].tail] # InvalidNextPage
    BY <1>1, <2>2 DEF LinkPage, PAt, Producer
  <2>3. CASE AdvanceTail(p) \/ InitTail(p)
    BY <1>1, <2>3 DEF AdvanceTail, InitTail, PAt, Producer
  <2>4. CASE InitPage(p) /\ m_initial_page # NoPage
    BY <1>1, <2>4 DEF InitPage, PAt, Producer
  <2> QED
    BY <2>1, <2>2, <2>3, <2>4
<1>4. CASE prod[p].pc \in {"recheck", "advance_tail", "init_tail"}
  BY <1>2, <1>3, <1>4, QuietPut DEF Reserves, Created
<1>5. CASE prod[p].pc \in {"link_page", "init_page"}
  BY <1>2, <1>3, <1>5, QuietPut DEF Reserves, Created
<1> QED
  BY <1>3, <1>4, <1>5

\* A page of its own is none that a consumer is about to give back.
LEMMA CreatePageLosesNothing ==
    ASSUME NEW rank, IInv, Ordered(rank), NothingMissing, UNCHANGED headVars, NEW p \in Producers, CreatePage(p)
    PROVE  NothingMissing'
<1>1. UNCHANGED <<m_head, cons, m_initial_page, m_tail, content, status>>
  BY DEF headVars, CreatePage
<1>2. PICK q \in Pages :
         /\ \A r \in Producers \ {p} : prod'[r] = prod[r]
         /\ prod'[p].flags = prod[p].flags
         /\ prod[p].pc \in {"try", "create_page"} /\ prod'[p].pc \in {"init_page", "link_page"}
         /\ q \notin LinkedPages
         /\ pool[q] = "zeroed" /\ \A y \in Pages \ {q} : pool'[y] = pool[y]
         /\ LinkedPages' = LinkedPages
         /\ \A b \in Block : PageOf(b) # q => m_next'[b] = m_next[b]
         /\ \A b \in Block : PageOf(b) = q =>
               m_next'[b] = IF b[2] < EndSlot THEN Zero ELSE InvalidNextPage
  BY PageCreated
<1>3. \A c \in Consumers : Leaves(c) => pool'[PageOf(cons[c].control)] = pool[PageOf(cons[c].control)]
  <2> SUFFICES ASSUME NEW c \in Consumers, Leaves(c)
               PROVE  pool'[PageOf(cons[c].control)] = pool[PageOf(cons[c].control)]
    OBVIOUS
  <2>1. pool[PageOf(cons[c].control)] = "queue"
    BY DEF NothingMissing, LeftApart
  <2>2. PageOf(cons[c].control) \in Pages
    BY Typed, Spots DEF Leaves, ConsumerOK
  <2> QED
    BY <1>2, <2>1, <2>2
<1>4. \A b \in Block : m_next'[b] = m_next[b] \/ m_next'[b].to = NoBlock
  BY <1>2 DEF Zero, InvalidNextPage
<1> QED
  BY <1>1, <1>2, <1>3, <1>4, PutLosesNothing DEF Reserves

LEMMA DiscardsLoseNothing ==
    ASSUME NEW rank, IInv, Ordered(rank), NothingMissing, UNCHANGED headVars, NEW p \in Producers,
           DiscardPage(p) \/ DiscardInitial(p)
    PROVE  NothingMissing'
<1>1. UNCHANGED <<m_head, cons, m_initial_page, m_tail, content, status>>
  BY DEF headVars, DiscardPage, DiscardInitial
<1>2. PICK q : q = prod[p].new_page
  OBVIOUS
<1>3. /\ \A r \in Producers \ {p} : prod'[r] = prod[r]
      /\ prod'[p].flags = prod[p].flags
      /\ prod[p].pc \in {"discard_page", "discard_initial"}
      /\ prod'[p].pc \in {"unpin_end", "advance_tail", "init_tail"}
      /\ q \in NewPages /\ q \notin LinkedPages
      /\ \A y \in Pages \ {q} : pool'[y] = pool[y]
      /\ LinkedPages' = LinkedPages
      /\ \A b \in Block : PageOf(b) # q => m_next'[b] = m_next[b]
      /\ \A b \in Block : PageOf(b) = q => m_next'[b] = Zero
  BY <1>2, PageDiscarded
<1>4. \A c \in Consumers : Leaves(c) => pool'[PageOf(cons[c].control)] = pool[PageOf(cons[c].control)]
  <2> SUFFICES ASSUME NEW c \in Consumers, Leaves(c)
               PROVE  pool'[PageOf(cons[c].control)] = pool[PageOf(cons[c].control)]
    OBVIOUS
  <2>1. PageOf(cons[c].control) \notin NewPages
    BY DEF Leaves, Ordered, ConsumersPlaced, ConsumerPlaced
  <2>2. PageOf(cons[c].control) \in Pages
    BY Typed, Spots DEF Leaves, ConsumerOK
  <2> QED
    BY <1>3, <2>1, <2>2
<1>5. \A b \in Block : m_next'[b] = m_next[b] \/ m_next'[b].to = NoBlock
  BY <1>3 DEF Zero
<1> QED
  BY <1>1, <1>3, <1>4, <1>5, PutLosesNothing DEF Reserves

\* The user fills a block.
LEMMA FillLosesNothing ==
    ASSUME NEW rank, IInv, Ordered(rank), NothingMissing, UNCHANGED headVars, NEW p \in Producers, Fill(p)
    PROVE  NothingMissing'
<1>1. /\ UNCHANGED <<m_head, cons, m_initial_page, m_tail>>
      /\ UNCHANGED <<m_next, pool, status>>
  BY DEF headVars, Fill
<1>2. PICK t, e : t = prod[p].tail /\ e = NewTail(t, prod[p].size)
  OBVIOUS
<1>3. /\ prod[p].pc = "fill" /\ prod'[p].pc = "pending" /\ prod'[p].flags = {}
      /\ \A q \in Producers \ {p} : prod'[q] = prod[q]
  BY <1>2, FillWrites
<1>4. /\ \A b \in Block : ReadyBlock(b) => content'[b] = content[b]
      /\ \A c \in Consumers : Takes(c) => content'[cons[c].control] = content[cons[c].control]
  BY <1>2, FillWrites
<1>5. Kept
  <2>1. NewPages' = NewPages
    BY <1>3, NewPagesKept DEF Created
  <2> QED
    BY <1>1, <2>1 DEF Kept, LinkedPages, LeftPages, First
<1>6. EndsKept /\ SpansKept
  BY <1>1, <1>3, ReservationsStay DEF EndsKept, Reserves
<1>7. Located'
  <2>1. \A b : ReadyBlock(b)' <=> ReadyBlock(b)
    BY <1>1, <1>5, LiveKept DEF ReadyBlock
  <2>2. \A c \in Consumers : Takes(c)' <=> Takes(c)
    BY <1>1 DEF Takes, At
  <2> QED
    BY <1>1, <1>4, <2>1, <2>2, LocatedStays DEF NothingMissing
<1>8. \A q \in Producers : prod'[q].flags = prod[q].flags \/ "invalid_next_page" \notin prod'[q].flags
  BY <1>3
<1> QED
  BY <1>1, <1>5, <1>6, <1>7, <1>8, PutKeepsRest

\* A transaction ends: the element has a block that can be consumed, or none.
LEMMA EndPutLosesNothing ==
    ASSUME NEW rank, IInv, Ordered(rank), NothingMissing, UNCHANGED headVars, NEW p \in Producers,
           CommitPut(p) \/ CancelPut(p)
    PROVE  NothingMissing'
<1>1. prod[p] \in Producer /\ ProducerOK(p) /\ prod \in [Producers -> Producer]
      /\ PutOK(rank, p) /\ PutterOwns(p) /\ PutElementOK(p) /\ status \in [Element -> Status]
  BY Typed DEF IInv, TypeOK, BaseTypeOK, TailTypeOK, Ordered, PutsOK, OwnersOK, ElementsOK
<1>2. PICK f, s : /\ EndPut(p, f, s) /\ f \subseteq prod[p].next.flags \cup {"dead"}
                  /\ \/ s = "ready" /\ f \cap {"busy", "dead"} = {}
                     \/ s = "cancelled"
  <2>1. CASE CommitPut(p)
    <3>1. "dead" \notin prod[p].next.flags
      BY <1>1, <2>1 DEF CommitPut, EndPut, PAt, PutOK, PutterOwns
    <3> QED
      BY <2>1, <3>1 DEF CommitPut
  <2>2. CASE CancelPut(p)
    BY <2>2 DEF CancelPut
  <2> QED
    BY <2>1, <2>2
<1>3. /\ UNCHANGED <<m_head, cons, m_initial_page, m_tail>>
      /\ UNCHANGED <<content, pool>>
  BY <1>2 DEF headVars, EndPut
<1>4. PICK b : b = prod[p].control
  OBVIOUS
<1>5. /\ prod[p].pc = "pending" /\ prod[p].puts \in 1 .. MaxPuts
      /\ \A q \in Producers \ {p} : prod'[q] = prod[q]
      /\ prod'[p].pc = "idle" /\ prod'[p].flags = {}
  BY <1>1, <1>2 DEF EndPut, PAt, NewProducer, ProducerOK
<1>6. /\ Putting(p) /\ b \in Block /\ Inner(b) /\ m_next[b] = prod[p].next
      /\ m_next[b].to \in Block /\ "busy" \in m_next[b].flags
  <2>1. Putting(p)
    BY <1>1, <1>5 DEF PutOK
  <2> QED
    BY <1>1, <1>4, <2>1 DEF PutterOwns, Putting, ProducerOK, Inner, Live
<1>7. \A x \in Block : m_next'[x] = IF x = b THEN NextWord(m_next[b].to, f) ELSE m_next[x]
  <2>1. m_next' = [m_next EXCEPT ![b] = NextWord(m_next[b].to, f)]
    BY <1>2, <1>4, <1>6 DEF EndPut
  <2> QED
    BY <2>1 DEF IInv, TypeOK, BaseTypeOK
<1>8. "invalid_next_page" \notin f
  <2>1. "invalid_next_page" \notin m_next[b].flags
    BY <1>6, Addresses DEF NothingMissing, LinksValid
  <2> QED
    BY <1>2, <1>6, <2>1
<1>9. /\ Current(p) \in Element /\ Current(p) = <<p, prod[p].puts>>
      /\ status' = [status EXCEPT ![Current(p)] = s]
      /\ status[Current(p)] = "putting" /\ content[b] = <<p, prod[p].puts, 0>>
  BY <1>1, <1>2, <1>4, <1>5, <1>6 DEF Current, Element, EndPut, PutElementOK, PAt
<1>10. Kept
  <2>1. NewPages' = NewPages
    BY <1>5, NewPagesKept DEF Created
  <2> QED
    BY <1>3, <2>1 DEF Kept, LinkedPages, LeftPages, First
<1>11. \A x : Inner(x)' <=> Inner(x)
  BY <1>10, LiveKept
<1>12. EndsKept
  <2>1. \A x \in LinkedPages : End(x) \in Block /\ End(x) # b
    BY <1>6, EndsLive, Spots DEF LinkedPages
  <2> QED
    BY <1>7, <2>1 DEF EndsKept
<1>13. SpansKept
  <2>1. \A x \in Block : m_next'[x].to = m_next[x].to
    BY <1>7 DEF NextWord
  <2> QED
    BY <1>5, <2>1, ReservationsStay DEF Reserves
<1>14. Located'
  <2> PICK i : i = Current(p)
    OBVIOUS
  <2>1. i \in Element /\ content[b] = <<i[1], i[2], 0>> /\ status'[i] = s
    BY <1>1, <1>9
  <2>2. \A e \in Element : e # i => status'[e] = status[e]
    BY <1>1, <1>9
  <2>3. ElementLocated(i)'
    <3>1. CASE s = "ready"
      <4>1. ReadyBlock(b)'
        BY <1>2, <1>6, <1>7, <1>11, <3>1 DEF ReadyBlock, NextWord
      <4> QED
        BY <1>3, <1>6, <2>1, <3>1, <4>1 DEF ElementLocated
    <3>2. CASE s = "cancelled"
      BY <2>1, <3>2 DEF ElementLocated
    <3> QED
      BY <1>2, <3>1, <3>2
  <2>4. \A x \in Block : ReadyBlock(x) => ReadyBlock(x)' /\ content'[x] = content[x]
    BY <1>3, <1>6, <1>7, <1>11 DEF ReadyBlock
  <2>5. \A c \in Consumers : Takes(c) => Takes(c)' /\ content'[cons'[c].control] = content[cons[c].control]
    BY <1>3 DEF Takes, At
  <2> QED
    BY <2>1, <2>2, <2>3, <2>4, <2>5, LocatedKept DEF NothingMissing
<1>15. /\ \A x \in Block : m_next'[x] = m_next[x] \/ "invalid_next_page" \notin m_next'[x].flags
       /\ \A q \in Producers : prod'[q].flags = prod[q].flags \/ "invalid_next_page" \notin prod'[q].flags
  BY <1>5, <1>7, <1>8 DEF NextWord
<1> QED
  BY <1>3, <1>10, <1>12, <1>13, <1>14, <1>15, PutKeepsRest

\* A page is added: its first block begins where the tail will be, and the
\* blocks of the page before fill it.
LEMMA JoinsLoseNothing ==
    ASSUME NEW rank, IInv, Ordered(rank), NothingMissing, NEW p \in Producers, NEW new, Joins(p, new),
           \/ First' = First /\ PageOf(First) # new
           \/ First' = FirstBlock(new) /\ LinkedPages = {},
           \A b \in Block : Inner(b) \/ PageOf(b) = new => m_next'[b] = m_next[b],
           \A b \in Block : m_next'[b] = m_next[b] \/ "invalid_next_page" \notin m_next'[b].flags,
           \A y : Open(y)' <=> y = new, PageOf(m_tail) # new,
           \A b \in Block : Inner(b) /\ Open(PageOf(b)) => b[2] # TailSlot(PageOf(b)),
           ~Reserves(prod[p].pc), ~Reserves(prod'[p].pc), prod'[p].flags = prod[p].flags
    PROVE  NothingMissing'
<1>1. /\ \A q \in Producers \ {p} : prod'[q] = prod[q]
      /\ UNCHANGED <<m_tail, cons, content, status, pool>>
  BY DEF Joins
<1>2. /\ \A b : Inner(b)' <=> Inner(b) \/ (b \in Block /\ PageOf(b) = new /\ b[2] < EndSlot)
      /\ \A b : Inner(b) => b \in Block /\ PageOf(b) # new
  BY JoinsKeepBlocks DEF Inner, Live
<1>3. \A b : PageOf(b) = new => Reserving(b) = {}
  BY <1>2 DEF Reserving, Ordered, ReservationsOK, ReservationOK, Stores
<1>4. /\ \A b, e \in Block : Inner(b) => (Spans(b, e)' <=> Spans(b, e))
      /\ \A b, e \in Block : PageOf(b) = new => ~Spans(b, e)'
  <2>1. /\ \A b : Reserving(b)' = Reserving(b)
        /\ \A b : \A q \in Reserving(b) : ReservedEnd(q)' = ReservedEnd(q)
    <3>1. \A b : \A q \in Producers : q \in Reserving(b)' <=> q \in Reserving(b)
      BY <1>1 DEF Reserving, Reserves
    <3>2. \A b : Reserving(b) \subseteq Producers /\ Reserving(b)' \subseteq Producers
      BY DEF Reserving
    <3>3. \A b : \A q \in Reserving(b) : ReservedEnd(q)' = ReservedEnd(q)
      BY <1>1 DEF Reserving, Reserves, ReservedEnd, PAt
    <3> QED
      BY <3>1, <3>2, <3>3
  <2>2. \A b \in Block : PageOf(b) = new => m_next[b].to = NoBlock
    BY PageLinked DEF Zero, InvalidNextPage
  <2> QED
    BY <1>3, <2>1, <2>2, Addresses DEF Spans
<1>5. Tiled'
  <2> SUFFICES ASSUME NEW b \in Block, Inner(b)', Begins(b)'
               PROVE  \/ \E e \in Block : Spans(b, e)'
                      \/ Open(PageOf(b))' /\ b[2] = TailSlot(PageOf(b))'
    BY DEF Tiled
  <2>1. \A a \in Block : Inner(a)' /\ Spans(a, b)' => Inner(a) /\ Spans(a, b) /\ SamePage(a, b)
    BY <1>2, <1>4 DEF Ordered, BlocksApart, BlockApart
  <2>2. CASE Inner(b)
    <3>1. Begins(b)
      BY <1>2, <2>1, <2>2 DEF Begins, FirstBlock, PageOf
    <3> QED
      BY <1>4, <2>2, <3>1 DEF NothingMissing, Tiled
  <2>3. CASE PageOf(b) = new
    <3>1. b[2] = 0
      BY <1>2, <2>1, <2>3 DEF Begins, SamePage, FirstBlock
    <3>2. TailSlot(new)' = 0
      BY <1>1 DEF TailSlot
    <3> QED
      BY <2>3, <3>1, <3>2
  <2> QED
    BY <1>2, <2>2, <2>3
<1>6. Located'
  <2>1. \A b \in Block : ReadyBlock(b) => ReadyBlock(b)'
    BY <1>2 DEF ReadyBlock
  <2>2. \A c \in Consumers : Takes(c) => Takes(c)'
    BY <1>1 DEF Takes, At
  <2> QED
    BY <1>1, <2>1, <2>2, LocatedStays DEF NothingMissing
<1>7. LeftApart'
  <2>1. \A c \in Consumers : Leaves(c)' <=> Leaves(c)
    BY <1>1 DEF Leaves
  <2> QED
    BY <1>1, <2>1, LeftKept DEF NothingMissing
<1>8. LinksValid'
  <2>1. \A q \in Producers : prod'[q].flags = prod[q].flags
    BY <1>1
  <2> QED
    BY <2>1, LinksKept DEF NothingMissing
<1> QED
  BY <1>5, <1>6, <1>7, <1>8 DEF NothingMissing

LEMMA LinkPageLosesNothing ==
    ASSUME NEW rank \in [Pages -> Nat], IInv, Ordered(rank), NothingMissing, UNCHANGED headVars,
           NEW p \in Producers, LinkPage(p), m_next[prod[p].tail] = InvalidNextPage
    PROVE  NothingMissing'
<1>1. PICK new, x : new = prod[p].new_page /\ x = PageOf(prod[p].tail)
  OBVIOUS
<1>2. /\ prod[p].pc = "link_page" /\ prod'[p].pc = "advance_tail" /\ prod'[p].flags = prod[p].flags
      /\ Joins(p, new)
  BY <1>1, PageLinks
<1>3. /\ m_next'[End(x)] = NextWord(FirstBlock(new), {"dead"})
      /\ \A b \in Block : b # End(x) => m_next'[b] = m_next[b]
      /\ \A y : Open(y)' <=> y = new
  BY <1>1, PageLinks
<1>4. /\ x \in Pages /\ Open(x) /\ m_tail = End(x) /\ x # new
      /\ new \notin LinkedPages /\ PageOf(First) \in LinkedPages /\ First' = First
  BY <1>1, PageLinks
<1>5. \A b \in Block : Inner(b) \/ PageOf(b) = new => m_next'[b] = m_next[b]
  BY <1>3, <1>4, Spots DEF Inner
<1>6. \A b \in Block : m_next'[b] = m_next[b] \/ "invalid_next_page" \notin m_next'[b].flags
  BY <1>3 DEF NextWord
<1>7. \A b \in Block : Inner(b) /\ Open(PageOf(b)) => b[2] # TailSlot(PageOf(b))
  <2>1. \A y : Open(y) => y = x
    BY <1>4, OneOpen DEF Ordered
  <2>2. TailSlot(x) = EndSlot
    BY <1>4, Spots DEF TailSlot
  <2> QED
    BY <2>1, <2>2, Spots DEF Inner
<1>8. PageOf(m_tail) # new
  BY <1>4, Spots
<1> QED
  BY <1>2, <1>3, <1>4, <1>5, <1>6, <1>7, <1>8, JoinsLoseNothing DEF Reserves

LEMMA InitPageLosesNothing ==
    ASSUME NEW rank \in [Pages -> Nat], IInv, Ordered(rank), NothingMissing, UNCHANGED headVars,
           NEW p \in Producers, InitPage(p), m_initial_page = NoPage
    PROVE  NothingMissing'
<1>1. PICK new : new = prod[p].new_page
  OBVIOUS
<1>2. /\ prod[p].pc = "init_page" /\ prod'[p].pc = "init_tail" /\ prod'[p].flags = prod[p].flags
      /\ Joins(p, new) /\ new \in Pages /\ m_next' = m_next
      /\ LinkedPages = {} /\ m_tail = InvalidBlock /\ First' = FirstBlock(new)
      /\ \A y : Open(y)' <=> y = new
  BY <1>1, PageStored
<1>3. \A b : ~Inner(b)
  BY <1>2 DEF Inner, Live
<1>4. PageOf(m_tail) # new
  BY <1>2, BaseAssumption DEF InvalidBlock, PageOf
<1> QED
  BY <1>2, <1>3, <1>4, JoinsLoseNothing DEF Reserves

\* The tail goes to where the last page begins, or leaves a block behind that
\* begins where the tail was.
LEMMA TailMovesLoseNothing ==
    ASSUME NEW rank \in [Pages -> Nat], IInv, Ordered(rank), NothingMissing,
           NEW p \in Producers, NEW x, MovesTail(p, x),
           Reserves(prod'[p].pc) \/ (PageOf(m_tail) # x /\ m_tail'[2] = 0)
    PROVE  NothingMissing'
<1>1. /\ \A q \in Producers \ {p} : prod'[q] = prod[q]
      /\ prod'[p].flags = prod[p].flags
      /\ Reserves(prod'[p].pc) => PageOf(m_tail) = x
  BY DEF MovesTail
<1>2. /\ cons' = cons /\ m_next' = m_next /\ content' = content /\ pool' = pool /\ status' = status
      /\ First' = First
  BY TailMoved
<1>3. /\ \A b : Inner(b)' <=> Inner(b)
      /\ \A y : Open(y)' <=> Open(y)
      /\ \A b : Inner(b) => b \in Block
      /\ \A y : Open(y) => y = x
      /\ Open(x) /\ PageOf(m_tail') = x /\ m_tail' \in Block
      /\ TailSlot(x)' = m_tail'[2]
  BY TailMoved DEF Inner, Live
<1>4. /\ \A b, e \in Block : Spans(b, e)' <=> \/ Spans(b, e)
                                              \/ Reserves(prod'[p].pc) /\ b = m_tail /\ e = m_tail'
      /\ Reserves(prod'[p].pc) => m_tail \in Block
  BY TailMoved
<1>5. Tiled'
  <2> SUFFICES ASSUME NEW b \in Block, Inner(b), Begins(b)'
               PROVE  \/ \E e \in Block : Spans(b, e)'
                      \/ Open(PageOf(b))' /\ b[2] = TailSlot(PageOf(b))'
    BY <1>3 DEF Tiled
  <2>1. CASE b = m_tail'
    BY <1>3, <2>1
  <2>2. CASE b # m_tail'
    <3>1. Begins(b)
      BY <1>2, <1>3, <1>4, <2>2 DEF Begins
    <3>2. CASE \E e \in Block : Spans(b, e)
      BY <1>4, <3>2
    <3>3. CASE Open(PageOf(b)) /\ b[2] = TailSlot(PageOf(b))
      <4>1. PageOf(b) = x /\ b[2] = TailSlot(x)
        BY <1>3, <3>3
      <4>2. CASE Reserves(prod'[p].pc)
        <5>1. b = m_tail
          BY <1>1, <1>4, <4>1, <4>2, Spots DEF TailSlot
        <5> QED
          BY <1>3, <1>4, <4>2, <5>1
      <4>3. CASE PageOf(m_tail) # x /\ m_tail'[2] = 0
        BY <1>3, <4>1, <4>3, Spots DEF TailSlot
      <4> QED
        BY <4>2, <4>3
    <3> QED
      BY <3>1, <3>2, <3>3 DEF NothingMissing, Tiled
  <2> QED
    BY <2>1, <2>2
<1>6. Located'
  <2>1. \A b \in Block : ReadyBlock(b) => ReadyBlock(b)'
    BY <1>2, <1>3 DEF ReadyBlock
  <2>2. \A c \in Consumers : Takes(c) => Takes(c)'
    BY <1>2 DEF Takes, At
  <2> QED
    BY <1>2, <2>1, <2>2, LocatedStays DEF NothingMissing
<1>7. LeftApart'
  BY <1>2, LeftKept DEF NothingMissing, Leaves
<1>8. LinksValid'
  <2>1. \A q \in Producers : prod'[q].flags = prod[q].flags
    BY <1>1
  <2> QED
    BY <1>2, <2>1, LinksKept DEF NothingMissing
<1> QED
  BY <1>5, <1>6, <1>7, <1>8 DEF NothingMissing

---------------------------------------------------------------------------
(* The steps of the queue *)

\* try_inplace_allocate_impl: the tail moves, then the control word is stored.
LEMMA ReserveSteps ==
    ASSUME MemoryOK, TailInv, NEW p \in Producers, Reserve(p) \/ StoreBlock(p)
    PROVE  MemoryOK' /\ TailInv' /\ PinsKept
<1> USE DEF MemoryOK, TailInv
<1>1. prod[p] \in Producer /\ ProducerOK(p) /\ prod \in [Producers -> Producer]
  BY DEF TailTypeOK, ProducersOK
<1>2. /\ m_tail \in Block \cup {InvalidBlock} /\ m_rest \in Nat
      /\ m_tail[2] \in Nat /\ m_tail[2] <= EndSlot /\ EndSlot \in Nat
  BY TailBlocks, BaseAssumption DEF TailTypeOK, TailOK
<1>3. CASE Reserve(p)
  <2>1. /\ prod[p].pc = "try" /\ prod[p].size \in Nat /\ prod[p].size > 0
        /\ prod[p].tail[2] + prod[p].size <= EndSlot
        /\ prod[p].tail \in Block \cup {InvalidBlock}
    BY <1>1, <1>3 DEF Reserve, PAt, Fits, ProducerOK, Producer
  <2>2. prod[p].tail \in Block
    BY <1>2, <2>1, TailBlocks
  <2>3. ASSUME TailIs(prod[p].tail, 0), m_tail' = NewTail(m_tail, prod[p].size),
               PGoto(p, "store")
        PROVE  prod' \in [Producers -> Producer] /\ ProducersOK' /\ m_tail' \in Block
               /\ m_rest = 0 /\ m_tail'[2] <= EndSlot
    <3>1. m_tail' \in Block /\ m_rest = 0
      BY <2>1, <2>2, <2>3, BlockAfter DEF TailIs, NewTail
    <3> DEFINE r == [prod[p] EXCEPT !.pc = "store"]
    <3>2. prod' = [prod EXCEPT ![p] = r] /\ r \in Producer
      BY <1>1, <2>3 DEF PGoto, Producer, ProducerPC
    <3>3. ProducerOK(p)'
      BY <1>1, <2>1, <2>2, <3>2 DEF ProducerOK, Producer
    <3>4. prod' \in [Producers -> Producer] /\ ProducersOK'
      BY <1>1, <3>2, <3>3, Updated
    <3>5. m_tail'[2] <= EndSlot
      BY <1>2, <3>1, TailBlocks
    <3> QED
      BY <3>1, <3>4, <3>5
  <2>4. ASSUME Retry(p, m_tail, 0)
        PROVE  prod' \in [Producers -> Producer] /\ ProducersOK'
    BY <1>1, <1>2, <2>1, <2>4, Retried
  <2>5. ASSUME PGoto(p, "give_up")
        PROVE  prod' \in [Producers -> Producer] /\ ProducersOK'
    <3> DEFINE r == [prod[p] EXCEPT !.pc = "give_up"]
    <3>1. prod' = [prod EXCEPT ![p] = r] /\ r \in Producer
      BY <1>1, <2>5 DEF PGoto, Producer, ProducerPC
    <3>2. ProducerOK(p)'
      BY <1>1, <2>1, <3>1 DEF ProducerOK, Producer
    <3> QED
      BY <1>1, <3>1, <3>2, Updated
  <2>6. prod' \in [Producers -> Producer] /\ ProducersOK'
        /\ \/ m_tail' = m_tail
           \/ m_tail' \in Block /\ m_rest = 0 /\ m_tail'[2] <= EndSlot
    BY <1>3, <2>3, <2>4, <2>5 DEF Reserve
  <2>7. TailTypeOK' /\ TailOK'
    BY <1>2, <1>3, <2>6, TailBlocks DEF Reserve, TailTypeOK, TailOK
  <2> QED
    BY <1>3, <2>6, <2>7 DEF Reserve, baseVars, BaseTypeOK, WordsOK, PinsKept
<1>4. CASE StoreBlock(p)
  <2> DEFINE b == prod[p].tail
             n == NextWord(ReservedEnd(p), prod[p].flags)
  <2>1. /\ prod[p].pc = "store" /\ b \in Block /\ prod[p].size \in Nat
        /\ b[2] + prod[p].size <= EndSlot
    BY <1>1, <1>4 DEF StoreBlock, PAt, ProducerOK, Producer
  <2>2. ReservedEnd(p) \in Block
    BY <2>1, BlockAfter DEF ReservedEnd, PAt, NewTail
  <2>3. n \in NextPtr /\ n.to \in Block
    BY <1>1, <2>2 DEF NextWord, NextPtr, BlockOrNull, Producer
  <2>4. m_next' = [m_next EXCEPT ![b] = n] /\ m_next' \in [Block -> NextPtr] /\ WordsOK'
    BY <1>4, <2>3 DEF StoreBlock, BaseTypeOK, WordsOK
  <2>5. status' \in [Element -> Status]
    BY <1>4 DEF StoreBlock, BaseTypeOK, Status
  <2> DEFINE r == IF "busy" \in n.flags
                  THEN [prod[p] EXCEPT !.pc = "fill", !.control = b, !.next = n]
                  ELSE [prod[p] EXCEPT !.pc = "fill"]
  <2>6. prod' = [prod EXCEPT ![p] = r]
    BY <1>1, <1>4 DEF StoreBlock, PGoto
  <2>7. r \in Producer
    BY <1>1, <2>1, <2>3 DEF Producer, ProducerPC, BlockOrNull
  <2> HIDE DEF n
  <2>8. ProducerOK(p)'
    BY <1>1, <2>1, <2>3, <2>6 DEF ProducerOK, Producer
  <2>9. prod' \in [Producers -> Producer] /\ ProducersOK'
    BY <1>1, <2>6, <2>7, <2>8, Updated
  <2> QED
    BY <1>4, <2>4, <2>5, <2>9 DEF StoreBlock, BaseTypeOK, TailTypeOK, TailOK, PinsKept
<1> QED
  BY <1>3, <1>4

\* page_overflow: the rest of the page becomes a block.
LEMMA PadSteps ==
    ASSUME MemoryOK, TailInv, NEW p \in Producers, Pad(p) \/ StorePad(p)
    PROVE  MemoryOK' /\ TailInv' /\ PinsKept
<1> USE DEF MemoryOK, TailInv
<1>1. prod[p] \in Producer /\ ProducerOK(p) /\ prod \in [Producers -> Producer]
  BY DEF TailTypeOK, ProducersOK
<1>2. /\ m_tail \in Block \cup {InvalidBlock} /\ m_rest \in Nat
      /\ m_tail[2] \in Nat /\ m_tail[2] <= EndSlot /\ EndSlot \in Nat
  BY TailBlocks, BaseAssumption DEF TailTypeOK, TailOK
<1>3. CASE Pad(p)
  <2>1. prod[p].pc = "try" /\ prod[p].tail[2] # EndSlot
    BY <1>3 DEF Pad, PAt, AtEnd
  <2>2. CASE TailIs(prod[p].tail, 0)
    <3>1. /\ m_tail \in Block /\ m_rest = 0 /\ prod[p].tail = m_tail
          /\ EndSlot - m_tail[2] \in Nat
      BY <1>2, <2>1, <2>2, TailBlocks DEF TailIs
    <3>2. m_tail' \in Block /\ m_tail'[2] = EndSlot
      BY <1>3, <2>2, <3>1, Addresses DEF Pad, EndBlock
    <3> DEFINE r == [prod[p] EXCEPT !.pc = "store_pad", !.rest = EndSlot - m_tail[2]]
    <3>3. prod' = [prod EXCEPT ![p] = r] /\ r \in Producer
      BY <1>1, <1>3, <2>2, <3>1 DEF Pad, Producer, ProducerPC
    <3>4. /\ prod'[p].pc = "store_pad" /\ prod'[p].rest = EndSlot - m_tail[2]
          /\ prod'[p].tail = m_tail /\ prod'[p].puts = prod[p].puts
          /\ prod'[p].size = prod[p].size /\ prod'[p].control = prod[p].control
          /\ prod'[p].next = prod[p].next
      BY <1>1, <3>1, <3>3 DEF Producer
    <3>5. ProducerOK(p)'
      BY <1>1, <1>2, <2>1, <3>1, <3>4 DEF ProducerOK
    <3>6. prod' \in [Producers -> Producer] /\ ProducersOK'
      BY <1>1, <3>3, <3>5, Updated
    <3> QED
      BY <1>2, <1>3, <3>1, <3>2, <3>6 DEF Pad, baseVars, BaseTypeOK, WordsOK, TailTypeOK,
         TailOK, PinsKept
  <2>3. CASE ~TailIs(prod[p].tail, 0)
    <3>1. Retry(p, m_tail, 0) /\ UNCHANGED <<baseVars, m_tail, m_rest>>
      BY <1>3, <2>3 DEF Pad
    <3>2. prod' \in [Producers -> Producer] /\ ProducersOK'
      BY <1>1, <1>2, <2>1, <3>1, Retried
    <3> QED
      BY <3>1, <3>2 DEF baseVars, BaseTypeOK, WordsOK, TailTypeOK, TailOK, PinsKept
  <2> QED
    BY <2>2, <2>3
<1>4. CASE StorePad(p)
  <2>1. /\ prod[p].pc = "store_pad" /\ prod[p].tail \in Block /\ prod[p].rest \in Nat
        /\ prod[p].tail[2] + prod[p].rest <= EndSlot
    BY <1>1, <1>4 DEF StorePad, PAt, ProducerOK, Producer
  <2>2. ReservedEnd(p) \in Block
    BY <2>1, BlockAfter DEF ReservedEnd, PAt, NewTail
  <2>3. ReservedEnd(p)[2] + 0 <= EndSlot
    BY <1>2, <2>2, TailBlocks
  <2>4. prod' \in [Producers -> Producer] /\ ProducersOK'
    BY <1>1, <1>4, <2>1, <2>2, <2>3, Retried DEF StorePad
  <2>5. m_next' \in [Block -> NextPtr] /\ WordsOK'
    BY <1>4, <2>2 DEF StorePad, BaseTypeOK, WordsOK, NextWord, NextPtr, BlockOrNull, Flag
  <2> QED
    BY <1>4, <2>4, <2>5 DEF StorePad, BaseTypeOK, TailTypeOK, TailOK, PinsKept
<1> QED
  BY <1>3, <1>4

\* IInv is inductive.
LEMMA NextKeepsIInv == IInv /\ [Next]_vars => IInv'
<1> SUFFICES ASSUME IInv, [Next]_vars PROVE IInv'
  OBVIOUS
<1>1. ASSUME NEW c \in Consumers, ConsumerNext(c), UNCHANGED tailVars
      PROVE  IInv'
  BY <1>1, ConsumerKeepsIInv
<1>2. ASSUME NEW p \in Producers, ProducerNext(p), UNCHANGED headVars
      PROVE  IInv'
  <2>1. MemoryOK' /\ TailInv' /\ PinsKept
    BY <1>2, Layers, ReserveSteps, PadSteps, LoadAndGiveUp, FillStep, TransactionSteps,
       NextPageSteps, InitialSteps DEF ProducerNext, ProducerStep
  <2> QED
    BY <1>2, <2>1, ProducerKeepsIInv
<1>3. CASE UNCHANGED vars
  BY <1>3, StutterKeepsIInv
<1> QED
  BY <1>1, <1>2, <1>3 DEF Next

\* The inductive invariant holds in every reachable state.
THEOREM Invariance == Spec => []IInv
<1>1. Init => IInv
  BY InitIInv
<1>2. IInv /\ [Next]_vars => IInv'
  BY NextKeepsIInv
<1> QED
  BY <1>1, <1>2, PTL DEF Spec

\* Every variable keeps its type: in particular no block ends past the end
\* control block of its page, and m_tail never leaves it.
THEOREM TypeCorrect == Spec => []TypeOK
<1>1. IInv => TypeOK
  BY DEF IInv
<1> QED
  BY <1>1, Invariance, PTL

\* A consumer has pinned the page of the block it is in, and between two
\* pages the one it enters: begin_iteration and move_next never read a
\* control word of a page they do not hold.
THEOREM PagesPinned == Spec => []ControlPinned
<1>1. IInv => ControlPinned
  BY DEF IInv
<1> QED
  BY <1>1, Invariance, PTL

---------------------------------------------------------------------------
(* How the blocks lie *)

\* The CAS on m_tail, and that of page_overflow.
LEMMA TailSteps ==
    ASSUME NEW rank \in [Pages -> Nat], IInv, Ordered(rank), UNCHANGED headVars, m_rest = 0,
           NEW p \in Producers, Reserve(p) \/ Pad(p)
    PROVE  \/ /\ PAt(p, "try") /\ (Retry(p, m_tail, 0) \/ PGoto(p, "give_up"))
              /\ UNCHANGED <<baseVars, m_tail, m_rest>>
           \/ Reserves(prod'[p].pc) /\ \E x : MovesTail(p, x)
<1>1. prod[p] \in Producer /\ prod \in [Producers -> Producer]
      /\ prod[p].pc = "try" /\ prod[p].size \in Nat /\ prod[p].size > 0
  <2>1. prod[p] \in Producer /\ ProducerOK(p) /\ prod \in [Producers -> Producer]
    BY Typed DEF IInv, TypeOK, TailTypeOK
  <2>2. prod[p].pc = "try"
    BY DEF Reserve, Pad, PAt
  <2> QED
    BY <2>1, <2>2 DEF ProducerOK, Producer
<1>2. m_tail \in Block \cup {InvalidBlock} /\ UNCHANGED baseVars /\ UNCHANGED m_rest
  BY Typed DEF Reserve, Pad
<1>3. CASE m_tail' = m_tail /\ (Retry(p, m_tail, 0) \/ PGoto(p, "give_up"))
  BY <1>1, <1>2, <1>3 DEF PAt
<1>4. CASE Reserve(p) /\ m_tail = prod[p].tail /\ m_tail' = NewTail(m_tail, prod[p].size) /\ PGoto(p, "store")
  <2>1. m_tail[2] + prod[p].size <= EndSlot
    BY <1>4 DEF Reserve, Fits
  <2>2. m_tail \in Block
    BY <1>1, <1>2, <2>1, BaseAssumption DEF InvalidBlock
  <2>3. /\ \A q \in Producers \ {p} : prod'[q] = prod[q]
        /\ prod'[p].pc = "store" /\ prod'[p].tail = m_tail /\ prod'[p].size = prod[p].size
        /\ prod'[p].control = prod[p].control /\ prod'[p].next = prod[p].next
        /\ prod'[p].flags = prod[p].flags /\ prod'[p].puts = prod[p].puts
        /\ prod'[p].pinned = prod[p].pinned
    BY <1>1, <1>4 DEF PGoto, Producer
  <2>4. ReservedEnd(p)' = m_tail'
    BY <1>4, <2>3 DEF ReservedEnd, NewTail, PAt
  <2> QED
    BY <1>1, <1>2, <1>4, <2>1, <2>2, <2>3, <2>4, AlongPageMoves DEF Reserves
<1>5. CASE Pad(p) /\ m_tail = prod[p].tail /\ m_tail' = EndBlock(m_tail)
           /\ prod' = [prod EXCEPT ![p].pc = "store_pad", ![p].rest = EndSlot - m_tail[2]]
  <2>1. m_tail \in Block /\ m_tail[2] \in Nat /\ m_tail[2] < EndSlot
    <3>1. m_tail[2] # EndSlot
      BY <1>5 DEF Pad, AtEnd
    <3> QED
      BY <1>2, <3>1, Spots DEF InvalidBlock
  <2>2. PICK n : n = EndSlot - m_tail[2]
    OBVIOUS
  <2>3. n \in Nat /\ n > 0 /\ m_tail[2] + n = EndSlot
    BY <2>1, <2>2, Spots
  <2>4. m_tail' = NewTail(m_tail, n)
    BY <1>5, <2>3 DEF NewTail, EndBlock, PageOf
  <2>5. /\ \A q \in Producers \ {p} : prod'[q] = prod[q]
        /\ prod'[p].pc = "store_pad" /\ prod'[p].tail = m_tail /\ prod'[p].rest = n
        /\ prod'[p].control = prod[p].control /\ prod'[p].next = prod[p].next
        /\ prod'[p].flags = prod[p].flags /\ prod'[p].puts = prod[p].puts
        /\ prod'[p].pinned = prod[p].pinned
    BY <1>1, <1>5, <2>2 DEF Producer
  <2>6. ReservedEnd(p)' = m_tail'
    BY <2>4, <2>5 DEF ReservedEnd, NewTail, PAt
  <2> QED
    BY <1>1, <1>2, <2>1, <2>3, <2>4, <2>5, <2>6, Spots, AlongPageMoves DEF Reserves
<1> QED
  BY <1>3, <1>4, <1>5 DEF Reserve, Pad, TailIs

LEMMA TailStepsKeepOrder ==
    ASSUME NEW rank \in [Pages -> Nat], IInv, Ordered(rank), UNCHANGED headVars, m_rest = 0,
           NEW p \in Producers, Reserve(p) \/ Pad(p)
    PROVE  Ordered(rank)'
BY TailSteps, LoopKeepsOrder, TailMovesKeepOrder

\* The history of an element begins: those of the others go on.
LEMMA ElementStarts ==
    ASSUME NEW rank, IInv, Ordered(rank), UNCHANGED <<cons, content>>, NEW p \in Producers,
           \A q \in Producers \ {p} : prod'[q] = prod[q],
           prod[p].pc = "store", ~Putting(p), NEW b \in Block,
           prod'[p].pc = "fill", prod'[p].control = b, prod'[p].tail = b,
           prod'[p].puts = prod[p].puts,
           status' = [status EXCEPT ![Current(p)] = "putting"],
           \A x \in Block : ReadyBlock(x)' => ReadyBlock(x)
    PROVE  ElementsOK'
<1>1. /\ prod[p] \in Producer /\ prod[p].puts \in 1 .. MaxPuts /\ PutElementOK(p)
      /\ status \in [Element -> Status]
  BY Typed DEF IInv, TypeOK, BaseTypeOK, ProducerOK, Ordered, ElementsOK
<1>2. Current(p) \in Element /\ Current(p) = <<p, prod[p].puts>>
  BY <1>1 DEF Current, Element
<1>3. status[Current(p)] = "none" /\ status'[Current(p)] = "putting"
      /\ \A e : e # Current(p) => status'[e] = status[e]
  BY <1>1, <1>2 DEF PutElementOK, PAt
<1>4. \A q \in Producers \ {p} : PutElementOK(q)'
  <2> SUFFICES ASSUME NEW q \in Producers \ {p} PROVE PutElementOK(q)'
    OBVIOUS
  <2>1. PutElementOK(q) /\ prod'[q] = prod[q] /\ content' = content
    BY DEF Ordered, ElementsOK
  <2>2. \A k : status'[<<q, k>>] = status[<<q, k>>]
    BY <1>2, <1>3
  <2> QED
    BY <2>1, <2>2 DEF PutElementOK, Putting, Current, PAt
<1>5. PutElementOK(p)'
  <2>1. Current(p)' = Current(p)
    BY DEF Current
  <2>2. \A k \in 1 .. MaxPuts : k > prod[p].puts => status'[<<p, k>>] = status[<<p, k>>]
    BY <1>1, <1>2, <1>3
  <2>3. b # NoBlock
    BY Addresses
  <2> QED
    BY <1>1, <1>3, <2>1, <2>2, <2>3 DEF PutElementOK, Putting, PAt
<1>6. \A x \in Block, t \in {"ready", "consuming"} : Holds(x, t) => Holds(x, t)'
  <2>1. \A x \in Block, t \in {"ready", "consuming"} : Holds(x, t) => ElementOf(content[x]) # Current(p)
    BY <1>3 DEF Holds
  <2> QED
    BY <1>3, <2>1 DEF Holds, ElementOf
<1>7. \A x \in Block : ReadyBlock(x)' => Holds(x, "ready")'
  BY <1>6 DEF Ordered, ElementsOK
<1>8. \A c \in Consumers : (Takes(c)' <=> Takes(c)) /\ (Takes(c) => cons[c].control \in Block)
  BY DEF Takes, At, Ordered, OwnersOK, TakerOwns, Inner, Live
<1>9. ASSUME NEW c \in Consumers, Takes(c)' PROVE Holds(cons[c].control, "consuming")'
  <2>1. PICK x \in Block : x = cons[c].control /\ x = cons'[c].control /\ Holds(x, "consuming")
    BY <1>8, <1>9 DEF Ordered, ElementsOK
  <2>2. Holds(x, "consuming")'
    BY <1>6, <2>1
  <2> QED
    BY <2>1, <2>2
<1>10. /\ \A c, d \in Consumers : Takes(c)' /\ Takes(d)' /\ c # d =>
             content'[cons'[c].control] # content'[cons'[d].control]
       /\ \A x, y \in Block : ReadyBlock(x)' /\ ReadyBlock(y)' /\ x # y => content'[x] # content'[y]
  BY <1>8 DEF Ordered, ElementsOK
<1> QED
  BY <1>4, <1>5, <1>7, <1>9, <1>10 DEF ElementsOK

\* The word of a reserved block is written: it is the block of no one else,
\* and it extends as the reservation did.
LEMMA BlockStored ==
    ASSUME NEW rank \in [Pages -> Nat], IInv, Ordered(rank), UNCHANGED headVars,
           NEW p \in Producers, StoreBlock(p) \/ StorePad(p),
           NEW b, b = prod[p].tail, NEW e, e = ReservedEnd(p),
           NEW f, f = IF prod[p].pc = "store" THEN prod[p].flags ELSE {"dead"}
    PROVE  /\ Stores(p) /\ b \in Block /\ e \in Block /\ Inner(b) /\ m_next[b] = Zero
           /\ \A x \in Block : m_next'[x] = IF x = b THEN NextWord(e, f) ELSE m_next[x]
           /\ \A q \in Producers \ {p} : prod'[q] = prod[q]
           /\ \A q \in Producers \ {p} : Stores(q) => prod[q].tail # b
           /\ \A q \in Producers : Putting(q) => prod[q].control # b
           /\ \A c \in Consumers : Takes(c) => cons[c].control # b
           /\ prod'[p].flags = prod[p].flags /\ prod'[p].puts = prod[p].puts
           /\ prod'[p].pinned = prod[p].pinned
           /\ \/ /\ prod[p].pc = "store" /\ prod'[p].pc = "fill"
                 /\ prod'[p].tail = b /\ prod'[p].size = prod[p].size
              \/ prod[p].pc = "store_pad" /\ prod'[p].pc = "try"
           /\ \/ /\ prod[p].pc = "store" /\ "busy" \in f /\ "dead" \notin f /\ ~Putting(p)
                 /\ prod'[p].control = b /\ prod'[p].next = NextWord(e, f)
                 /\ status' = [status EXCEPT ![Current(p)] = "putting"]
              \/ /\ "busy" \notin f /\ "dead" \in f
                 /\ prod'[p].control = prod[p].control /\ prod'[p].next = prod[p].next
                 /\ (prod[p].pc = "store" => Putting(p))
                 /\ status' = status
           /\ NewPages' = NewPages /\ LeftPages' = LeftPages
           /\ Kept
           /\ \A x : Inner(x)' <=> Inner(x)
           /\ \A x : Inner(x) => x \in Block
           /\ ~Stores(p)' /\ ~Creates(p)' /\ ~AdvancesTail(p)
           /\ SpansKept
<1>1. prod[p] \in Producer /\ prod \in [Producers -> Producer] /\ ProducerOK(p)
      /\ PutOK(rank, p) /\ CreationPlaced(p) /\ PutElementOK(p) /\ ReservationOK(p) /\ PutterOwns(p)
  BY Typed DEF IInv, TypeOK, TailTypeOK, Ordered, PutsOK, CreationOK, ElementsOK, ReservationsOK, OwnersOK
<1>2. /\ UNCHANGED <<m_head, cons, m_initial_page, m_tail>>
      /\ UNCHANGED <<content, pool, pinners>>
  BY DEF headVars, StoreBlock, StorePad
<1>3. m_next' = [m_next EXCEPT ![b] = NextWord(e, f)]
  <2>1. CASE StoreBlock(p)
    <3>1. f = prod[p].flags
      BY <2>1 DEF StoreBlock, PAt
    <3> QED
      BY <2>1, <3>1 DEF StoreBlock
  <2>2. CASE StorePad(p)
    <3>1. f = {"dead"}
      BY <2>2 DEF StorePad, PAt
    <3> QED
      BY <2>2, <3>1 DEF StorePad
  <2> QED
    BY <2>1, <2>2
<1>4. /\ Stores(p) /\ b \in Block /\ e \in Block /\ Inner(b) /\ m_next[b] = Zero
      /\ \A x \in Block : m_next'[x] = IF x = b THEN NextWord(e, f) ELSE m_next[x]
  <2>1. Stores(p)
    BY DEF StoreBlock, StorePad, Stores, PAt
  <2>2. b \in Block /\ e \in Block
    BY <2>1, ReservedBlock
  <2> QED
    BY <1>1, <1>3, <2>1, <2>2 DEF ReservationOK, IInv, TypeOK, BaseTypeOK
<1>5. \A q \in Producers \ {p} : prod'[q] = prod[q]
  BY <1>1 DEF StoreBlock, StorePad, PGoto, Retry
<1>6. /\ \A q \in Producers \ {p} : Stores(q) => prod[q].tail # b
      /\ \A q \in Producers : Putting(q) => prod[q].control # b
      /\ \A c \in Consumers : Takes(c) => cons[c].control # b
  <2>1. \A q \in Producers \ {p} : Stores(q) => prod[q].tail # b
    BY <1>4 DEF Ordered, ReservationsOK
  <2>2. \A q \in Producers : Putting(q) => prod[q].control # b
    BY <1>4 DEF Ordered, OwnersOK, PutterOwns, Zero
  <2>3. \A c \in Consumers : Takes(c) => cons[c].control # b
    <3>1. \A c : TakenWord(c) # Zero
      <4>1. \A c : "busy" \in TakenWord(c).flags
        BY DEF TakenWord, NextWord
      <4> QED
        BY <4>1 DEF Zero
    <3> QED
      BY <1>4, <3>1 DEF Ordered, OwnersOK, TakerOwns
  <2> QED
    BY <2>1, <2>2, <2>3
<1>7. /\ prod'[p].flags = prod[p].flags /\ prod'[p].puts = prod[p].puts
      /\ prod'[p].pinned = prod[p].pinned
      /\ \/ /\ prod[p].pc = "store" /\ prod'[p].pc = "fill"
            /\ prod'[p].tail = b /\ prod'[p].size = prod[p].size
         \/ prod[p].pc = "store_pad" /\ prod'[p].pc = "try"
  <2>1. CASE StoreBlock(p)
    BY <1>1, <2>1 DEF StoreBlock, PAt, PGoto, Producer
  <2>2. CASE StorePad(p)
    BY <1>1, <2>2 DEF StorePad, PAt, Retry, Producer
  <2> QED
    BY <2>1, <2>2
<1>8. \/ /\ prod[p].pc = "store" /\ "busy" \in f /\ "dead" \notin f /\ ~Putting(p)
         /\ prod'[p].control = b /\ prod'[p].next = NextWord(e, f)
         /\ status' = [status EXCEPT ![Current(p)] = "putting"]
      \/ /\ "busy" \notin f /\ "dead" \in f
         /\ prod'[p].control = prod[p].control /\ prod'[p].next = prod[p].next
         /\ (prod[p].pc = "store" => Putting(p))
         /\ status' = status
  <2>1. CASE StoreBlock(p)
    <3>1. /\ IF Putting(p) THEN "dead" \in f /\ "busy" \notin f ELSE "busy" \in f /\ "dead" \notin f
          /\ prod[p].pc = "store" /\ f = prod[p].flags
      BY <1>1, <1>3, <2>1 DEF PutOK, StoreBlock, PAt
    <3>2. CASE "busy" \in f
      <4>1. /\ status' = [status EXCEPT ![Current(p)] = "putting"]
            /\ prod' = [prod EXCEPT ![p].pc = "fill", ![p].control = b, ![p].next = NextWord(e, f)]
        BY <2>1, <3>1, <3>2 DEF StoreBlock, NextWord
      <4> QED
        BY <1>1, <3>1, <3>2, <4>1 DEF Producer
    <3>3. CASE "busy" \notin f
      <4>1. status' = status /\ PGoto(p, "fill")
        BY <2>1, <3>1, <3>3 DEF StoreBlock, NextWord
      <4> QED
        BY <1>1, <3>1, <3>3, <4>1 DEF PGoto, Producer
    <3> QED
      BY <3>2, <3>3
  <2>2. CASE StorePad(p)
    BY <1>1, <1>3, <2>2 DEF StorePad, Retry, Producer, PAt
  <2> QED
    BY <2>1, <2>2
<1>9. NewPages' = NewPages /\ LeftPages' = LeftPages
  <2>1. NewPages' = NewPages
    BY <1>5, <1>7, NewPagesKept DEF Created
  <2> QED
    BY <1>2, <2>1 DEF LeftPages
<1>10. Kept
  BY <1>2, <1>9 DEF Kept, LinkedPages, First
<1>11. /\ \A x : Inner(x)' <=> Inner(x)
       /\ \A x : Inner(x) => x \in Block
  BY <1>10, LiveKept DEF Inner, Live
<1>12. ~Stores(p)' /\ ~Creates(p)' /\ ~AdvancesTail(p)
  BY <1>7 DEF Stores, Creates, AdvancesTail, PAt
<1>13. SpansKept
  <2>1. \A x : \A q \in Producers \ {p} : q \in Reserving(x)' <=> q \in Reserving(x)
    BY <1>5 DEF Reserving
  <2>2. \A q \in Producers \ {p} : ReservedEnd(q)' = ReservedEnd(q)
    BY <1>5 DEF ReservedEnd, PAt
  <2>3. \A x : p \notin Reserving(x)' /\ (p \in Reserving(x) <=> x = b)
    BY <1>4, <1>12 DEF Reserving, Stores
  <2>4. \A x : Reserving(x) \subseteq Producers /\ Reserving(x)' \subseteq Producers
    BY DEF Reserving
  <2>5. \A q \in Producers : q \in Reserving(b) => q = p
    BY <1>6 DEF Reserving, Stores
  <2>6. ASSUME NEW x \in Block, NEW g \in Block, x # b PROVE Spans(x, g)' <=> Spans(x, g)
    BY <1>4, <2>1, <2>2, <2>3, <2>4, <2>6 DEF Spans
  <2>7. ASSUME NEW g \in Block PROVE Spans(b, g)' <=> Spans(b, g)
    <3>1. Spans(b, g) <=> g = e
      BY <1>4, <2>3, <2>4, <2>5, Addresses DEF Spans, Zero
    <3>2. Reserving(b)' = {}
      BY <2>1, <2>3, <2>4, <2>5
    <3>3. Spans(b, g)' <=> g = e
      BY <1>4, <3>2 DEF Spans, NextWord
    <3> QED
      BY <3>1, <3>3
  <2> QED
    BY <2>6, <2>7 DEF SpansKept
<1> QED
  BY <1>4, <1>5, <1>6, <1>7, <1>8, <1>9, <1>10, <1>11, <1>12, <1>13

\* The control word of a reserved block is stored.
LEMMA StoresKeepOrder ==
    ASSUME NEW rank \in [Pages -> Nat], IInv, Ordered(rank), UNCHANGED headVars,
           NEW p \in Producers, StoreBlock(p) \/ StorePad(p)
    PROVE  Ordered(rank)'
<1>1. prod[p] \in Producer /\ prod \in [Producers -> Producer] /\ ProducerOK(p)
      /\ PutOK(rank, p) /\ CreationPlaced(p) /\ PutElementOK(p) /\ ReservationOK(p) /\ PutterOwns(p)
  BY Typed DEF IInv, TypeOK, TailTypeOK, Ordered, PutsOK, CreationOK, ElementsOK, ReservationsOK, OwnersOK
<1>2. /\ UNCHANGED <<m_head, cons, m_initial_page, m_tail>>
      /\ UNCHANGED <<content, pool, pinners>>
  BY DEF headVars, StoreBlock, StorePad
<1>3. PICK b, e : b = prod[p].tail /\ e = ReservedEnd(p)
  OBVIOUS
<1>4. PICK f : f = IF prod[p].pc = "store" THEN prod[p].flags ELSE {"dead"}
  OBVIOUS
<1>5. /\ Stores(p) /\ b \in Block /\ e \in Block /\ Inner(b) /\ m_next[b] = Zero
      /\ \A x \in Block : m_next'[x] = IF x = b THEN NextWord(e, f) ELSE m_next[x]
  BY <1>3, <1>4, BlockStored
<1>6. \A q \in Producers \ {p} : prod'[q] = prod[q]
  BY <1>3, <1>4, BlockStored
<1>7. /\ \A q \in Producers \ {p} : Stores(q) => prod[q].tail # b
      /\ \A q \in Producers : Putting(q) => prod[q].control # b
      /\ \A c \in Consumers : Takes(c) => cons[c].control # b
  BY <1>3, <1>4, BlockStored
<1>8. /\ prod'[p].flags = prod[p].flags /\ prod'[p].puts = prod[p].puts
      /\ prod'[p].pinned = prod[p].pinned
      /\ \/ /\ prod[p].pc = "store" /\ prod'[p].pc = "fill"
            /\ prod'[p].tail = b /\ prod'[p].size = prod[p].size
         \/ prod[p].pc = "store_pad" /\ prod'[p].pc = "try"
  BY <1>3, <1>4, BlockStored
<1>9. \/ /\ prod[p].pc = "store" /\ "busy" \in f /\ "dead" \notin f /\ ~Putting(p)
         /\ prod'[p].control = b /\ prod'[p].next = NextWord(e, f)
         /\ status' = [status EXCEPT ![Current(p)] = "putting"]
      \/ /\ "busy" \notin f /\ "dead" \in f
         /\ prod'[p].control = prod[p].control /\ prod'[p].next = prod[p].next
         /\ (prod[p].pc = "store" => Putting(p))
         /\ status' = status
  BY <1>3, <1>4, BlockStored
<1>10. NewPages' = NewPages /\ LeftPages' = LeftPages
  BY <1>3, <1>4, BlockStored
<1>11. Kept
  BY <1>3, <1>4, BlockStored
<1>12. /\ \A x : Inner(x)' <=> Inner(x)
       /\ \A x : Inner(x) => x \in Block
  BY <1>3, <1>4, BlockStored
<1>13. ~Stores(p)' /\ ~Creates(p)' /\ ~AdvancesTail(p)
  BY <1>3, <1>4, BlockStored
<1>14. SpansKept
  BY <1>3, <1>4, BlockStored
<1>15. ProducerWrites(p, {}) /\ OwnPages(p, {}) /\ EndPinsOfOthers(p)
  <2>1. ProducerWrites(p, {})
    <3>1. /\ m_next'[b].to = e /\ e # NoBlock /\ m_next[b].to = NoBlock /\ ~IsDead(m_next[b])
      BY <1>5, Addresses DEF NextWord, Zero, IsDead
    <3> QED
      BY <1>5, <1>7, <3>1 DEF ProducerWrites
  <2> QED
    BY <1>2, <1>10, <2>1 DEF OwnPages, EndPinsOfOthers
<1>16. PutterOwns(p)'
  <2>1. CASE prod'[p].control = b /\ "busy" \in f
    <3>1. prod'[p].next = NextWord(e, f) /\ "dead" \notin f
      BY <1>9, <2>1
    <3> QED
      BY <1>5, <1>12, <2>1, <3>1 DEF PutterOwns, NextWord
  <2>2. CASE "busy" \notin f
    BY <1>1, <1>5, <1>7, <1>9, <1>12, <2>2 DEF PutterOwns, Putting
  <2> QED
    BY <1>9, <2>1, <2>2
<1>17. Putting(p)' => \/ Putting(p) /\ prod'[p].control = prod[p].control
                      \/ prod'[p].control = b
  BY <1>9 DEF Putting
<1>18. PutOK(rank, p)'
  <2>1. CASE prod[p].pc = "store"
    <3>1. /\ prod'[p].pc = "fill" /\ prod'[p].tail = b
          /\ prod'[p].flags = f /\ prod'[p].size = prod[p].size
      BY <1>4, <1>8, <2>1
    <3>2. Putting(p)' /\ (prod'[p].control = b <=> "dead" \notin f)
      BY <1>5, <1>7, <1>9, <2>1, Addresses DEF Putting
    <3>3. m_next'[b].to = NewTail(b, prod[p].size)
      BY <1>3, <1>5, <2>1 DEF ReservedEnd, PAt, NextWord
    <3>4. prod'[p].control # b => IsDead(m_next'[b])
      BY <1>5, <1>9 DEF IsDead, NextWord
    <3>5. prod'[p].control # b => Before(rank, prod'[p].control, b)
      <4>1. prod'[p].control # b => Putting(p) /\ prod'[p].control = prod[p].control
        BY <1>9, <2>1
      <4> QED
        BY <1>1, <1>3, <2>1, <4>1 DEF PutOK
    <3> QED
      BY <1>5, <1>12, <3>1, <3>2, <3>3, <3>4, <3>5 DEF PutOK, Before
  <2>2. CASE prod[p].pc = "store_pad"
    BY <1>1, <1>8, <1>9, <2>2 DEF PutOK, Putting
  <2> QED
    BY <1>8, <2>1, <2>2
<1>19. CreationPlaced(p)'
  BY <1>1, <1>2, <1>8 DEF CreationPlaced
<1>20. \A x : InBlock(x) => InBlock(x)'
  BY <1>2, <1>6, <1>11, <1>15, ProducerKeepsOthers DEF Kept
<1>21. \A x : BeingWiped(x)' <=> BeingWiped(x)
  BY <1>2, <1>6, <1>11, <1>15, ProducerKeepsOthers DEF Kept
<1>22. \A x \in Block : ReadyBlock(x)' => ReadyBlock(x)
  BY <1>5, <1>9, <1>12 DEF ReadyBlock, NextWord
<1>23. ContentsWiped'
  BY <1>2, <1>20, <1>21 DEF Ordered, ContentsWiped
<1>24. ElementsOK'
  <2>1. CASE status' = status /\ prod'[p].control = prod[p].control
    <3>1. PutElementOK(p)'
      <4>1. Putting(p)' <=> Putting(p)
        BY <2>1 DEF Putting
      <4>2. prod[p].pc = "store" => "dead" \in f /\ prod[p].control # b /\ Putting(p)
        BY <1>5, <1>7, <1>9, <2>1, Addresses DEF Putting
      <4> QED
        BY <1>1, <1>2, <1>8, <2>1, <4>1, <4>2 DEF PutElementOK, Current, PAt
    <3> QED
      BY <1>2, <1>6, <1>20, <1>21, <1>22, <2>1, <3>1, ElementsKept
  <2>2. CASE /\ prod[p].pc = "store" /\ ~Putting(p) /\ prod'[p].control = b
             /\ status' = [status EXCEPT ![Current(p)] = "putting"]
    BY <1>1, <1>2, <1>5, <1>6, <1>8, <1>22, <2>2, ElementStarts
  <2> QED
    BY <1>9, <2>1, <2>2
<1> QED
  BY <1>2, <1>6, <1>7, <1>11, <1>13, <1>14, <1>15, <1>16, <1>17, <1>18, <1>19, <1>23, <1>24,
     ProducerKeepsOrder DEF NewPageBlank, ReservationOK

\* A step that changes nothing.
LEMMA UnchangedKeepsOrder ==
    ASSUME NEW rank, Ordered(rank), UNCHANGED vars
    PROVE  Ordered(rank)'
<1>1. UNCHANGED <<m_next, content, pool, pinners, m_initial_page, status, m_head, cons, m_tail, prod>>
  BY DEF vars, baseVars, headVars, tailVars
<1>2. LinkedPages' = LinkedPages /\ First' = First /\ NewPages' = NewPages
  BY <1>1 DEF LinkedPages, NewPages, LeftPages, First
<1>3. PagesOrdered(rank)' /\ HeadPlace' /\ TailPlace' /\ NewPagesBlank'
  BY <1>1, <1>2 DEF Ordered, PagesOrdered, PageOrdered, HeadPlace, TailPlace, NewPagesBlank,
     NewPageBlank, Creates, Open, TailSlot, AdvancesTail, PAt
<1>4. LeftBehind' /\ ConsumersPlaced'
  BY <1>1, <1>2 DEF Ordered, LeftBehind, ConsumersPlaced, ConsumerPlaced, Live, Passed
<1>5. BlocksApart' /\ ReservationsOK'
  <2>1. \A x : Open(x)' <=> Open(x)
    BY <1>1, <1>2 DEF Open
  <2>2. \A x : TailSlot(x)' = TailSlot(x)
    BY <1>1 DEF TailSlot
  <2>3. \A a, e : Spans(a, e)' <=> Spans(a, e)
    BY <1>1 DEF Spans, Reserving, ReservedEnd, PAt
  <2>4. \A x : Inner(x)' <=> Inner(x)
    BY <1>2 DEF Inner, Live
  <2>5. BlocksApart'
    BY <1>1, <2>1, <2>2, <2>3, <2>4 DEF Ordered, BlocksApart, BlockApart
  <2>6. ReservationsOK'
    BY <1>1, <2>4 DEF Ordered, ReservationsOK, ReservationOK, Stores
  <2> QED
    BY <2>5, <2>6
<1>6. OwnersOK' /\ PutsOK(rank)' /\ CreationOK'
  BY <1>1, <1>2 DEF Ordered, OwnersOK, PutterOwns, TakerOwns, TakenWord, Putting, Takes, At, PutsOK,
     PutOK, CreationOK, CreationPlaced, Inner, Live, Open
<1>7. ContentsWiped' /\ ElementsOK'
  BY <1>1, <1>2 DEF Ordered, ContentsWiped, InBlock, BeingWiped, Wipes, ElementsOK, PutElementOK,
     Putting, Takes, At, PAt, Current, ReadyBlock, Holds, Inner, Live
<1> QED
  BY <1>3, <1>4, <1>5, <1>6, <1>7 DEF Ordered

\* Whatever a producer does, the blocks stay in order: a page that it links
\* comes after the last one.
LEMMA ProducerSteps ==
    ASSUME NEW rank \in [Pages -> Nat], IInv, Ordered(rank), m_rest = 0, UNCHANGED headVars,
           NEW p \in Producers, ProducerNext(p)
    PROVE  m_rest' = 0 /\ \E rank2 \in [Pages -> Nat] : Ordered(rank2)'
<1>1. CASE TransactionStep(p)
  <2>1. m_rest' = m_rest
    BY <1>1 DEF TransactionStep, StartPut, RawAllocate, CommitPut, CancelPut, EndPut
  <2>2. Ordered(rank)'
    BY <1>1, StartsKeepOrder, EndPutKeepsOrder DEF TransactionStep
  <2> QED
    BY <2>1, <2>2
<1>2. CASE LoadTail(p) \/ Fill(p) \/ GiveUp(p)
  <2>1. m_rest' = m_rest
    BY <1>2 DEF LoadTail, Fill, GiveUp
  <2>2. Ordered(rank)'
    BY <1>2, LoopKeepsOrder, FillKeepsOrder, StartsKeepOrder
  <2> QED
    BY <2>1, <2>2
<1>3. CASE Reserve(p) \/ StoreBlock(p) \/ Pad(p) \/ StorePad(p)
  <2>1. m_rest' = m_rest
    BY <1>3 DEF Reserve, StoreBlock, Pad, StorePad
  <2>2. Ordered(rank)'
    BY <1>3, TailStepsKeepOrder, StoresKeepOrder
  <2> QED
    BY <2>1, <2>2
<1>4. CASE NextPage(p)
  <2>1. m_rest' = m_rest
    BY <1>4 DEF NextPage, PinEnd, RecheckTail, CreatePage, CreatePageFails, LinkPage,
       DiscardPage, AdvanceTail, UnpinEnd, UnpinFailed, baseVars
  <2>2. CASE LinkPage(p)
    BY <2>1, <2>2, OvertakenKeepsOrder, LinkPageKeepsOrder
  <2>3. CASE AdvanceTail(p)
    BY <2>1, <2>3, OvertakenKeepsOrder, NextPageKeepsOrder
  <2>4. CASE RecheckTail(p) \/ CreatePage(p) \/ DiscardPage(p)
    BY <2>1, <2>4, OvertakenKeepsOrder, CreatePageKeepsOrder, DiscardsKeepOrder
  <2>5. CASE PinEnd(p) \/ CreatePageFails(p) \/ UnpinEnd(p) \/ UnpinFailed(p)
    BY <2>1, <2>5, LoopKeepsOrder
  <2> QED
    BY <1>4, <2>2, <2>3, <2>4, <2>5 DEF NextPage
<1>5. CASE InitialPage(p)
  <2>1. m_rest' = m_rest
    BY <1>5 DEF InitialPage, InitPage, DiscardInitial, InitTail
  <2>2. Ordered(rank)'
    BY <1>5, OvertakenKeepsOrder, InitPageKeepsOrder, DiscardsKeepOrder, NextPageKeepsOrder
       DEF InitialPage
  <2> QED
    BY <2>1, <2>2
<1> QED
  BY <1>1, <1>2, <1>3, <1>4, <1>5 DEF ProducerNext, ProducerStep

\* An empty queue is in order, however its pages are counted.
LEMMA InitOrder ==
    ASSUME Init, NEW rank
    PROVE  Ordered(rank)
<1>1. /\ \A q \in Pages : pool[q] = "zeroed"
      /\ \A b \in Block : m_next[b] = Zero /\ content[b] = NoItem
      /\ m_initial_page = NoPage /\ m_head = NoBlock /\ m_tail = InvalidBlock
      /\ \A e \in Element : status[e] = "none"
      /\ \A p \in Producers : prod[p] = NewProducer
      /\ \A c \in Consumers : cons[c] = NewConsume
  BY DEF Init, BaseInit, HeadInit, TailInit
<1>2. LinkedPages = {}
  BY <1>1 DEF LinkedPages
<1>3. \A b : ~Live(b) /\ ~Inner(b)
  BY <1>2 DEF Live, Inner
<1>4. PagesOrdered(rank) /\ HeadPlace /\ TailPlace
  BY <1>1, <1>2 DEF PagesOrdered, HeadPlace, TailPlace
<1>5. NewPagesBlank /\ ReservationsOK
  BY <1>1 DEF NewPagesBlank, NewPageBlank, Creates, ReservationsOK, ReservationOK, Stores, NewProducer
<1>6. BlocksApart /\ LeftBehind /\ ContentsWiped
  BY <1>1, <1>3 DEF BlocksApart, LeftBehind, ContentsWiped
<1>7. ConsumersPlaced
  BY <1>1 DEF ConsumersPlaced, ConsumerPlaced, Passed, NewConsume
<1>8. OwnersOK
  BY <1>1 DEF OwnersOK, PutterOwns, TakerOwns, Putting, Takes, At, NewProducer, NewConsume
<1>9. PutsOK(rank) /\ CreationOK
  BY <1>1 DEF PutsOK, PutOK, Putting, CreationOK, CreationPlaced, NewProducer
<1>10. ElementsOK
  <2>1. \A p \in Producers : PutElementOK(p)
    <3> SUFFICES ASSUME NEW p \in Producers PROVE PutElementOK(p)
      OBVIOUS
    <3>1. prod[p].pc = "idle" /\ ~Putting(p)
      BY <1>1 DEF Putting, NewProducer
    <3>2. \A k \in 1 .. MaxPuts : <<p, k>> \in Element
      BY DEF Element
    <3> QED
      BY <1>1, <3>1, <3>2 DEF PutElementOK, PAt
  <2>2. \A c \in Consumers : ~Takes(c)
    BY <1>1 DEF Takes, At, NewConsume
  <2> QED
    BY <1>3, <2>1, <2>2 DEF ElementsOK, ReadyBlock
<1> QED
  BY <1>4, <1>5, <1>6, <1>7, <1>8, <1>9, <1>10 DEF Ordered

\* The blocks lie in order, whatever the order is; and the relaxed layer
\* leaves no rest in the tail.
OrderInv == IInv /\ m_rest = 0 /\ \E rank \in [Pages -> Nat] : Ordered(rank)

\* OrderInv is inductive.
LEMMA NextKeepsOrder == OrderInv /\ [Next]_vars => OrderInv'
<1> SUFFICES ASSUME OrderInv, [Next]_vars PROVE OrderInv'
  OBVIOUS
<1>1. IInv /\ IInv' /\ m_rest = 0
  BY NextKeepsIInv DEF OrderInv
<1>2. PICK rank \in [Pages -> Nat] : Ordered(rank)
  BY DEF OrderInv
<1>3. ASSUME NEW c \in Consumers, ConsumerNext(c), UNCHANGED tailVars
      PROVE  OrderInv'
  <2>1. Ordered(rank)'
    BY <1>1, <1>2, <1>3, RelaxedAssumption, ConsumerKeepsOrder
  <2>2. m_rest' = 0
    BY <1>1, <1>3 DEF tailVars
  <2> QED
    BY <1>1, <2>1, <2>2 DEF OrderInv
<1>4. ASSUME NEW p \in Producers, ProducerNext(p), UNCHANGED headVars
      PROVE  OrderInv'
  <2>1. m_rest' = 0 /\ \E rank2 \in [Pages -> Nat] : Ordered(rank2)'
    BY <1>1, <1>2, <1>4, ProducerSteps
  <2> QED
    BY <1>1, <2>1 DEF OrderInv
<1>5. CASE UNCHANGED vars
  <2>1. Ordered(rank)'
    BY <1>2, <1>5, UnchangedKeepsOrder
  <2>2. m_rest' = 0
    BY <1>1, <1>5 DEF vars, tailVars
  <2> QED
    BY <1>1, <2>1, <2>2 DEF OrderInv
<1> QED
  BY <1>3, <1>4, <1>5 DEF Next

LEMMA InitOrderInv == Init => OrderInv
<1> SUFFICES ASSUME Init PROVE OrderInv
  OBVIOUS
<1>1. [q \in Pages |-> 0] \in [Pages -> Nat] /\ Ordered([q \in Pages |-> 0])
  BY InitOrder
<1>2. IInv /\ m_rest = 0
  BY InitIInv DEF Init, TailInit
<1> QED
  BY <1>1, <1>2 DEF OrderInv

\* The inductive invariant behind what follows holds in every reachable state.
THEOREM OrderInvariance == Spec => []OrderInv
BY InitOrderInv, NextKeepsOrder, PTL DEF Spec

---------------------------------------------------------------------------
(* What the threads rely on *)

\* A consumer keeps the element it has taken.
LEMMA TakerHolds ==
    ASSUME IInv, NEW rank, Ordered(rank), NEW c \in Consumers, Takes(c)
    PROVE  /\ cons[c].control \in Block
           /\ m_next[cons[c].control] = [cons[c].next EXCEPT !.flags = (@ \ {"dead"}) \cup {"busy"}]
           /\ content[cons[c].control] \in Item /\ content[cons[c].control][3] = 0
           /\ status[ElementOf(content[cons[c].control])] = "consuming"
           /\ c \in pinners[PageOf(cons[c].control)]
<1>1. cons[c].next \in NextPtr
  BY Typed DEF Consume
<1>2. TakerOwns(c) /\ Holds(cons[c].control, "consuming")
  BY DEF Ordered, OwnersOK, ElementsOK
<1>3. cons[c].control \in Block /\ cons[c].control # NoBlock
  BY <1>2, Addresses DEF TakerOwns, Inner, Live
<1>4. TakenWord(c) = [cons[c].next EXCEPT !.flags = (@ \ {"dead"}) \cup {"busy"}]
  BY <1>1 DEF TakenWord, NextWord, NextPtr
<1> QED
  BY <1>2, <1>3, <1>4 DEF TakerOwns, Holds, IInv, ControlPinned

\* What consume_dbg_checks asserts of a consume operation in progress: its
\* control word is the one the consumer made busy, its element is there, and
\* no other operation holds it, whatever the other threads do.
THEOREM ElementHeld == Spec => []ConsumeHolds
<1>1. OrderInv => ConsumeHolds
  <2> SUFFICES ASSUME OrderInv, NEW c \in Consumers, At(c, "consuming")
               PROVE  /\ m_next[cons[c].control] = [cons[c].next EXCEPT !.flags = (@ \ {"dead"}) \cup {"busy"}]
                      /\ content[cons[c].control] # NoItem /\ content[cons[c].control][3] = 0
                      /\ status[ElementOf(content[cons[c].control])] = "consuming"
                      /\ c \in pinners[PageOf(cons[c].control)]
                      /\ \A d \in Consumers \ {c} : At(d, "consuming") => cons[d].control # cons[c].control
    BY DEF ConsumeHolds
  <2>1. PICK rank \in [Pages -> Nat] : Ordered(rank)
    BY DEF OrderInv
  <2>2. content[cons[c].control] # NoItem
    <3>1. content[cons[c].control] \in Item
      BY <2>1, TakerHolds DEF OrderInv, Takes
    <3>2. \A i \in Item : i[2] # 0
      BY DEF Item
    <3>3. NoItem[2] = 0
      BY DEF NoItem
    <3> QED
      BY <3>1, <3>2, <3>3
  <2>3. \A d \in Consumers \ {c} : At(d, "consuming") => cons[d].control # cons[c].control
    BY <2>1 DEF Ordered, OwnersOK, Takes
  <2> QED
    BY <2>1, <2>2, <2>3, TakerHolds DEF OrderInv, Takes
<1> QED
  BY <1>1, OrderInvariance, PTL

\* The block that a producer has just reserved is in no block that has been
\* written, nor is it still to be wiped.
LEMMA ReservedBlank == OrderInv => ReservedIsZero
<1> SUFFICES ASSUME OrderInv, NEW p \in Producers, Stores(p)
             PROVE  m_next[prod[p].tail] = Zero /\ content[prod[p].tail] = NoItem
  BY DEF ReservedIsZero, Stores, PAt
<1>1. PICK rank \in [Pages -> Nat] : Ordered(rank)
  BY DEF OrderInv
<1>2. PICK t, e : t = prod[p].tail /\ e = ReservedEnd(p)
  OBVIOUS
<1>3. /\ t \in Block /\ e \in Block /\ Inner(t) /\ m_next[t] = Zero
      /\ p \in Reserving(t) /\ Spans(t, e)
  BY <1>1, <1>2, ReservedBlock DEF OrderInv, Ordered, ReservationsOK, ReservationOK, Stores,
     Reserving, Spans
<1>4. ~InBlock(t)
  <2> SUFFICES ASSUME NEW b \in Block, Inner(b), Between(b, t, m_next[b].to) PROVE FALSE
    BY DEF InBlock
  <2>1. m_next[b].to \in Block
    BY Spots, BaseAssumption, Typed, <1>3 DEF OrderInv, Between, SamePage, NextPtr, BlockOrNull, NoBlock, PageOf
  <2>2. BlockApart(b, m_next[b].to)
    BY <1>1, <2>1 DEF Ordered, BlocksApart, Spans
  <2>3. b # t
    BY <1>3, <2>1, Addresses DEF Zero
  <2>4. m_next[b].to[2] <= t[2]
    BY <1>3, <2>2, <2>3 DEF BlockApart, Between
  <2> QED
    BY <1>3, <2>1, <2>4, Spots DEF Between
<1>5. ~BeingWiped(t)
  <2> SUFFICES ASSUME NEW c \in Consumers, Wipes(c), Between(cons[c].control, t, cons[c].next.to)
               PROVE  FALSE
    BY DEF BeingWiped
  <2>1. /\ ~Live(cons[c].control) /\ SamePage(cons[c].control, cons[c].next.to)
        /\ PageOf(cons[c].control) = PageOf(First) => cons[c].next.to[2] <= First[2]
    BY <1>1 DEF Ordered, ConsumersPlaced, ConsumerPlaced, Wipes, Between
  <2>2. cons[c].control \in Block /\ cons[c].next.to \in Block
    BY Typed DEF OrderInv, ConsumerOK, Wipes
  <2>3. PageOf(t) = PageOf(First) /\ First[2] <= t[2]
    BY <1>3, <2>1, <2>2 DEF Live, Inner, Between, SamePage
  <2>4. cons[c].next.to[2] <= First[2] /\ t[2] < cons[c].next.to[2]
    BY <2>1, <2>3 DEF Between, SamePage
  <2>5. First[2] \in Nat /\ t[2] \in Nat /\ cons[c].next.to[2] \in Nat
    BY <1>3, <2>2, Spots, Typed DEF OrderInv
  <2> QED
    BY <2>3, <2>4, <2>5
<1> QED
  BY <1>1, <1>2, <1>3, <1>4, <1>5 DEF Ordered, ContentsWiped

\* try_inplace_allocate_impl finds the block that it has just moved the tail
\* past zeroed, its control word and its contents: a page that consumers have
\* given back is as good as a new one.
THEOREM ReservationsBlank == Spec => []ReservedIsZero
BY ReservedBlank, OrderInvariance, PTL

\* A step that changes the status of an element is one of its life.
LEMMA NextChangesStatus == OrderInv /\ [Next]_vars => \A e \in Element : StatusStep(status[e], status'[e])
<1> SUFFICES ASSUME OrderInv, [Next]_vars, NEW e \in Element PROVE StatusStep(status[e], status'[e])
  OBVIOUS
<1>1. PICK rank \in [Pages -> Nat] : Ordered(rank)
  BY DEF OrderInv
<1>2. /\ IInv /\ status \in [Element -> Status]
      /\ \A p \in Producers : PutElementOK(p)
  BY <1>1 DEF OrderInv, IInv, TypeOK, BaseTypeOK, Ordered, ElementsOK
<1>3. ASSUME NEW i, NEW s, status' = [status EXCEPT ![i] = s],
             \/ status[i] = "putting" /\ s \in {"ready", "cancelled"}
             \/ status[i] = "none" /\ s = "putting"
             \/ status[i] = "ready" /\ s = "consuming"
             \/ status[i] = "consuming" /\ s \in {"ready", "consumed"}
      PROVE  StatusStep(status[e], status'[e])
  BY <1>2, <1>3 DEF StatusStep
<1>4. CASE UNCHANGED status
  BY <1>4 DEF StatusStep
<1>5. ASSUME NEW p \in Producers, StoreBlock(p)
      PROVE  StatusStep(status[e], status'[e])
  <2>1. CASE status' = [status EXCEPT ![Current(p)] = "putting"]
    <3>1. prod[p].pc = "store"
      BY <1>5 DEF StoreBlock, PAt
    <3>2. CASE "busy" \notin prod[p].flags
      <4>1. status' = status
        BY <1>5, <3>2 DEF StoreBlock, NextWord
      <4> QED
        BY <1>4, <4>1
    <3>3. CASE "busy" \in prod[p].flags
      <4>1. ~Putting(p)
        BY <1>1, <3>1, <3>3 DEF Ordered, PutsOK, PutOK
      <4>2. status[Current(p)] = "none"
        BY <1>2, <3>1, <4>1 DEF PutElementOK, PAt
      <4> QED
        BY <1>3, <2>1, <4>2
    <3> QED
      BY <3>2, <3>3
  <2>2. CASE UNCHANGED status
    BY <1>4, <2>2
  <2>3. \/ status' = [status EXCEPT ![Current(p)] = "putting"]
        \/ UNCHANGED status
    BY <1>5 DEF StoreBlock
  <2> QED
    BY <2>1, <2>2, <2>3
<1>6. ASSUME NEW p \in Producers, CommitPut(p) \/ CancelPut(p)
      PROVE  StatusStep(status[e], status'[e])
  <2>1. PICK s \in {"ready", "cancelled"} : status' = [status EXCEPT ![Current(p)] = s]
    BY <1>6 DEF CommitPut, CancelPut, EndPut
  <2>2. prod[p].pc = "pending"
    BY <1>6 DEF CommitPut, CancelPut, EndPut, PAt
  <2>3. status[Current(p)] = "putting"
    BY <1>1, <1>2, <2>2 DEF Ordered, PutsOK, PutOK, PutElementOK
  <2> QED
    BY <1>3, <2>1, <2>3
<1>7. ASSUME NEW c \in Consumers, TryBusy(c)
      PROVE  StatusStep(status[e], status'[e])
  <2>1. CASE m_next[cons[c].control] = cons[c].next
    <3>1. cons[c].pc = "try_busy" /\ cons[c].control \in Block /\ cons[c].next.to \in Block
          /\ Consumable(cons[c].next)
      BY <1>1, <1>2, <1>7, Typed DEF TryBusy, At, ConsumerOK, Ordered, ConsumersPlaced, ConsumerPlaced
    <3>2. Holds(cons[c].control, "ready")
      BY <1>1, <1>2, <2>1, <3>1, ReadyFound DEF Ordered, ElementsOK
    <3>3. status' = [status EXCEPT ![ElementOf(content[cons[c].control])] = "consuming"]
      BY <1>7, <2>1 DEF TryBusy
    <3> QED
      BY <1>3, <3>2, <3>3 DEF Holds
  <2>2. CASE m_next[cons[c].control] # cons[c].next
    BY <1>4, <1>7, <2>2 DEF TryBusy
  <2> QED
    BY <2>1, <2>2
<1>8. ASSUME NEW c \in Consumers, CommitConsume(c) \/ CancelConsume(c)
      PROVE  StatusStep(status[e], status'[e])
  <2>1. PICK s \in {"ready", "consumed"} :
          status' = [status EXCEPT ![ElementOf(content[cons[c].control])] = s]
    BY <1>8 DEF CommitConsume, CancelConsume
  <2>2. Takes(c)
    BY <1>8 DEF CommitConsume, CancelConsume, Takes
  <2>3. status[ElementOf(content[cons[c].control])] = "consuming"
    BY <1>1, <1>2, <2>2, TakerHolds
  <2> QED
    BY <1>3, <2>1, <2>3
<1>9. ASSUME NEW c \in Consumers, ConsumerNext(c)
      PROVE  StatusStep(status[e], status'[e])
  <2>1. \/ TryBusy(c) \/ CommitConsume(c) \/ CancelConsume(c)
        \/ UNCHANGED status
    BY <1>9 DEF ConsumerNext, ConsumerStep, Start, LoadHead, ReloadHead, LoadInitialPage, InitHead,
       PinHead, UnpinOld, LoadHeadNext, Return, AdvanceHead, FreeExternal, ZeroControl, Memset,
       DeallocatePage, MoveNext, Reread, UnpinLeft, LoadNext, DestroyConsume, baseVars
  <2> QED
    BY <1>4, <1>7, <1>8, <2>1
<1>10. ASSUME NEW p \in Producers, ProducerNext(p)
       PROVE  StatusStep(status[e], status'[e])
  <2>1. StoreBlock(p) \/ CommitPut(p) \/ CancelPut(p) \/ UNCHANGED status
    BY <1>10 DEF ProducerNext, TransactionStep, ProducerStep, NextPage, InitialPage, StartPut,
       RawAllocate, LoadTail, Reserve, Fill, GiveUp, Pad, StorePad, PinEnd, RecheckTail, CreatePage,
       CreatePageFails, LinkPage, DiscardPage, AdvanceTail, UnpinEnd, UnpinFailed, InitPage,
       DiscardInitial, InitTail, baseVars
  <2> QED
    BY <1>4, <1>5, <1>6, <2>1
<1> QED
  BY <1>4, <1>9, <1>10 DEF Next, vars, baseVars

\* Every element that is committed is consumed once, by one consumer, and one
\* that is cancelled is never consumed: a step moves an element along its
\* life, and only a cancelled consume goes back.
THEOREM TakenOnce == Spec => ConsumedOnce
<1>1. OrderInv /\ [Next]_vars => [\A e \in Element : StatusStep(status[e], status'[e])]_status
  BY NextChangesStatus
<1> QED
  BY <1>1, OrderInvariance, PTL DEF Spec, ConsumedOnce

---------------------------------------------------------------------------
(* Nothing is missing *)

\* try_inplace_allocate_impl stores the control word that fills the gap before
\* the tail.
LEMMA StoresLoseNothing ==
    ASSUME NEW rank \in [Pages -> Nat], IInv, Ordered(rank), NothingMissing, UNCHANGED headVars,
           NEW p \in Producers, StoreBlock(p) \/ StorePad(p)
    PROVE  NothingMissing'
<1>1. UNCHANGED <<cons, content, pool>>
  BY DEF headVars, StoreBlock, StorePad
<1>2. PICK b, e : b = prod[p].tail /\ e = ReservedEnd(p)
  OBVIOUS
<1>3. PICK f : f = IF prod[p].pc = "store" THEN prod[p].flags ELSE {"dead"}
  OBVIOUS
<1>4. /\ b \in Block /\ e \in Block /\ Inner(b) /\ m_next[b] = Zero
      /\ \A x \in Block : m_next'[x] = IF x = b THEN NextWord(e, f) ELSE m_next[x]
  BY <1>2, <1>3, BlockStored
<1>5. /\ \A q \in Producers \ {p} : prod'[q] = prod[q]
      /\ prod'[p].flags = prod[p].flags
  BY <1>2, <1>3, BlockStored
<1>6. /\ Kept /\ SpansKept
      /\ \A x : Inner(x)' <=> Inner(x)
  BY <1>2, <1>3, BlockStored
<1>7. \/ status' = status
      \/ status' = [status EXCEPT ![Current(p)] = "putting"]
  BY <1>2, <1>3, BlockStored
<1>8. EndsKept
  <2>1. \A x \in LinkedPages : End(x) \in Block /\ End(x) # b
    BY <1>4, EndsLive, Spots DEF LinkedPages
  <2> QED
    BY <1>4, <2>1 DEF EndsKept
<1>9. Located'
  <2>1. \A i \in Element : status'[i] \in {"ready", "consuming"} => status[i] = status'[i]
    BY <1>7 DEF IInv, TypeOK, BaseTypeOK
  <2>2. \A x \in Block : ReadyBlock(x) => x # b
    BY <1>4, Addresses DEF ReadyBlock, Zero
  <2>3. \A x \in Block : ReadyBlock(x) => ReadyBlock(x)'
    BY <1>4, <1>6, <2>2 DEF ReadyBlock
  <2>4. \A c \in Consumers : Takes(c) => Takes(c)'
    BY <1>1 DEF Takes, At
  <2> QED
    BY <1>1, <2>1, <2>3, <2>4, LocatedStays DEF NothingMissing
<1>10. "invalid_next_page" \notin f
  BY <1>3 DEF NothingMissing, LinksValid
<1>11. /\ \A x \in Block : m_next'[x] = m_next[x] \/ "invalid_next_page" \notin m_next'[x].flags
       /\ \A q \in Producers : prod'[q].flags = prod[q].flags
  BY <1>4, <1>5, <1>10 DEF NextWord
<1> QED
  BY <1>1, <1>6, <1>8, <1>9, <1>11, PutKeepsRest

\* No step of a producer loses a page, a block or an element.
LEMMA ProducerLosesNothing ==
    ASSUME NEW rank \in [Pages -> Nat], IInv, Ordered(rank), NothingMissing, m_rest = 0, UNCHANGED headVars,
           NEW p \in Producers, ProducerNext(p)
    PROVE  NothingMissing'
<1>1. CASE TransactionStep(p)
  BY <1>1, StartsLoseNothing, EndPutLosesNothing DEF TransactionStep
<1>2. CASE LoadTail(p) \/ Fill(p) \/ GiveUp(p)
  BY <1>2, LoopLosesNothing, FillLosesNothing, StartsLoseNothing
<1>3. CASE Reserve(p) \/ Pad(p)
  BY <1>3, TailSteps, LoopLosesNothing, TailMovesLoseNothing
<1>4. CASE StoreBlock(p) \/ StorePad(p)
  BY <1>4, StoresLoseNothing
<1>5. CASE NextPage(p)
  <2>1. CASE LinkPage(p)
    BY <2>1, OvertakenLosesNothing, LinkPageLosesNothing
  <2>2. CASE AdvanceTail(p)
    BY <2>2, OvertakenLosesNothing, NextPageMoves, TailMovesLoseNothing
  <2>3. CASE RecheckTail(p) \/ CreatePage(p) \/ DiscardPage(p)
    BY <2>3, OvertakenLosesNothing, CreatePageLosesNothing, DiscardsLoseNothing
  <2>4. CASE PinEnd(p) \/ CreatePageFails(p) \/ UnpinEnd(p) \/ UnpinFailed(p)
    BY <2>4, LoopLosesNothing
  <2> QED
    BY <1>5, <2>1, <2>2, <2>3, <2>4 DEF NextPage
<1>6. CASE InitialPage(p)
  BY <1>6, OvertakenLosesNothing, InitPageLosesNothing, DiscardsLoseNothing, NextPageMoves,
     TailMovesLoseNothing DEF InitialPage
<1> QED
  BY <1>1, <1>2, <1>3, <1>4, <1>5, <1>6 DEF ProducerNext, ProducerStep

LEMMA InitNothingMissing == Init => NothingMissing
<1> SUFFICES ASSUME Init PROVE NothingMissing
  OBVIOUS
<1>1. /\ \A q \in Pages : pool[q] = "zeroed"
      /\ \A b \in Block : m_next[b] = Zero
      /\ \A e \in Element : status[e] = "none"
      /\ \A p \in Producers : prod[p] = NewProducer
      /\ \A c \in Consumers : cons[c] = NewConsume
  BY DEF Init, BaseInit, HeadInit, TailInit
<1>2. Tiled
  BY <1>1 DEF Tiled, Inner, Live, LinkedPages
<1>3. Located
  BY <1>1 DEF Located, ElementLocated
<1>4. LeftApart
  BY <1>1 DEF LeftApart, Leaves, NewConsume
<1>5. LinksValid
  BY <1>1 DEF LinksValid, Zero, NewProducer
<1> QED
  BY <1>2, <1>3, <1>4, <1>5 DEF NothingMissing

\* The queue is in order and nothing is missing in it.
WholeInv == OrderInv /\ NothingMissing

LEMMA NextKeepsWhole == WholeInv /\ [Next]_vars => WholeInv'
<1> SUFFICES ASSUME WholeInv, [Next]_vars PROVE WholeInv'
  OBVIOUS
<1>1. OrderInv /\ OrderInv' /\ IInv /\ m_rest = 0 /\ NothingMissing
  BY NextKeepsOrder DEF WholeInv, OrderInv
<1>2. PICK rank \in [Pages -> Nat] : Ordered(rank)
  BY <1>1 DEF OrderInv
<1>3. ASSUME NEW c \in Consumers, ConsumerNext(c), UNCHANGED tailVars
      PROVE  NothingMissing'
  BY <1>1, <1>2, <1>3, RelaxedAssumption, ConsumerKeepsAll
<1>4. ASSUME NEW p \in Producers, ProducerNext(p), UNCHANGED headVars
      PROVE  NothingMissing'
  BY <1>1, <1>2, <1>4, ProducerLosesNothing
<1>5. ASSUME UNCHANGED vars PROVE NothingMissing'
  <2>1. UNCHANGED <<m_head, cons, m_initial_page, m_next, content, pool, status, m_tail, prod>>
    BY <1>5 DEF vars, baseVars, headVars, tailVars
  <2>2. First' = First /\ LinkedPages' = LinkedPages
    BY <2>1 DEF First, LinkedPages, NewPages, LeftPages
  <2>3. Kept /\ EndsKept
    BY <2>1, <2>2 DEF Kept, EndsKept
  <2>4. SpansKept
    BY <2>1 DEF SpansKept, Spans, Reserving, ReservedEnd, PAt
  <2>5. Located'
    <3>1. \A b \in Block : ReadyBlock(b) => ReadyBlock(b)'
      BY <2>1, <2>3, LiveKept DEF ReadyBlock
    <3>2. \A c \in Consumers : Takes(c) => Takes(c)'
      BY <2>1 DEF Takes, At
    <3> QED
      BY <1>1, <2>1, <3>1, <3>2, LocatedStays DEF NothingMissing
  <2> QED
    BY <1>1, <2>1, <2>3, <2>4, <2>5, PutKeepsRest
<1>6. NothingMissing'
  BY <1>3, <1>4, <1>5 DEF Next
<1> QED
  BY <1>1, <1>6 DEF WholeInv

\* In every reachable state the blocks follow one another without a gap, every
\* element put and not consumed has its block, and every page left by the head
\* has one consumer that gives it back.
THEOREM WholeInvariance == Spec => []WholeInv
<1>1. Init => WholeInv
  <2>1. Init => OrderInv
    BY InitOrderInv
  <2> QED
    BY <2>1, InitNothingMissing DEF WholeInv
<1>2. WholeInv /\ [Next]_vars => WholeInv'
  BY NextKeepsWhole
<1> QED
  BY <1>1, <1>2, PTL DEF Spec

\* The blocks from the head on hold every element that was committed and is not
\* consumed: advancing the head, zeroing the pages it leaves, reusing them and
\* linking new ones never cuts the queue before an element.
THEOREM NothingCut == Spec => []NoElementLost
<1>1. WholeInv => NoElementLost
  BY ElementsReached DEF WholeInv, OrderInv
<1> QED
  BY <1>1, WholeInvariance, PTL

\* m_tail is in a page of the queue, and the blocks from the head on come to
\* it, or are about to: a producer that finds m_tail may put there.
THEOREM TailKept == Spec => []TailReachable
<1>1. WholeInv => TailReachable
  BY TailReached DEF WholeInv, OrderInv
<1> QED
  BY <1>1, WholeInvariance, PTL

\* A page allocated by the queue is reached from the head, about to be linked or
\* given back by its producer, or about to be given back by the consumer that
\* left it: none leaks, and none is given back while it is in the queue.
THEOREM NoPageLost == Spec => []PagesAccountedFor
<1>1. WholeInv => PagesAccountedFor
  BY PagesReached DEF WholeInv, OrderInv
<1> QED
  BY <1>1, WholeInvariance, PTL

\* Between start_push and commit the producer owns its block: what
\* commit_put_impl asserts of the control word holds, and the block can be
\* reached from the head.
THEOREM PutsHold == Spec => []PendingHolds
<1>1. WholeInv => PendingHolds
  BY PutsReached DEF WholeInv, OrderInv
<1> QED
  BY <1>1, WholeInvariance, PTL

---------------------------------------------------------------------------
(* External blocks *)

\* A step that keeps the blocks that stand for external blocks, and what is
\* in them, while producer p is not filling one.
LEMMA BlocksKept ==
    ASSUME ItemsApart, AskersOK,
           \A b : HasExternal(b)' <=> HasExternal(b),
           \A b \in Block : HasExternal(b) => content'[b] = content[b],
           \A x : Earlier(x) => Earlier(x)',
           NEW p \in Producers, \A q \in Producers \ {p} : prod'[q] = prod[q],
           prod[p].pc # "fill", prod'[p].pc # "fill", Asks(p)' => Allocates(p)',
           \A q \in Producers : PAt(q, "fill") => prod[q].tail \in Block
    PROVE  Held' = Held /\ ItemsApart' /\ AskersOK'
<1>1. Held' = Held
  <2>1. {a \in Block : HasExternal(a)'} = {a \in Block : HasExternal(a)}
    OBVIOUS
  <2>2. {content'[b] : b \in {a \in Block : HasExternal(a)}} = {content[b] : b \in {a \in Block : HasExternal(a)}}
    OBVIOUS
  <2> QED
    BY <2>1, <2>2 DEF Held
<1>2. \A q \in Producers : PAt(q, "fill")' <=> PAt(q, "fill")
  BY DEF PAt
<1>3. \A q \in Producers : PAt(q, "fill") => prod'[q] = prod[q]
  BY DEF PAt
<1>4. ItemsApart'
  BY <1>2, <1>3 DEF ItemsApart
<1>5. AskersOK'
  <2>1. ASSUME NEW q \in Producers PROVE AskerOK(q)'
    <3>1. CASE q = p
      BY <3>1 DEF AskerOK, PAt
    <3>2. CASE q # p
      <4>1. prod'[q] = prod[q]
        BY <3>2
      <4>2. (Asks(q)' <=> Asks(q)) /\ (Allocates(q)' <=> Allocates(q)) /\ (PAt(q, "fill")' <=> PAt(q, "fill"))
        BY <4>1 DEF Asks, Allocates, PAt
      <4> QED
        BY <4>1, <4>2 DEF AskersOK, AskerOK
    <3> QED
      BY <3>1, <3>2
  <2> QED
    BY <1>2, <1>3, <2>1 DEF AskersOK
<1> QED
  BY <1>1, <1>4, <1>5

\* What the other producers have asked for stays.
LEMMA AskedOfOthers ==
    ASSUME NEW p \in Producers, \A q \in Producers \ {p} : prod'[q] = prod[q]
    PROVE  /\ \A x : x \in Asked <=> \/ Asks(p) /\ x = Allocating(p)
                                     \/ \E q \in Producers \ {p} : Asks(q) /\ x = Allocating(q)
           /\ \A x : x \in Asked' <=> \/ Asks(p)' /\ x = Allocating(p)'
                                      \/ \E q \in Producers \ {p} : Asks(q) /\ x = Allocating(q)
<1>1. \A q \in Producers \ {p} : (Asks(q)' <=> Asks(q)) /\ Allocating(q)' = Allocating(q)
  BY DEF Asks, Allocating
<1> QED
  BY <1>1 DEF Asked

\* A consumer's step that keeps the blocks that stand for external blocks, and
\* what is in them.
LEMMA ExternalsLeft ==
    ASSUME ExternalsOK, prod' = prod, heap' = heap,
           \A b : HasExternal(b)' <=> HasExternal(b),
           \A b \in Block : HasExternal(b) => content'[b] = content[b],
           \A p \in Producers : PAt(p, "fill") => prod[p].tail \in Block,
           ExternalsPlaced'
    PROVE  ExternalsOK'
<1>1. Held' = Held
  <2>1. {a \in Block : HasExternal(a)'} = {a \in Block : HasExternal(a)}
    OBVIOUS
  <2>2. {content'[b] : b \in {a \in Block : HasExternal(a)}} = {content[b] : b \in {a \in Block : HasExternal(a)}}
    OBVIOUS
  <2> QED
    BY <2>1, <2>2 DEF Held
<1>2. Asked' = Asked
  BY DEF Asked, Asks, Allocating
<1>3. /\ \A p : (PAt(p, "fill")' <=> PAt(p, "fill")) /\ (Asks(p)' <=> Asks(p)) /\ (Allocates(p)' <=> Allocates(p))
      /\ \A x : Earlier(x)' <=> Earlier(x)
  BY DEF PAt, Asks, Allocates, Earlier, Allocating
<1>4. ItemsApart'
  BY <1>3 DEF ExternalsOK, ItemsApart
<1>5. AskersOK'
  BY <1>3 DEF ExternalsOK, AskersOK, AskerOK
<1> QED
  BY <1>1, <1>2, <1>4, <1>5 DEF ExternalsOK, HeapOwned

\* A producer that goes on with its allocation, or with none.
LEMMA EarlierStays ==
    ASSUME NEW p \in Producers, prod \in [Producers -> Producer], prod' \in [Producers -> Producer],
           \A q \in Producers \ {p} : prod'[q] = prod[q],
           prod'[p].puts = prod[p].puts,
           prod'[p].pc = "idle" \/ (prod'[p].raws = prod[p].raws /\ prod[p].pc # "idle"),
           prod'[p].pc \in {"idle", "pending"}
           \/ (Allocates(p) /\ prod'[p].flags = prod[p].flags /\ prod'[p].raws = prod[p].raws)
    PROVE  \A x : Earlier(x) => Earlier(x)'
<1> SUFFICES ASSUME NEW x \in Item, Earlier(x) PROVE Earlier(x)'
  BY DEF Earlier
<1>1. x[1] \in Producers
  BY DEF Item
<1>2. CASE x[1] # p
  BY <1>1, <1>2 DEF Earlier, Allocates, Allocating
<1>3. CASE x[1] = p
  BY <1>1, <1>3 DEF Earlier, Allocates, Allocating
<1> QED
  BY <1>2, <1>3

\* What no producer does to a block that a consumer is about to free.
LEMMA FreesStay ==
    ASSUME cons' = cons, \A b : (Inner(b) /\ "external" \in m_next[b].flags)' <=> Inner(b) /\ "external" \in m_next[b].flags
    PROVE  \A b : HasExternal(b)' <=> HasExternal(b)
BY DEF HasExternal, At

\* A step inside an allocation, up to the control word of its block.
Inside(pc) == pc \notin {"idle", "pending", "fill"}
GoesOn(p) ==
    /\ \A q \in Producers \ {p} : prod'[q] = prod[q]
    /\ Inside(prod[p].pc) /\ Inside(prod'[p].pc)
    /\ prod'[p].flags = prod[p].flags /\ prod'[p].puts = prod[p].puts /\ prod'[p].raws = prod[p].raws
    /\ heap' = heap /\ content' = content

\* The allocation loop, but for the control word of the block itself, is such
\* a step.
LEMMA AllocationStays ==
    ASSUME IInv, NEW p \in Producers,
           \/ LoadTail(p) \/ Reserve(p) \/ Pad(p) \/ StorePad(p)
           \/ NextPage(p) \/ InitialPage(p)
    PROVE  GoesOn(p)
<1>1. prod[p] \in Producer /\ prod \in [Producers -> Producer]
  BY Typed DEF IInv, TypeOK, TailTypeOK
<1>2. CASE LoadTail(p)
  BY <1>1, <1>2 DEF GoesOn, Inside, LoadTail, Retry, PAt, Producer, baseVars
<1>7. CASE StorePad(p)
  BY <1>1, <1>7 DEF GoesOn, Inside, StorePad, Retry, PAt, Producer
<1>3. CASE Reserve(p) \/ Pad(p)
  BY <1>1, <1>3 DEF GoesOn, Inside, Reserve, Pad, Retry, PGoto, PAt, Producer, baseVars
<1>4. CASE PinEnd(p) \/ RecheckTail(p)
  BY <1>1, <1>4 DEF GoesOn, Inside, PinEnd, RecheckTail, PGoto, PAt, Producer, baseVars
<1>8. CASE CreatePage(p)
  BY <1>1, <1>8 DEF GoesOn, Inside, CreatePage, Creating, PAt, Producer
<1>9. CASE CreatePageFails(p)
  BY <1>1, <1>9 DEF GoesOn, Inside, CreatePageFails, Creating, PGoto, PAt, Producer, baseVars
<1>5. CASE LinkPage(p) \/ DiscardPage(p) \/ AdvanceTail(p) \/ UnpinEnd(p) \/ UnpinFailed(p)
  BY <1>1, <1>5 DEF GoesOn, Inside, LinkPage, DiscardPage, AdvanceTail, UnpinEnd, UnpinFailed, PGoto, PAt,
     Producer, baseVars
<1>6. CASE InitPage(p) \/ DiscardInitial(p) \/ InitTail(p)
  BY <1>1, <1>6 DEF GoesOn, Inside, InitPage, DiscardInitial, InitTail, PGoto, PAt, Producer, baseVars
<1> QED
  BY <1>2, <1>3, <1>4, <1>5, <1>6, <1>7, <1>8, <1>9 DEF NextPage, InitialPage

\* Whether the block b is in the queue and external.
ExternalIn(b) == Inner(b) /\ "external" \in m_next[b].flags

\* No other block becomes one that stands for an external block, or ceases to be.
ExternalsStay ==
    /\ \A b : ExternalIn(b)' <=> ExternalIn(b)
    /\ \A b \in Block : "external" \in m_next'[b].flags => "external" \in m_next[b].flags

\* A step that writes no control word, and links no page.
LEMMA NothingWritten ==
    ASSUME NEW p \in Producers, UNCHANGED <<m_head, cons, m_initial_page, m_next, pool>>,
           \A q \in Producers \ {p} : prod'[q] = prod[q],
           Created(prod'[p].pc) <=> Created(prod[p].pc),
           Created(prod[p].pc) => prod'[p].new_page = prod[p].new_page
    PROVE  ExternalsStay
<1>1. NewPages' = NewPages
  BY NewPagesKept
<1>2. LinkedPages' = LinkedPages /\ First' = First
  BY <1>1 DEF LinkedPages, LeftPages, First
<1> QED
  BY <1>2, PlaceKept DEF ExternalsStay, ExternalIn

LEMMA QuietSteps ==
    ASSUME NEW rank \in [Pages -> Nat], IInv, Ordered(rank), UNCHANGED headVars, NEW p \in Producers,
           \/ LoadTail(p) \/ Reserve(p) \/ Pad(p)
           \/ PinEnd(p) \/ RecheckTail(p) \/ CreatePageFails(p)
           \/ LinkPage(p) /\ m_next[prod[p].tail] # InvalidNextPage
           \/ AdvanceTail(p) \/ UnpinEnd(p) \/ UnpinFailed(p)
           \/ InitPage(p) /\ m_initial_page # NoPage
           \/ InitTail(p)
    PROVE  ExternalsStay
<1>1. prod[p] \in Producer /\ prod \in [Producers -> Producer]
  BY Typed DEF IInv, TypeOK, TailTypeOK
<1>2. /\ UNCHANGED <<m_head, cons, m_initial_page, m_next, pool>>
      /\ \A q \in Producers \ {p} : prod'[q] = prod[q]
  <2>1. UNCHANGED <<m_head, cons, m_initial_page, m_next, pool>>
    BY DEF headVars, baseVars, LoadTail, Reserve, Pad, PinEnd, RecheckTail, CreatePageFails, LinkPage,
       AdvanceTail, UnpinEnd, UnpinFailed, InitPage, InitTail
  <2>2. GoesOn(p)
    BY AllocationStays DEF NextPage, InitialPage
  <2> QED
    BY <2>1, <2>2 DEF GoesOn
<1>3. /\ Created(prod'[p].pc) <=> Created(prod[p].pc)
      /\ Created(prod[p].pc) => prod'[p].new_page = prod[p].new_page
  <2>1. CASE LoadTail(p) \/ Reserve(p) \/ Pad(p)
    BY <1>1, <2>1 DEF LoadTail, Reserve, Pad, Retry, PGoto, PAt, Producer, Created
  <2>2. CASE PinEnd(p) \/ RecheckTail(p) \/ CreatePageFails(p)
    BY <1>1, <2>2 DEF PinEnd, RecheckTail, CreatePageFails, Creating, PGoto, PAt, Producer, Created
  <2>3. CASE \/ LinkPage(p) /\ m_next[prod[p].tail] # InvalidNextPage
             \/ InitPage(p) /\ m_initial_page # NoPage
    BY <1>1, <2>3 DEF LinkPage, InitPage, PGoto, PAt, Producer, Created
  <2>4. CASE AdvanceTail(p) \/ UnpinEnd(p) \/ UnpinFailed(p) \/ InitTail(p)
    BY <1>1, <2>4 DEF AdvanceTail, UnpinEnd, UnpinFailed, InitTail, PAt, Producer, Created
  <2> QED
    BY <2>1, <2>2, <2>3, <2>4
<1> QED
  BY <1>2, <1>3, NothingWritten

\* A page that is not linked yet, or has just been, is blank.
LEMMA PageSteps ==
    ASSUME NEW rank \in [Pages -> Nat], IInv, Ordered(rank), UNCHANGED headVars, NEW p \in Producers,
           \/ CreatePage(p) \/ DiscardPage(p) \/ DiscardInitial(p)
           \/ LinkPage(p) /\ m_next[prod[p].tail] = InvalidNextPage
           \/ InitPage(p) /\ m_initial_page = NoPage
    PROVE  ExternalsStay
<1>1. /\ \A b : Inner(b) => b \in Block /\ PageOf(b) \in LinkedPages /\ b[2] < EndSlot
      /\ "external" \notin Zero.flags /\ "external" \notin InvalidNextPage.flags
  BY DEF Inner, Live, Zero, InvalidNextPage
<1>2. ASSUME CreatePage(p) \/ DiscardPage(p) \/ DiscardInitial(p)
      PROVE  ExternalsStay
  <2>1. UNCHANGED <<m_head, cons, m_initial_page>>
    BY <1>2 DEF headVars, CreatePage, DiscardPage, DiscardInitial
  <2>2. /\ LinkedPages' = LinkedPages
        /\ \E q \in Pages :
              /\ q \notin LinkedPages
              /\ \A b \in Block : PageOf(b) # q => m_next'[b] = m_next[b]
              /\ \A b \in Block : PageOf(b) = q => m_next'[b] \in {Zero, InvalidNextPage}
    <3>1. CASE CreatePage(p)
      BY <3>1, PageCreated
    <3>2. CASE DiscardPage(p) \/ DiscardInitial(p)
      BY <3>2, PageDiscarded
    <3> QED
      BY <1>2, <3>1, <3>2
  <2>3. \A b : Inner(b)' <=> Inner(b)
    BY <2>1, <2>2, PlaceKept DEF First
  <2> QED
    BY <1>1, <2>2, <2>3 DEF ExternalsStay, ExternalIn
<1>3. CASE LinkPage(p) /\ m_next[prod[p].tail] = InvalidNextPage
  <2> PICK new, x : new = prod[p].new_page /\ x = PageOf(prod[p].tail)
    OBVIOUS
  <2>1. /\ m_next'[End(x)] = NextWord(FirstBlock(new), {"dead"})
        /\ \A b \in Block : b # End(x) => m_next'[b] = m_next[b]
        /\ Joins(p, new) /\ x \in Pages
        /\ new \notin LinkedPages /\ PageOf(First) \in LinkedPages /\ First' = First
    BY <1>3, PageLinks
  <2>2. \A b : Inner(b)' <=> Inner(b) \/ (b \in Block /\ PageOf(b) = new /\ b[2] < EndSlot)
    BY <2>1, JoinsKeepBlocks
  <2>3. \A b \in Block : PageOf(b) = new /\ b[2] < EndSlot => m_next[b] = Zero
    BY <2>1, PageLinked
  <2>4. \A b \in Block : b[2] < EndSlot => b # End(x)
    BY <2>1, Spots
  <2>5. "external" \notin m_next'[End(x)].flags
    BY <2>1 DEF NextWord
  <2> QED
    BY <1>1, <2>1, <2>2, <2>3, <2>4, <2>5 DEF ExternalsStay, ExternalIn
<1>4. CASE InitPage(p) /\ m_initial_page = NoPage
  <2> PICK new : new = prod[p].new_page
    OBVIOUS
  <2>1. Joins(p, new) /\ m_next' = m_next /\ LinkedPages = {} /\ First' = FirstBlock(new)
    BY <1>4, PageStored
  <2>2. \A b : Inner(b)' <=> Inner(b) \/ (b \in Block /\ PageOf(b) = new /\ b[2] < EndSlot)
    BY <2>1, JoinsKeepBlocks
  <2>3. \A b \in Block : PageOf(b) = new /\ b[2] < EndSlot => m_next[b] = Zero
    BY <2>1, PageLinked
  <2> QED
    BY <1>1, <2>1, <2>2, <2>3 DEF ExternalsStay, ExternalIn
<1> QED
  BY <1>2, <1>3, <1>4

\* The allocation goes on, and the blocks stay.
LEMMA AllocationKeeps ==
    ASSUME IInv, IInv', ExternalsOK, cons' = cons, NEW p \in Producers, GoesOn(p), ExternalsStay,
           \A q \in Producers : PAt(q, "fill") => prod[q].tail \in Block
    PROVE  ExternalsOK'
<1>1. prod \in [Producers -> Producer] /\ prod' \in [Producers -> Producer]
  BY DEF IInv, TypeOK, TailTypeOK
<1>2. /\ \A q \in Producers \ {p} : prod'[q] = prod[q]
      /\ prod'[p].flags = prod[p].flags /\ prod'[p].puts = prod[p].puts /\ prod'[p].raws = prod[p].raws
      /\ prod[p].pc \notin {"idle", "pending", "fill"} /\ prod'[p].pc \notin {"idle", "pending", "fill"}
      /\ heap' = heap /\ content' = content
  BY DEF GoesOn, Inside
<1>3. \A b : HasExternal(b)' <=> HasExternal(b)
  BY FreesStay DEF ExternalsStay, ExternalIn
<1>4. \A x : Earlier(x) => Earlier(x)'
  BY <1>1, <1>2, EarlierStays DEF Allocates
<1>5. Held' = Held /\ ItemsApart' /\ AskersOK'
  BY <1>2, <1>3, <1>4, BlocksKept DEF ExternalsOK, Allocates
<1>6. Asked' = Asked
  <2>1. (Asks(p)' <=> Asks(p)) /\ Allocating(p)' = Allocating(p)
    BY <1>2 DEF Asks, Allocating
  <2>2. \A x : x \in Asked' <=> x \in Asked
    BY <1>2, <2>1, AskedOfOthers
  <2> QED
    BY <2>2 DEF Asked
<1>7. ExternalsPlaced'
  <2>1. \A c : (At(c, "free_external")' <=> At(c, "free_external")) /\ (Wipes(c)' <=> Wipes(c))
    BY DEF At, Wipes
  <2> QED
    BY <2>1 DEF ExternalsPlaced, ExternalsOK, ExternalsStay
<1> QED
  BY <1>2, <1>5, <1>6, <1>7 DEF ExternalsOK, HeapOwned

\* page_overflow stores a dead block.
LEMMA PadKeeps ==
    ASSUME NEW rank \in [Pages -> Nat], IInv, Ordered(rank), UNCHANGED headVars,
           NEW p \in Producers, StorePad(p)
    PROVE  ExternalsStay
<1> PICK b, e : b = prod[p].tail /\ e = ReservedEnd(p)
  OBVIOUS
<1>1. prod[p].pc = "store_pad"
  BY DEF StorePad, PAt
<1>2. /\ b \in Block /\ m_next[b] = Zero
      /\ \A x \in Block : m_next'[x] = IF x = b THEN NextWord(e, {"dead"}) ELSE m_next[x]
      /\ \A x : Inner(x)' <=> Inner(x)
      /\ \A x : Inner(x) => x \in Block
  BY <1>1, BlockStored
<1>3. "external" \notin m_next'[b].flags /\ "external" \notin m_next[b].flags
  BY <1>2 DEF NextWord, Zero
<1> QED
  BY <1>2, <1>3 DEF ExternalsStay, ExternalIn

\* A producer that fills a block has its tail there.
LEMMA FillTails ==
    ASSUME NEW rank, IInv, Ordered(rank)
    PROVE  \A q \in Producers : PAt(q, "fill") =>
               /\ prod[q].tail \in Block /\ Inner(prod[q].tail)
               /\ m_next[prod[q].tail] # Zero
<1> SUFFICES ASSUME NEW q \in Producers, PAt(q, "fill")
             PROVE  prod[q].tail \in Block /\ Inner(prod[q].tail) /\ m_next[prod[q].tail] # Zero
  OBVIOUS
<1>1. Inner(prod[q].tail) /\ m_next[prod[q].tail].to = NewTail(prod[q].tail, prod[q].size)
  BY DEF Ordered, PutsOK, PutOK, PAt
<1>2. prod[q].tail \in Block
  BY <1>1 DEF Inner, Live
<1>3. NewTail(prod[q].tail, prod[q].size)[1] # NoBlock[1]
  BY <1>2, BaseAssumption DEF NewTail, NoBlock, Block
<1> QED
  BY <1>1, <1>2, <1>3 DEF Zero

\* What an allocation is for is an item that no block has yet.
LEMMA AllocatedItems ==
    ASSUME IInv, NEW p \in Producers, prod[p].pc # "idle"
    PROVE  Allocating(p) \in Item /\ Allocating(p) # NoItem
<1>1. prod[p] \in Producer /\ prod[p].puts \in 1 .. MaxPuts
  BY Typed DEF ProducerOK
<1>2. Allocating(p)[2] = prod[p].puts /\ Allocating(p) = <<p, prod[p].puts, Allocating(p)[3]>>
      /\ Allocating(p)[3] \in {prod[p].raws, 0}
  BY DEF Allocating
<1>3. NoItem[2] = 0
  BY DEF NoItem
<1>4. Allocating(p) \in Item
  BY <1>1, <1>2, BaseAssumption DEF Producer, Item
<1> QED
  BY <1>1, <1>2, <1>3, <1>4

\* A producer's step that keeps the blocks and what is in them: what is left
\* to show of it.
LEMMA ExternalsStayed ==
    ASSUME NEW rank, IInv, Ordered(rank), ExternalsOK, cons' = cons, ExternalsStay, content' = content,
           NEW p \in Producers, \A q \in Producers \ {p} : prod'[q] = prod[q],
           prod[p].pc # "fill", prod'[p].pc # "fill", Asks(p)' => Allocates(p)',
           \A x : Earlier(x) => Earlier(x)',
           heap' = Held \cup Asked'
    PROVE  ExternalsOK'
<1>1. \A b : HasExternal(b)' <=> HasExternal(b)
  BY FreesStay DEF ExternalsStay, ExternalIn
<1>2. Held' = Held /\ ItemsApart' /\ AskersOK'
  BY <1>1, FillTails, BlocksKept DEF ExternalsOK
<1>3. ExternalsPlaced'
  <2>1. \A c : (At(c, "free_external")' <=> At(c, "free_external")) /\ (Wipes(c)' <=> Wipes(c))
    BY DEF At, Wipes
  <2> QED
    BY <2>1 DEF ExternalsPlaced, ExternalsOK, ExternalsStay
<1> QED
  BY <1>2, <1>3 DEF ExternalsOK, HeapOwned

\* The external block that p asks for is no one else's.
LEMMA AskedAlone ==
    ASSUME IInv, ItemsApart, NEW p \in Producers, Allocates(p),
           \A q \in Producers : PAt(q, "fill") => prod[q].tail \in Block
    PROVE  /\ Allocating(p) \notin Held
           /\ \A q \in Producers \ {p} : Allocating(q) # Allocating(p)
<1>1. Allocating(p)[1] = p /\ \A q : Allocating(q)[1] = q
  BY DEF Allocating
<1>2. ~Earlier(Allocating(p))
  BY <1>1 DEF Earlier
<1> QED
  BY <1>1, <1>2 DEF Held, ItemsApart

\* An allocation starts, with the external block it asks for or without.
LEMMA AllocateKeeps ==
    ASSUME NEW rank, IInv, Ordered(rank), ExternalsOK, UNCHANGED <<headVars, m_next, content, pool, m_initial_page>>,
           NEW p \in Producers, \A q \in Producers \ {p} : prod'[q] = prod[q],
           prod[p].pc \in {"idle", "pending"}, prod'[p].pc = "load_tail",
           NEW item, heap' = IF Asks(p)' THEN heap \cup {item} ELSE heap,
           Asks(p)' => item = Allocating(p)',
           \A x : Earlier(x) => Earlier(x)'
    PROVE  ExternalsOK'
<1>1. ExternalsStay
  BY NothingWritten DEF headVars, Created
<1>2. ~Asks(p)
  BY DEF ExternalsOK, AskersOK, AskerOK, Allocates
<1>3. heap' = Held \cup Asked'
  <2>1. heap = Held \cup Asked
    BY DEF ExternalsOK, HeapOwned
  <2>2. \A x : x \in Asked' <=> x \in Asked \/ (Asks(p)' /\ x = item)
    BY <1>2, AskedOfOthers
  <2>3. CASE Asks(p)'
    BY <2>1, <2>2, <2>3
  <2>4. CASE ~Asks(p)'
    BY <2>1, <2>2, <2>4
  <2> QED
    BY <2>3, <2>4
<1> QED
  BY <1>1, <1>3, ExternalsStayed DEF headVars, Allocates

\* start_push and start_emplace: the element of the transaction.
LEMMA StartPutKeeps ==
    ASSUME NEW rank, IInv, Ordered(rank), ExternalsOK, UNCHANGED headVars,
           NEW p \in Producers, NEW size \in Sizes, NEW g \in Guarantees, StartPut(p, size, g)
    PROVE  ExternalsOK'
<1>1. prod[p] \in Producer /\ prod \in [Producers -> Producer]
  BY Typed DEF IInv, TypeOK, TailTypeOK
<1>2. prod[p].pc = "idle" /\ prod[p].puts \in Nat
      /\ UNCHANGED <<headVars, m_next, content, pool, m_initial_page>>
  BY <1>1, BaseAssumption DEF StartPut, PAt, Producer
<1> DEFINE f == IF External(size) THEN {"busy"} \cup {"external"} ELSE {"busy"}
           s == IF External(size) THEN 1 ELSE size
           item == <<p, prod[p].puts + 1, 0>>
<1>3. prod' = [prod EXCEPT ![p] = [[NewProducer EXCEPT !.puts = prod[p].puts + 1, !.guarantee = g]
                                     EXCEPT !.pc = "load_tail", !.size = s, !.flags = f]]
  BY DEF StartPut, Allocate
<1>4. heap' = IF External(size) THEN heap \cup {item} ELSE heap
  BY DEF StartPut, Allocate
<1>5. "dead" \notin f /\ ("external" \in f <=> External(size))
  OBVIOUS
<1> HIDE DEF f, s
<1>6. /\ prod'[p].pc = "load_tail" /\ prod'[p].puts = prod[p].puts + 1 /\ prod'[p].flags = f
      /\ \A q \in Producers \ {p} : prod'[q] = prod[q]
  BY <1>1, <1>3 DEF NewProducer
<1>7. Allocating(p)' = item /\ (Asks(p)' <=> External(size))
  BY <1>5, <1>6 DEF Allocating, Asks
<1>8. ASSUME NEW x, Earlier(x) PROVE Earlier(x)'
  <2>1. x \in Item /\ x[1] \in Producers /\ x[2] \in Nat
    BY <1>8, BaseAssumption DEF Earlier, Item
  <2>2. CASE x[1] = p
    <3>1. x[2] <= prod[p].puts
      BY <1>8, <2>2 DEF Earlier
    <3>2. x[2] <= prod'[p].puts /\ x[2] # prod'[p].puts
      BY <1>2, <1>6, <2>1, <3>1
    <3>3. x # Allocating(p)'
      BY <1>6, <1>7, <3>2
    <3> QED
      BY <2>1, <2>2, <3>2, <3>3 DEF Earlier
  <2>3. CASE x[1] # p
    BY <1>6, <1>8, <2>1, <2>3 DEF Earlier, Allocates, Allocating
  <2> QED
    BY <2>2, <2>3
<1> HIDE DEF item
<1> QED
  BY <1>2, <1>4, <1>6, <1>7, <1>8, AllocateKeeps

\* raw_allocate: one more block in the transaction.
LEMMA RawAllocateKeeps ==
    ASSUME NEW rank, IInv, Ordered(rank), ExternalsOK, UNCHANGED headVars,
           NEW p \in Producers, NEW size \in Sizes, RawAllocate(p, size)
    PROVE  ExternalsOK'
<1>1. prod[p] \in Producer /\ prod \in [Producers -> Producer]
  BY Typed DEF IInv, TypeOK, TailTypeOK
<1>2. prod[p].pc = "pending" /\ prod[p].puts \in Nat /\ prod[p].raws \in Nat
      /\ UNCHANGED <<headVars, m_next, content, pool, m_initial_page>>
  BY <1>1, BaseAssumption DEF RawAllocate, PAt, Producer
<1> DEFINE f == IF External(size) THEN {"dead"} \cup {"external"} ELSE {"dead"}
           s == IF External(size) THEN 1 ELSE size
           item == <<p, prod[p].puts, prod[p].raws + 1>>
<1>3. prod' = [prod EXCEPT ![p] = [[prod[p] EXCEPT !.raws = prod[p].raws + 1]
                                     EXCEPT !.pc = "load_tail", !.size = s, !.flags = f]]
  BY DEF RawAllocate, Allocate
<1>4. heap' = IF External(size) THEN heap \cup {item} ELSE heap
  BY DEF RawAllocate, Allocate
<1>5. "dead" \in f /\ ("external" \in f <=> External(size))
  OBVIOUS
<1> HIDE DEF f, s
<1>6. /\ prod'[p].pc = "load_tail" /\ prod'[p].puts = prod[p].puts /\ prod'[p].flags = f
      /\ prod'[p].raws = prod[p].raws + 1
      /\ \A q \in Producers \ {p} : prod'[q] = prod[q]
  BY <1>1, <1>3 DEF Producer
<1>7. Allocating(p)' = item /\ (Asks(p)' <=> External(size))
  BY <1>5, <1>6 DEF Allocating, Asks
<1>8. ASSUME NEW x, Earlier(x) PROVE Earlier(x)'
  <2>1. x \in Item /\ x[1] \in Producers /\ x[2] \in Nat /\ x[3] \in Nat
    BY <1>8, BaseAssumption DEF Earlier, Item
  <2>2. CASE x[1] = p
    <3>1. x[2] <= prod[p].puts /\ (x[2] = prod[p].puts => x[3] <= prod[p].raws)
      BY <1>2, <1>8, <2>2 DEF Earlier
    <3>2. x[2] = prod[p].puts => x[3] <= prod'[p].raws /\ x[3] # prod'[p].raws
      BY <1>2, <1>6, <2>1, <3>1
    <3>3. x # Allocating(p)'
      BY <1>6, <1>7, <3>2
    <3> QED
      BY <1>6, <2>1, <2>2, <3>1, <3>2, <3>3 DEF Earlier
  <2>3. CASE x[1] # p
    BY <1>6, <1>8, <2>1, <2>3 DEF Earlier, Allocates, Allocating
  <2> QED
    BY <2>2, <2>3
<1> HIDE DEF item
<1> QED
  BY <1>2, <1>4, <1>6, <1>7, <1>8, AllocateKeeps

\* An allocation that fails gives back the external block that it has, which
\* no block holds.
LEMMA GiveUpKeeps ==
    ASSUME NEW rank, IInv, IInv', Ordered(rank), ExternalsOK, UNCHANGED headVars,
           NEW p \in Producers, GiveUp(p)
    PROVE  ExternalsOK'
<1>1. prod[p] \in Producer /\ prod \in [Producers -> Producer] /\ prod' \in [Producers -> Producer]
  BY Typed DEF IInv, TypeOK, TailTypeOK
<1>2. prod[p].pc = "give_up" /\ heap' = heap \ {Allocating(p)}
      /\ UNCHANGED <<m_head, cons, m_initial_page, m_next, pool, content>>
  BY DEF GiveUp, PAt, Fail, headVars
<1>3. /\ \A q \in Producers \ {p} : prod'[q] = prod[q]
      /\ prod'[p].pc \in {"idle", "pending"} /\ prod'[p].puts = prod[p].puts
      /\ prod'[p].pc = "idle" \/ prod'[p].raws = prod[p].raws
      /\ prod'[p].flags = {}
  <2>1. CASE Putting(p)
    <3>1. prod' = [prod EXCEPT ![p] = Done(p, "pending")]
      BY <2>1 DEF GiveUp, Fail, Putting
    <3> QED
      BY <1>1, <3>1 DEF Done, Producer
  <2>2. CASE ~Putting(p)
    <3>1. prod' = [prod EXCEPT ![p] = [NewProducer EXCEPT !.puts = prod[p].puts]]
      BY <2>2 DEF GiveUp, Fail, Putting
    <3> QED
      BY <1>1, <3>1 DEF NewProducer
  <2> QED
    BY <2>1, <2>2
<1>4. ExternalsStay
  BY <1>2, <1>3, NothingWritten DEF Created
<1>5. \A x : Earlier(x) => Earlier(x)'
  BY <1>1, <1>2, <1>3, EarlierStays
<1>6. ~Asks(p)'
  BY <1>3 DEF Asks
<1>7. heap' = Held \cup Asked'
  <2>1. heap = Held \cup Asked
    BY DEF ExternalsOK, HeapOwned
  <2>2. /\ Allocating(p) \notin Held
        /\ \A q \in Producers \ {p} : Allocating(q) # Allocating(p)
    BY <1>2, FillTails, AskedAlone DEF ExternalsOK, Allocates
  <2>3. \A x : x \in Asked' <=> x \in Asked /\ x # Allocating(p)
    BY <1>3, <1>6, <2>2, AskedOfOthers
  <2> QED
    BY <1>2, <2>1, <2>2, <2>3
<1> QED
  BY <1>2, <1>3, <1>4, <1>5, <1>6, <1>7, ExternalsStayed

\* A transaction ends: its block keeps its external block.
LEMMA EndPutKeeps ==
    ASSUME NEW rank, IInv, IInv', Ordered(rank), ExternalsOK, UNCHANGED headVars,
           NEW p \in Producers, CommitPut(p) \/ CancelPut(p)
    PROVE  ExternalsOK'
<1>1. prod[p] \in Producer /\ prod \in [Producers -> Producer] /\ prod' \in [Producers -> Producer]
      /\ PutterOwns(p) /\ PutOK(rank, p)
  BY Typed DEF IInv, TypeOK, TailTypeOK, Ordered, OwnersOK, PutsOK
<1>2. PICK f, s : EndPut(p, f, s) /\ ("external" \in f <=> "external" \in prod[p].next.flags)
  BY DEF CommitPut, CancelPut
<1>3. /\ prod[p].pc = "pending"
      /\ UNCHANGED <<m_head, cons, m_initial_page, pool, content, heap>>
  BY <1>2 DEF EndPut, PAt, headVars
<1>4. PICK b : b = prod[p].control
  OBVIOUS
<1>5. /\ \A q \in Producers \ {p} : prod'[q] = prod[q]
      /\ prod'[p].pc = "idle" /\ prod'[p].puts = prod[p].puts /\ prod'[p].flags = {}
  BY <1>1, <1>2 DEF EndPut, NewProducer
<1>6. Inner(b) /\ m_next[b] = prod[p].next
  BY <1>1, <1>3, <1>4 DEF PutOK, PutterOwns
<1>7. \A x \in Block : m_next'[x] = IF x = b THEN NextWord(prod[p].next.to, f) ELSE m_next[x]
  BY <1>2, <1>4 DEF EndPut, IInv, TypeOK, BaseTypeOK
<1>8. NewPages' = NewPages
  BY <1>3, <1>5, NewPagesKept DEF Created
<1>9. LinkedPages' = LinkedPages /\ First' = First
  BY <1>3, <1>8 DEF LinkedPages, LeftPages, First
<1>10. ExternalsStay
  <2>1. \A x : Inner(x)' <=> Inner(x)
    BY <1>9, PlaceKept
  <2>2. \A x \in Block : "external" \in m_next'[x].flags <=> "external" \in m_next[x].flags
    BY <1>2, <1>6, <1>7 DEF NextWord
  <2>3. \A x : Inner(x) => x \in Block
    BY DEF Inner, Live
  <2> QED
    BY <2>1, <2>2, <2>3 DEF ExternalsStay, ExternalIn
<1>11. ~Asks(p) /\ ~Asks(p)'
  BY <1>3, <1>5 DEF ExternalsOK, AskersOK, AskerOK, Allocates, Asks
<1>12. heap' = Held \cup Asked'
  <2>1. \A x : x \in Asked' <=> x \in Asked
    BY <1>5, <1>11, AskedOfOthers
  <2> QED
    BY <1>3, <2>1 DEF ExternalsOK, HeapOwned
<1>13. \A x : Earlier(x) => Earlier(x)'
  BY <1>1, <1>3, <1>5, EarlierStays
<1> QED
  BY <1>3, <1>5, <1>10, <1>11, <1>12, <1>13, ExternalsStayed

\* The control word of a new block says that it has the external block that
\* its producer has asked for.
LEMMA StoreBlockKeeps ==
    ASSUME NEW rank \in [Pages -> Nat], IInv, IInv', m_rest = 0, Ordered(rank), ExternalsOK, UNCHANGED headVars,
           NEW p \in Producers, StoreBlock(p)
    PROVE  ExternalsOK'
<1>1. prod[p] \in Producer /\ prod \in [Producers -> Producer] /\ prod' \in [Producers -> Producer]
  BY Typed DEF IInv, TypeOK, TailTypeOK
<1>2. prod[p].pc = "store" /\ cons' = cons /\ content' = content /\ heap' = heap
  BY DEF StoreBlock, PAt, headVars
<1> PICK b, e, f : b = prod[p].tail /\ e = ReservedEnd(p) /\ f = prod[p].flags
  OBVIOUS
<1>3. /\ Stores(p) /\ b \in Block /\ Inner(b) /\ m_next[b] = Zero
      /\ \A x \in Block : m_next'[x] = IF x = b THEN NextWord(e, f) ELSE m_next[x]
      /\ \A q \in Producers \ {p} : prod'[q] = prod[q]
      /\ prod'[p].pc = "fill" /\ prod'[p].flags = f /\ prod'[p].puts = prod[p].puts
      /\ prod'[p].tail = b
      /\ \A x : Inner(x)' <=> Inner(x)
      /\ \A x : Inner(x) => x \in Block
  BY <1>2, BlockStored
<1>4. prod'[p].raws = prod[p].raws
  <2>1. CASE "busy" \in NextWord(ReservedEnd(p), prod[p].flags).flags
    <3>1. \E k, n : prod' = [prod EXCEPT ![p].pc = "fill", ![p].control = k, ![p].next = n]
      BY <2>1 DEF StoreBlock
    <3> QED
      BY <1>1, <3>1 DEF Producer
  <2>2. CASE "busy" \notin NextWord(ReservedEnd(p), prod[p].flags).flags
    <3>1. PGoto(p, "fill")
      BY <2>2 DEF StoreBlock
    <3> QED
      BY <1>1, <3>1 DEF PGoto
  <2> QED
    BY <2>1, <2>2
<1>5. content[b] = NoItem
  BY <1>2, ReservedBlank DEF OrderInv, ReservedIsZero, PAt
<1>6. (Asks(p)' <=> Asks(p)) /\ (Asks(p) <=> "external" \in f) /\ Allocating(p)' = Allocating(p) /\ Allocates(p)'
  BY <1>3, <1>4 DEF Asks, Allocating, Allocates
<1>7. ~HasExternal(b)
  <2>1. ~ExternalIn(b)
    BY <1>3 DEF ExternalIn, Zero
  <2>2. \A c \in Consumers : At(c, "free_external") => cons[c].control # b
    BY <1>3 DEF Ordered, ConsumersPlaced, ConsumerPlaced, At, Inner
  <2> QED
    BY <2>1, <2>2 DEF HasExternal, ExternalIn
<1>8. \A x : HasExternal(x)' <=> HasExternal(x) \/ (x = b /\ Asks(p))
  <2>1. \A x : ExternalIn(x)' <=> ExternalIn(x) \/ (x = b /\ Asks(p))
    BY <1>3, <1>6 DEF ExternalIn, NextWord, Zero
  <2> QED
    BY <1>2, <2>1 DEF HasExternal, ExternalIn, At
<1>9. Held' = Held
  <2>1. {a \in Block : HasExternal(a)'} \subseteq {a \in Block : HasExternal(a)} \cup {b}
        /\ {a \in Block : HasExternal(a)} \subseteq {a \in Block : HasExternal(a)'}
    BY <1>8
  <2> QED
    BY <1>2, <1>5, <2>1 DEF Held
<1>10. Asked' = Asked
  <2>1. \A x : x \in Asked' <=> x \in Asked
    BY <1>3, <1>6, AskedOfOthers
  <2> QED
    BY <2>1 DEF Asked
<1>11. \A x : Earlier(x) => Earlier(x)'
  BY <1>1, <1>2, <1>3, <1>4, EarlierStays DEF Allocates
<1>12. \A q \in Producers \ {p} : /\ PAt(q, "fill")' <=> PAt(q, "fill")
                                  /\ Asks(q)' <=> Asks(q)
                                  /\ Allocates(q)' <=> Allocates(q)
                                  /\ prod'[q].tail = prod[q].tail
  BY <1>3 DEF PAt, Asks, Allocates
<1>13. \A q \in Producers : PAt(q, "fill") => q # p /\ prod[q].tail \in Block /\ prod[q].tail # b
  BY <1>2, <1>3, FillTails DEF PAt
<1>14. PAt(p, "fill")' /\ prod'[p].tail = b
  BY <1>3 DEF PAt
<1>15. ItemsApart'
  <2>1. ASSUME NEW a \in Block, HasExternal(a)', content'[a] = NoItem
        PROVE  \E q \in Producers : PAt(q, "fill")' /\ prod'[q].tail = a
    <3>1. CASE a = b
      BY <1>14, <3>1
    <3>2. CASE a # b
      BY <1>2, <1>8, <1>12, <1>13, <2>1, <3>2 DEF ExternalsOK, ItemsApart
    <3> QED
      BY <3>1, <3>2
  <2>2. ASSUME NEW a \in Block, HasExternal(a)', content'[a] # NoItem
        PROVE  HasExternal(a) /\ Earlier(content[a])'
    <3>1. HasExternal(a) /\ Earlier(content[a])
      BY <1>2, <1>5, <1>8, <2>2 DEF ExternalsOK, ItemsApart
    <3> QED
      BY <1>2, <1>11, <3>1
  <2>3. \A a, d \in Block : HasExternal(a)' /\ HasExternal(d)' /\ content'[a] = content'[d] =>
           a = d \/ content'[a] = NoItem
    BY <1>2, <2>2 DEF ExternalsOK, ItemsApart
  <2> QED
    BY <2>1, <2>2, <2>3 DEF ItemsApart
<1>16. AskersOK'
  <2>1. AskerOK(p)'
    BY <1>2, <1>5, <1>6, <1>7, <1>8, <1>14 DEF AskerOK
  <2>2. ASSUME NEW q \in Producers, q # p PROVE AskerOK(q)'
    <3>1. AskerOK(q)
      BY DEF ExternalsOK, AskersOK
    <3> QED
      BY <1>2, <1>8, <1>12, <1>13, <2>2, <3>1 DEF AskerOK
  <2>3. \A q, r \in Producers : PAt(q, "fill")' /\ PAt(r, "fill")' /\ q # r => prod'[q].tail # prod'[r].tail
    BY <1>12, <1>13, <1>14 DEF ExternalsOK, AskersOK
  <2> QED
    BY <2>1, <2>2, <2>3 DEF AskersOK
<1>17. ExternalsPlaced'
  <2>1. \A c : (At(c, "free_external")' <=> At(c, "free_external")) /\ (Wipes(c)' <=> Wipes(c))
    BY <1>2 DEF At, Wipes
  <2>2. \A x \in Block : "external" \in m_next'[x].flags => x[2] < EndSlot
    BY <1>3 DEF ExternalsOK, ExternalsPlaced, Inner
  <2> QED
    BY <1>2, <2>1, <2>2 DEF ExternalsPlaced, ExternalsOK
<1> QED
  BY <1>2, <1>9, <1>10, <1>15, <1>16, <1>17 DEF ExternalsOK, HeapOwned

\* The user's part of the block: what was asked for is now the block's.
LEMMA FillKeeps ==
    ASSUME NEW rank, IInv, IInv', Ordered(rank), ExternalsOK, UNCHANGED headVars,
           NEW p \in Producers, Fill(p)
    PROVE  ExternalsOK'
<1>1. prod[p] \in Producer /\ prod \in [Producers -> Producer] /\ prod' \in [Producers -> Producer]
  BY Typed DEF IInv, TypeOK, TailTypeOK
<1>2. PAt(p, "fill") /\ UNCHANGED <<m_head, cons, m_initial_page, m_next, pool, heap>>
  BY DEF Fill, headVars
<1> PICK t, e : t = prod[p].tail /\ e = NewTail(t, prod[p].size)
  OBVIOUS
<1>3. /\ \A q \in Producers \ {p} : prod'[q] = prod[q]
      /\ prod'[p].pc = "pending" /\ prod'[p].flags = {} /\ prod'[p].puts = prod[p].puts
      /\ Inner(t) /\ m_next[t].to = e /\ t \in Block /\ e \in Block
      /\ content'[t] = Allocating(p)
      /\ \A x \in Block : content'[x] = content[x] \/ Between(t, x, e)
      /\ \A x \in Block : Inner(x) /\ m_next[x].to \in Block /\ x # t => content'[x] = content[x]
  BY FillWrites
<1>4. prod'[p].raws = prod[p].raws
  BY <1>1 DEF Fill, Done, Producer
<1>5. \A b : HasExternal(b)' <=> HasExternal(b)
  <2>1. NewPages' = NewPages
    BY <1>2, <1>3, NewPagesKept DEF Created, PAt
  <2>2. LinkedPages' = LinkedPages /\ First' = First
    BY <1>2, <2>1 DEF LinkedPages, LeftPages, First
  <2> QED
    BY <1>2, <2>2, PlaceKept DEF HasExternal, At
<1>6. \A b \in Block : HasExternal(b) /\ b # t => content'[b] = content[b]
  <2> SUFFICES ASSUME NEW b \in Block, HasExternal(b), b # t PROVE content'[b] = content[b]
    OBVIOUS
  <2>1. CASE ExternalIn(b)
    <3>1. m_next[b] # Zero /\ m_next[b] \in NextPtr
      BY <2>1, Typed DEF ExternalIn, Zero
    <3>2. m_next[b].to \in Block
      BY <2>1, <3>1 DEF Ordered, BlocksApart, ExternalIn, IsEnd, NextPtr, BlockOrNull
    <3> QED
      BY <1>3, <2>1, <3>2 DEF ExternalIn
  <2>2. CASE ~ExternalIn(b)
    <3>1. ~Live(b)
      BY <2>2 DEF HasExternal, ExternalIn, At, Ordered, ConsumersPlaced, ConsumerPlaced
    <3>2. SamePage(t, b) /\ t[2] <= b[2] => Live(b)
      <4>1. Live(t) /\ t[2] \in Nat /\ b[2] \in Nat /\ First[2] \in Nat
        BY <1>3, Typed, Spots DEF Inner
      <4> QED
        BY <4>1 DEF Live, SamePage
    <3> QED
      BY <1>3, <3>1, <3>2 DEF Between
  <2> QED
    BY <2>1, <2>2
<1>7. AskerOK(p) /\ (Asks(p) <=> HasExternal(t)) /\ (Asks(p) => content[t] = NoItem) /\ ~Asks(p)' /\ Allocates(p)
  BY <1>2, <1>3 DEF ExternalsOK, AskersOK, AskerOK, Asks, Allocates, PAt
<1>8. Allocating(p) \in Item /\ Allocating(p) # NoItem
  BY <1>2, AllocatedItems DEF PAt
<1>9. /\ Allocating(p) \notin Held
      /\ \A q \in Producers \ {p} : Allocating(q) # Allocating(p)
  BY <1>7, FillTails, AskedAlone DEF ExternalsOK
<1>10. heap' = Held' \cup Asked'
  <2>1. \A x : x \in Held' <=> x \in Held \/ (Asks(p) /\ x = Allocating(p))
    <3>1. ASSUME NEW x, x \in Held' PROVE x \in Held \/ (Asks(p) /\ x = Allocating(p))
      <4>1. PICK b \in Block : HasExternal(b) /\ x = content'[b] /\ x # NoItem
        BY <1>5, <3>1 DEF Held
      <4> QED
        BY <1>3, <1>6, <1>7, <4>1 DEF Held
    <3>2. ASSUME NEW x, x \in Held PROVE x \in Held'
      <4>1. PICK b \in Block : HasExternal(b) /\ x = content[b] /\ x # NoItem
        BY <3>2 DEF Held
      <4>2. content'[b] = x
        BY <1>6, <1>7, <4>1
      <4> QED
        BY <1>5, <4>1, <4>2 DEF Held
    <3>3. Asks(p) => Allocating(p) \in Held'
      BY <1>3, <1>5, <1>7, <1>8 DEF Held
    <3> QED
      BY <3>1, <3>2, <3>3
  <2>2. \A x : x \in Asked <=> x \in Asked' \/ (Asks(p) /\ x = Allocating(p))
    BY <1>3, <1>7, AskedOfOthers
  <2> QED
    BY <1>2, <2>1, <2>2 DEF ExternalsOK, HeapOwned
<1>11. \A x : Earlier(x) => Earlier(x)'
  BY <1>1, <1>2, <1>3, <1>4, EarlierStays DEF PAt
<1>12. \A q \in Producers \ {p} : /\ PAt(q, "fill")' <=> PAt(q, "fill")
                                  /\ Asks(q)' <=> Asks(q)
                                  /\ Allocates(q)' <=> Allocates(q)
                                  /\ prod'[q].tail = prod[q].tail
                                  /\ PAt(q, "fill") => prod[q].tail # t /\ prod[q].tail \in Block
  <2>1. \A q \in Producers \ {p} : PAt(q, "fill") => prod[q].tail # t /\ prod[q].tail \in Block
    BY <1>2, FillTails DEF ExternalsOK, AskersOK
  <2> QED
    BY <1>3, <2>1 DEF PAt, Asks, Allocates
<1>13. ~PAt(p, "fill")'
  BY <1>3 DEF PAt
<1>14. ItemsApart'
  <2>1. ASSUME NEW a \in Block, HasExternal(a)', content'[a] = NoItem
        PROVE  \E q \in Producers : PAt(q, "fill")' /\ prod'[q].tail = a
    <3>1. a # t /\ content[a] = NoItem /\ HasExternal(a)
      BY <1>3, <1>5, <1>6, <1>8, <2>1
    <3>2. PICK q \in Producers : PAt(q, "fill") /\ prod[q].tail = a
      BY <3>1 DEF ExternalsOK, ItemsApart
    <3> QED
      BY <1>12, <3>1, <3>2
  <2>2. ASSUME NEW a \in Block, HasExternal(a)', content'[a] # NoItem
        PROVE  Earlier(content[a])' /\ (a # t => content'[a] # Allocating(p))
    <3>1. CASE a = t
      <4>1. /\ Allocating(p)[1] = p /\ Allocating(p)[2] = prod'[p].puts
            /\ Allocating(p)[3] \in {0, prod'[p].raws}
        BY <1>3, <1>4 DEF Allocating
      <4>2. prod'[p].raws \in Nat /\ prod'[p].puts \in Nat
        BY <1>1, BaseAssumption DEF Producer
      <4> QED
        BY <1>3, <1>8, <3>1, <4>1, <4>2 DEF Earlier, Allocates
    <3>2. CASE a # t
      <4>1. content'[a] = content[a] /\ HasExternal(a)
        BY <1>5, <1>6, <2>2, <3>2
      <4> QED
        BY <1>9, <1>11, <2>2, <4>1 DEF ExternalsOK, ItemsApart, Held
    <3> QED
      BY <3>1, <3>2
  <2>3. \A a, d \in Block : HasExternal(a)' /\ HasExternal(d)' /\ content'[a] = content'[d] =>
           a = d \/ content'[a] = NoItem
    <3> SUFFICES ASSUME NEW a \in Block, NEW d \in Block, HasExternal(a)', HasExternal(d)',
                        content'[a] = content'[d], content'[a] # NoItem, a # d
                 PROVE  FALSE
      OBVIOUS
    <3>1. a # t /\ d # t
      BY <1>3, <2>2
    <3> QED
      BY <1>5, <1>6, <3>1 DEF ExternalsOK, ItemsApart
  <2> QED
    BY <2>1, <2>2, <2>3 DEF ItemsApart
<1>15. AskersOK'
  <2>1. AskerOK(p)'
    BY <1>7, <1>13 DEF AskerOK
  <2>2. ASSUME NEW q \in Producers, q # p PROVE AskerOK(q)'
    <3>1. AskerOK(q)
      BY DEF ExternalsOK, AskersOK
    <3> QED
      BY <1>5, <1>6, <1>12, <2>2, <3>1 DEF AskerOK
  <2>3. \A q, r \in Producers : PAt(q, "fill")' /\ PAt(r, "fill")' /\ q # r => prod'[q].tail # prod'[r].tail
    BY <1>12, <1>13 DEF ExternalsOK, AskersOK
  <2> QED
    BY <2>1, <2>2, <2>3 DEF AskersOK
<1>16. ExternalsPlaced'
  BY <1>2 DEF ExternalsOK, ExternalsPlaced, At, Wipes
<1> QED
  BY <1>10, <1>14, <1>15, <1>16 DEF ExternalsOK, HeapOwned

---------------------------------------------------------------------------
(* Consumers *)

\* A consumer that is not cleaning, before or after, and that keeps the
\* external flag of every word.
LEMMA ConsumerStays ==
    ASSUME NEW rank, IInv, Ordered(rank), ExternalsOK, UNCHANGED tailVars,
           heap' = heap, content' = content, LinkedPages' = LinkedPages, First' = First,
           NEW c \in Consumers, \A d \in Consumers \ {c} : cons'[d] = cons[d],
           cons[c].pc \notin {"free_external", "zero", "memset"},
           cons'[c].pc \notin {"free_external", "zero", "memset"},
           \A x \in Block : "external" \in m_next'[x].flags <=> "external" \in m_next[x].flags
    PROVE  ExternalsOK'
<1>1. prod' = prod
  BY DEF tailVars
<1>2. \A d \in Consumers : /\ At(d, "free_external")' <=> At(d, "free_external")
                           /\ Wipes(d)' <=> Wipes(d)
                           /\ At(d, "free_external") \/ Wipes(d) => cons'[d] = cons[d]
  BY DEF At, Wipes
<1>3. \A b : HasExternal(b)' <=> HasExternal(b)
  <2>1. \A b : (Inner(b)' <=> Inner(b)) /\ (Inner(b) => b \in Block)
    BY PlaceKept DEF Inner, Live
  <2> QED
    BY <1>2, <2>1 DEF HasExternal
<1>4. ExternalsPlaced'
  BY <1>2 DEF ExternalsOK, ExternalsPlaced
<1> QED
  BY <1>1, <1>3, <1>4, FillTails, ExternalsLeft

\* begin_iteration, move_next, and what ends a search.
LEMMA SearchKeeps ==
    ASSUME NEW rank, IInv, Ordered(rank), ExternalsOK, UNCHANGED tailVars, NEW c \in Consumers,
           \/ LoadHead(c) \/ ReloadHead(c) \/ LoadInitialPage(c) \/ InitHead(c)
           \/ PinHead(c) \/ UnpinOld(c) \/ LoadHeadNext(c)
           \/ Start(c, "consume") \/ Start(c, "empty") \/ Return(c) \/ DestroyConsume(c)
           \/ MoveNext(c) \/ Reread(c) \/ UnpinLeft(c) \/ LoadNext(c)
           \/ TryBusy(c) /\ m_next[cons[c].control] # cons[c].next
           \/ AdvanceHead(c) /\ m_head # cons[c].control
    PROVE  ExternalsOK'
<1>1. /\ UNCHANGED <<m_next, content, pool, m_initial_page, status, heap>> /\ Kept
      /\ \A d \in Consumers \ {c} : cons'[d] = cons[d]
      /\ Free(cons[c].pc) /\ Free(cons'[c].pc)
  BY SearchMoves
<1> QED
  BY <1>1, ConsumerStays DEF Free, Kept

\* An element is taken, consumed or put back: the other flags of its block stay.
LEMMA TakingKeeps ==
    ASSUME NEW rank, IInv, Ordered(rank), ExternalsOK, UNCHANGED tailVars, NEW c \in Consumers,
           \/ TryBusy(c) /\ m_next[cons[c].control] = cons[c].next
           \/ CommitConsume(c) \/ CancelConsume(c)
    PROVE  ExternalsOK'
<1> PICK b, n : b = cons[c].control /\ n = cons[c].next
  OBVIOUS
<1>1. /\ cons[c] \in Consume /\ cons \in [Consumers -> Consume] /\ m_next \in [Block -> NextPtr]
      /\ cons[c].pc \in {"try_busy", "consuming"} /\ b \in Block
  BY Typed DEF IInv, TypeOK, BaseTypeOK, HeadTypeOK, TryBusy, CommitConsume, CancelConsume, At, ConsumerOK
<1>2. /\ UNCHANGED <<content, heap, pool, m_initial_page, m_head>>
      /\ \A d \in Consumers \ {c} : cons'[d] = cons[d]
      /\ cons'[c].pc \in {"consuming", "advance", "idle"}
  BY <1>1 DEF TryBusy, CommitConsume, CancelConsume, Consume
<1>3. \A x \in Block : "external" \in m_next'[x].flags <=> "external" \in m_next[x].flags
  <2>1. CASE TryBusy(c) /\ m_next[cons[c].control] = cons[c].next
    <3>1. m_next' = [m_next EXCEPT ![b].flags = @ \cup {"busy"}]
      BY <2>1 DEF TryBusy
    <3> QED
      BY <1>1, <3>1 DEF NextPtr
  <2>2. CASE CommitConsume(c) \/ CancelConsume(c)
    <3>1. Takes(c)
      BY <2>2 DEF CommitConsume, CancelConsume, Takes
    <3>2. m_next[b] = TakenWord(c)
      BY <3>1 DEF Ordered, OwnersOK, TakerOwns
    <3>3. "external" \in m_next[b].flags <=> "external" \in n.flags
      BY <3>2 DEF TakenWord, NextWord
    <3>4. \/ m_next' = [m_next EXCEPT ![b] = n]
          \/ m_next' = [m_next EXCEPT ![b] = NextWord(n.to, n.flags \ {"dead"})]
      BY <2>2 DEF CommitConsume, CancelConsume
    <3> QED
      BY <1>1, <3>3, <3>4 DEF NextWord
  <2> QED
    BY <2>1, <2>2
<1>4. LinkedPages' = LinkedPages /\ First' = First
  <2>1. LeftPages' = LeftPages
    <3>1. \A d \in Consumers : (Leaves(d)' <=> Leaves(d)) /\ (Leaves(d) => cons'[d] = cons[d])
      BY <1>1, <1>2 DEF Leaves
    <3>2. \A q : q \in LeftPages' <=> q \in LeftPages
      BY <3>1, LeftPagesOf
    <3> QED
      BY <3>2 DEF LeftPages
  <2> QED
    BY <1>2, <2>1 DEF LinkedPages, NewPages, First, tailVars
<1> QED
  BY <1>1, <1>2, <1>3, <1>4, ConsumerStays

\* A consumer clears what the head has left, the external block apart.
LEMMA ClearingKeeps ==
    ASSUME NEW rank, IInv, Ordered(rank), LeftApart, ExternalsOK, UNCHANGED tailVars, NEW c \in Consumers,
           ZeroControl(c) \/ Memset(c) \/ DeallocatePage(c)
    PROVE  ExternalsOK'
<1> PICK b, n : b = cons[c].control /\ n = cons[c].next
  OBVIOUS
<1>1. /\ Kept /\ cons[c] \in Consume /\ cons \in [Consumers -> Consume]
      /\ b \in Block /\ n.to \in Block /\ ~Live(b)
      /\ cons'[c].control = b /\ cons'[c].next = n
      /\ \A d \in Consumers \ {c} : cons'[d] = cons[d]
      /\ \A x \in Block : Live(x) => m_next'[x] = m_next[x] /\ content'[x] = content[x]
      /\ \A x \in Block : m_next'[x] \in {m_next[x], Zero}
  BY CleaningMoves
<1>2. /\ prod' = prod /\ heap' = heap
      /\ cons[c].pc \in {"zero", "memset", "free_page"}
      /\ Memset(c) => cons[c].pc = "memset"
      /\ ~Memset(c) => content' = content
  BY DEF tailVars, ZeroControl, Memset, DeallocatePage, At
<1>3. /\ cons'[c].pc \in {"memset", "free_page", "move"}
      /\ cons[c].pc = "free_page" => cons'[c].pc = "move"
  <2>1. CASE ZeroControl(c)
    BY <1>1, <2>1 DEF ZeroControl, At, Goto, Consume
  <2>2. CASE Memset(c)
    BY <1>1, <2>2 DEF Memset, At, Goto, Consume
  <2>3. CASE DeallocatePage(c)
    BY <1>1, <2>3 DEF DeallocatePage, At, Goto, Consume
  <2> QED
    BY <2>1, <2>2, <2>3
<1>4. \A d \in Consumers : /\ At(d, "free_external")' <=> At(d, "free_external")
                           /\ Wipes(d)' => Wipes(d)
                           /\ At(d, "free_external") => d # c
                           /\ cons'[d].control = cons[d].control /\ cons'[d].next = cons[d].next
  BY <1>1, <1>2, <1>3 DEF At, Wipes
<1>5. \A x : HasExternal(x)' <=> HasExternal(x)
  <2>1. \A x : (Inner(x)' <=> Inner(x)) /\ (Inner(x) => x \in Block /\ Live(x))
    BY <1>1, PlaceKept DEF Inner, Live, Kept
  <2> QED
    BY <1>1, <1>4, <2>1 DEF HasExternal
<1>6. \A x \in Block : HasExternal(x) => content'[x] = content[x]
  <2> SUFFICES ASSUME NEW x \in Block, HasExternal(x), ~Inner(x), Memset(c) PROVE content'[x] = content[x]
    BY <1>1, <1>2 DEF Inner
  <2>1. PICK d \in Consumers : At(d, "free_external") /\ cons[d].control = x
    BY DEF HasExternal
  <2>2. ~Between(b, x, n.to)
    BY <1>2, <1>4, <2>1 DEF ExternalsOK, ExternalsPlaced, Wipes
  <2>3. SamePage(b, n.to)
    BY <1>2 DEF Ordered, ConsumersPlaced, ConsumerPlaced
  <2>4. SamePage(x, b) /\ x[2] \in b[2] .. (n.to[2] - 1) => Between(b, x, n.to)
    <3>1. x[2] \in Nat /\ b[2] \in Nat /\ n.to[2] \in Nat
      BY <1>1, Spots
    <3> QED
      BY <2>3, <3>1 DEF Between, SamePage
  <2> QED
    BY <2>2, <2>4 DEF Memset
<1>7. ExternalsPlaced'
  <2>1. \A x \in Block : "external" \in m_next'[x].flags => "external" \in m_next[x].flags
    BY <1>1 DEF Zero
  <2> QED
    BY <1>4, <2>1 DEF ExternalsOK, ExternalsPlaced
<1> QED
  BY <1>2, <1>5, <1>6, <1>7, FillTails, ExternalsLeft

\* The external block of a block that the head has left is freed: no other block
\* has it, and no producer.
LEMMA FreeingKeeps ==
    ASSUME NEW rank, IInv, Ordered(rank), LeftApart, ExternalsOK, UNCHANGED tailVars, NEW c \in Consumers,
           FreeExternal(c)
    PROVE  ExternalsOK'
<1> PICK b, n, x : b = cons[c].control /\ n = cons[c].next /\ x = content[b]
  OBVIOUS
<1>1. /\ Kept /\ cons[c] \in Consume /\ cons \in [Consumers -> Consume]
      /\ b \in Block /\ n.to \in Block /\ ~Live(b)
      /\ cons'[c].control = b /\ cons'[c].next = n
      /\ \A d \in Consumers \ {c} : cons'[d] = cons[d]
  BY CleaningMoves
<1>2. /\ prod' = prod /\ UNCHANGED <<m_next, content>> /\ heap' = heap \ {x}
      /\ At(c, "free_external")
  BY DEF tailVars, FreeExternal
<1>3. cons'[c].pc \in {"zero", "move"}
  BY <1>1 DEF FreeExternal, Goto, AfterAdvance
<1>4. \A d \in Consumers : /\ At(d, "free_external")' <=> At(d, "free_external") /\ d # c
                           /\ Wipes(d)' => Wipes(d)
                           /\ cons'[d].control = cons[d].control /\ cons'[d].next = cons[d].next
  BY <1>1, <1>2, <1>3 DEF At, Wipes
<1>5. \A a : HasExternal(a)' <=> HasExternal(a) /\ a # b
  <2>1. \A a : (Inner(a)' <=> Inner(a)) /\ (Inner(a) => a # b)
    BY <1>1, PlaceKept DEF Inner, Kept
  <2>2. \A d \in Consumers \ {c} : At(d, "free_external") => cons[d].control # b
    BY <1>2 DEF Ordered, ConsumersPlaced, Passed, At
  <2> QED
    BY <1>2, <1>4, <2>1, <2>2 DEF HasExternal
<1>6. HasExternal(b) /\ \A q \in Producers : PAt(q, "fill") => prod[q].tail # b
  BY <1>1, <1>2, FillTails DEF HasExternal, Inner
<1>7. x # NoItem /\ Earlier(x) /\ \A a \in Block : HasExternal(a) /\ content[a] = x => a = b
  BY <1>1, <1>6 DEF ExternalsOK, ItemsApart
<1>8. heap' = Held' \cup Asked'
  <2>1. \A y : y \in Held' <=> y \in Held /\ y # x
    BY <1>1, <1>2, <1>5, <1>6, <1>7 DEF Held
  <2>2. Asked' = Asked
    BY <1>2 DEF Asked, Asks, Allocating
  <2>3. x \notin Asked
    <3> SUFFICES ASSUME NEW q \in Producers, Asks(q), x = Allocating(q) PROVE FALSE
      BY DEF Asked
    <3>1. Allocates(q) /\ x[1] = q
      BY DEF ExternalsOK, AskersOK, AskerOK, Allocating
    <3> QED
      BY <1>7, <3>1 DEF Earlier
  <2> QED
    BY <1>2, <2>1, <2>2, <2>3 DEF ExternalsOK, HeapOwned
<1>9. /\ \A p : (PAt(p, "fill")' <=> PAt(p, "fill")) /\ (Asks(p)' <=> Asks(p)) /\ (Allocates(p)' <=> Allocates(p))
      /\ \A y : Earlier(y)' <=> Earlier(y)
  BY <1>2 DEF PAt, Asks, Allocates, Earlier, Allocating
<1>10. ItemsApart'
  BY <1>2, <1>5, <1>9 DEF ExternalsOK, ItemsApart
<1>11. AskersOK'
  <2>1. ASSUME NEW p \in Producers PROVE AskerOK(p)'
    BY <1>2, <1>5, <1>6, <1>9 DEF ExternalsOK, AskersOK, AskerOK
  <2> QED
    BY <1>2, <1>9, <2>1 DEF ExternalsOK, AskersOK
<1>12. ExternalsPlaced'
  BY <1>2, <1>4 DEF ExternalsOK, ExternalsPlaced
<1> QED
  BY <1>8, <1>10, <1>11, <1>12 DEF ExternalsOK, HeapOwned

\* The head moves past a block: if there is an external block, the consumer
\* will free it.
LEMMA AdvancingKeeps ==
    ASSUME NEW rank \in [Pages -> Nat], IInv, Ordered(rank), ExternalsOK, UNCHANGED tailVars,
           NEW c \in Consumers, ZeroedPages, AdvanceHead(c), m_head = cons[c].control
    PROVE  ExternalsOK'
<1> PICK b, n : b = cons[c].control /\ n = cons[c].next
  OBVIOUS
<1>1. /\ cons[c] \in Consume /\ cons \in [Consumers -> Consume] /\ At(c, "advance")
      /\ cons[c].pc = "advance"
  BY Typed DEF IInv, TypeOK, HeadTypeOK, AdvanceHead, At
<1>2. /\ b = First /\ b \in Block /\ n.to \in Block /\ n \in NextPtr
      /\ Live(b) /\ m_next[b] = n
      /\ SamePage(b, n.to) => Inner(b)
      /\ ~SamePage(b, n.to) => n.flags = {"dead"}
  BY <1>1, HeadWord
<1>3. /\ \A d \in Consumers \ {c} : cons'[d] = cons[d]
      /\ cons'[c].control = b /\ cons'[c].next = n
      /\ cons'[c].pc = IF "external" \in n.flags THEN "free_external" ELSE "zero"
      /\ m_head' = n.to /\ UNCHANGED baseVars
  BY <1>1 DEF AdvanceHead, AfterAdvance, Goto, Consume
<1>4. /\ \A a : Inner(a)' => Inner(a)
      /\ ~Live(b)'
      /\ \A a, g \in Block : Inner(a) /\ Spans(a, g) /\ a # b => Inner(a)'
  <2>1. (cons'[c].pc = "free_external" /\ SamePage(b, n.to)) \/ cons'[c].pc = "zero"
    BY <1>2, <1>3
  <2> QED
    BY <1>1, <1>3, <2>1, HeadLeaves
<1>5. UNCHANGED <<m_next, content, heap>> /\ prod' = prod
  BY <1>3 DEF baseVars, tailVars
<1>6. \A d \in Consumers \ {c} : /\ At(d, "free_external")' <=> At(d, "free_external")
                                 /\ Wipes(d)' <=> Wipes(d)
  BY <1>3 DEF At, Wipes
<1>7. \A a : HasExternal(a)' <=> HasExternal(a)
  <2>1. ASSUME NEW a, a # b PROVE ExternalIn(a)' <=> ExternalIn(a)
    <3> SUFFICES ASSUME ExternalIn(a) PROVE Inner(a)'
      BY <1>4, <1>5 DEF ExternalIn
    <3>1. a \in Block /\ m_next[a] # Zero
      BY DEF ExternalIn, Inner, Live, Zero
    <3>2. m_next[a].to \in Block
      BY <3>1, Typed, Addresses DEF ExternalIn, Ordered, BlocksApart, IsEnd, NextPtr
    <3> QED
      BY <1>4, <2>1, <3>1, <3>2 DEF ExternalIn, Spans
  <2>2. ~ExternalIn(b)' /\ (ExternalIn(b) <=> "external" \in n.flags)
    BY <1>2, <1>4 DEF ExternalIn, Inner
  <2>3. ~At(c, "free_external") /\ (At(c, "free_external")' <=> "external" \in n.flags)
    BY <1>1, <1>3 DEF At
  <2> QED
    BY <1>3, <1>6, <2>1, <2>2, <2>3 DEF HasExternal, ExternalIn
<1>8. ExternalsPlaced'
  <2>1. \A d \in Consumers \ {c} : Wipes(d) => ~Between(cons[d].control, b, cons[d].next.to)
    <3> SUFFICES ASSUME NEW d \in Consumers \ {c}, Wipes(d), Between(cons[d].control, b, cons[d].next.to)
                 PROVE  FALSE
      OBVIOUS
    <3>1. cons[d].control \in Block /\ cons[d].next.to \in Block
      BY Typed DEF ConsumerOK, Wipes
    <3>2. cons[d].next.to[2] <= First[2]
      BY <1>2 DEF Ordered, ConsumersPlaced, ConsumerPlaced, Wipes, Between, SamePage
    <3>3. b[2] < cons[d].next.to[2]
      BY DEF Between
    <3> QED
      BY <1>2, <3>1, <3>2, <3>3, Spots
  <2>2. \A d \in Consumers \ {c} : At(d, "free_external") => ~Between(b, cons[d].control, n.to)
    <3> SUFFICES ASSUME NEW d \in Consumers \ {c}, At(d, "free_external"), Between(b, cons[d].control, n.to)
                 PROVE  FALSE
      OBVIOUS
    <3>1. cons[d].control \in Block /\ ~Live(cons[d].control)
      BY Typed DEF ConsumerOK, At, Ordered, ConsumersPlaced, ConsumerPlaced
    <3>2. PageOf(cons[d].control) = PageOf(b) /\ b[2] <= cons[d].control[2]
      BY DEF Between, SamePage
    <3> QED
      BY <1>2, <3>1, <3>2 DEF Live
  <2> QED
    BY <1>1, <1>2, <1>3, <1>5, <1>6, <2>1, <2>2 DEF ExternalsOK, ExternalsPlaced
<1> QED
  BY <1>5, <1>7, <1>8, FillTails, ExternalsLeft

\* Every step of a consumer.
LEMMA ConsumerKeepsExternals ==
    ASSUME NEW rank \in [Pages -> Nat], IInv, Ordered(rank), LeftApart, ExternalsOK, UNCHANGED tailVars,
           NEW c \in Consumers, ZeroedPages, ConsumerNext(c)
    PROVE  ExternalsOK'
<1>1. CASE TryBusy(c)
  BY <1>1, TakingKeeps, SearchKeeps
<1>2. CASE AdvanceHead(c)
  BY <1>2, AdvancingKeeps, SearchKeeps
<1>3. CASE CommitConsume(c) \/ CancelConsume(c)
  BY <1>3, TakingKeeps
<1>4. CASE FreeExternal(c)
  BY <1>4, FreeingKeeps
<1>5. CASE ZeroControl(c) \/ Memset(c) \/ DeallocatePage(c)
  BY <1>5, ClearingKeeps
<1>6. CASE \/ LoadHead(c) \/ ReloadHead(c) \/ LoadInitialPage(c) \/ InitHead(c)
           \/ PinHead(c) \/ UnpinOld(c) \/ LoadHeadNext(c)
           \/ Start(c, "consume") \/ Start(c, "empty") \/ Return(c) \/ DestroyConsume(c)
           \/ MoveNext(c) \/ Reread(c) \/ UnpinLeft(c) \/ LoadNext(c)
  BY <1>6, SearchKeeps
<1> QED
  BY <1>1, <1>2, <1>3, <1>4, <1>5, <1>6 DEF ConsumerNext, ConsumerStep

\* No step of a producer leaks an external block, or frees one of another.
LEMMA ProducerKeepsExternals ==
    ASSUME NEW rank \in [Pages -> Nat], IInv, IInv', Ordered(rank), ExternalsOK, m_rest = 0, UNCHANGED headVars,
           NEW p \in Producers, ProducerNext(p)
    PROVE  ExternalsOK'
<1>1. cons' = cons /\ \A q \in Producers : PAt(q, "fill") => prod[q].tail \in Block
  BY FillTails DEF headVars
<1>2. ASSUME ExternalsStay, LoadTail(p) \/ Reserve(p) \/ Pad(p) \/ StorePad(p) \/ NextPage(p) \/ InitialPage(p)
      PROVE  ExternalsOK'
  <2>1. GoesOn(p)
    BY <1>2, AllocationStays
  <2> QED
    BY <1>1, <1>2, <2>1, AllocationKeeps
<1>3. CASE TransactionStep(p)
  BY <1>3, StartPutKeeps, RawAllocateKeeps, EndPutKeeps DEF TransactionStep
<1>4. CASE LoadTail(p) \/ Reserve(p) \/ Pad(p)
  BY <1>2, <1>4, QuietSteps
<1>5. CASE StorePad(p)
  BY <1>2, <1>5, PadKeeps
<1>6. CASE StoreBlock(p) \/ Fill(p) \/ GiveUp(p)
  BY <1>6, StoreBlockKeeps, FillKeeps, GiveUpKeeps
<1>7. CASE NextPage(p)
  <2>1. ExternalsStay
    BY <1>7, QuietSteps, PageSteps DEF NextPage
  <2> QED
    BY <1>2, <1>7, <2>1
<1>8. CASE InitialPage(p)
  <2>1. ExternalsStay
    BY <1>8, QuietSteps, PageSteps DEF InitialPage
  <2> QED
    BY <1>2, <1>8, <2>1
<1> QED
  BY <1>3, <1>4, <1>5, <1>6, <1>7, <1>8 DEF ProducerNext, ProducerStep

\* At first there is no external block.
LEMMA InitExternals == Init => ExternalsOK
<1> SUFFICES ASSUME Init PROVE ExternalsOK
  OBVIOUS
<1>1. /\ \A q \in Pages : pool[q] = "zeroed"
      /\ \A b \in Block : m_next[b] = Zero
      /\ \A p \in Producers : prod[p] = NewProducer
      /\ \A c \in Consumers : cons[c] = NewConsume
      /\ heap = {}
  BY DEF Init, BaseInit, HeadInit, TailInit
<1>2. \A b : ~HasExternal(b)
  BY <1>1 DEF HasExternal, Inner, Live, LinkedPages, At, NewConsume
<1>3. \A p \in Producers : ~Asks(p) /\ ~PAt(p, "fill")
  BY <1>1 DEF Asks, PAt, NewProducer
<1>4. HeapOwned
  BY <1>1, <1>2, <1>3 DEF HeapOwned, Held, Asked
<1>5. ExternalsPlaced
  BY <1>1 DEF ExternalsPlaced, Zero, At, NewConsume
<1> QED
  BY <1>2, <1>3, <1>4, <1>5 DEF ExternalsOK, ItemsApart, AskersOK, AskerOK

\* What is allocated in the heap has its owner, in a queue that is in order and
\* where nothing is missing.
ExternalsInv == WholeInv /\ ExternalsOK

\* ExternalsInv is inductive.
LEMMA NextKeepsExternals == ExternalsInv /\ [Next]_vars => ExternalsInv'
<1> SUFFICES ASSUME ExternalsInv, [Next]_vars PROVE ExternalsInv'
  OBVIOUS
<1>1. /\ WholeInv' /\ ExternalsOK /\ IInv /\ IInv' /\ m_rest = 0 /\ LeftApart
      /\ OrderInv
  BY NextKeepsWhole DEF ExternalsInv, WholeInv, OrderInv, NothingMissing
<1>2. PICK rank \in [Pages -> Nat] : Ordered(rank)
  BY <1>1 DEF OrderInv
<1>3. ASSUME NEW c \in Consumers, ConsumerNext(c), UNCHANGED tailVars
      PROVE  ExternalsOK'
  BY <1>1, <1>2, <1>3, RelaxedAssumption, ConsumerKeepsExternals
<1>4. ASSUME NEW p \in Producers, ProducerNext(p), UNCHANGED headVars
      PROVE  ExternalsOK'
  BY <1>1, <1>2, <1>4, ProducerKeepsExternals
<1>5. ASSUME UNCHANGED vars PROVE ExternalsOK'
  <2>1. UNCHANGED <<m_head, cons, m_initial_page, m_next, content, pool, heap, prod>>
    BY <1>5 DEF vars, baseVars, headVars, tailVars
  <2>2. First' = First /\ LinkedPages' = LinkedPages
    BY <2>1 DEF First, LinkedPages, NewPages, LeftPages
  <2>3. \A b : HasExternal(b)' <=> HasExternal(b)
    BY <2>1, <2>2, PlaceKept DEF HasExternal, At
  <2>4. ExternalsPlaced'
    BY <1>1, <2>1 DEF ExternalsOK, ExternalsPlaced, At, Wipes
  <2> QED
    BY <1>1, <1>2, <2>1, <2>3, <2>4, FillTails, ExternalsLeft
<1> QED
  BY <1>1, <1>3, <1>4, <1>5 DEF Next, ExternalsInv

\* What ExternalBlocks says of the chain, of the consumers that free a block and
\* of the producers.
LEMMA ExternalsReached ==
    ASSUME NEW rank \in [Pages -> Nat], IInv, Ordered(rank), NothingMissing, ExternalsOK
    PROVE  ExternalBlocks
<1>1. \A b : b \in Chain /\ "external" \in m_next[b].flags <=> ExternalIn(b)
  <2>1. ASSUME NEW b \in Chain, "external" \in m_next[b].flags PROVE Inner(b)
    <3>1. Live(b) /\ b \in Block
      BY <2>1, ChainFacts DEF Live
    <3> QED
      BY <2>1, <3>1 DEF ExternalsOK, ExternalsPlaced, Inner
  <2>2. ASSUME NEW b, ExternalIn(b) PROVE b \in Chain
    <3>1. b \in Block /\ Inner(b) /\ m_next[b] # Zero
      BY <2>2 DEF ExternalIn, Inner, Live, Zero
    <3>2. m_next[b].to \in Block
      BY <3>1, Typed, Addresses DEF Ordered, BlocksApart, IsEnd, NextPtr
    <3> QED
      BY <3>1, <3>2, WrittenBlocks DEF NothingMissing
  <2> QED
    BY <2>1, <2>2 DEF ExternalIn
<1>2. \A c \in Consumers : At(c, "free_external") => content[cons[c].control] # NoItem
  <2> SUFFICES ASSUME NEW c \in Consumers, At(c, "free_external"), content[cons[c].control] = NoItem
               PROVE  FALSE
    OBVIOUS
  <2>1. cons[c].control \in Block /\ ~Live(cons[c].control)
    BY Typed DEF ConsumerOK, At, Ordered, ConsumersPlaced, ConsumerPlaced
  <2>2. \E p \in Producers : PAt(p, "fill") /\ prod[p].tail = cons[c].control
    BY <2>1 DEF ExternalsOK, ItemsApart, HasExternal
  <2> QED
    BY <2>1, <2>2, FillTails DEF Inner
<1> DEFINE inChain == {content[b] : b \in {a \in Chain : "external" \in m_next[a].flags}} \ {NoItem}
           leaving == {content[cons[c].control] : c \in {d \in Consumers : At(d, "free_external")}}
<1>3. \A x : x \in Held <=> x \in inChain \/ x \in leaving
  <2>1. \A b : HasExternal(b) => b \in Block
    BY Typed DEF HasExternal, Inner, Live, ConsumerOK, At
  <2> QED
    BY <1>1, <1>2, <2>1 DEF Held, HasExternal, ExternalIn
<1>4. heap = Held \cup {Allocating(p) : p \in {q \in Producers : "external" \in prod[q].flags}}
  BY DEF ExternalsOK, HeapOwned, Asked, Asks
<1> QED
  BY <1>3, <1>4 DEF ExternalBlocks

\* The external block of an element is allocated once and freed once: it is in
\* the hands of the producer that has asked for it, of the block that holds the
\* element or of the one consumer that has moved the head past that block, and
\* a put that fails gives it back.
THEOREM ExternalsFreedOnce == Spec => []ExternalBlocks
<1>1. Init => ExternalsInv
  <2>1. Init => WholeInv
    BY InitOrderInv, InitNothingMissing DEF WholeInv
  <2> QED
    BY <2>1, InitExternals DEF ExternalsInv
<1>2. ExternalsInv /\ [Next]_vars => ExternalsInv'
  BY NextKeepsExternals
<1>3. ExternalsInv => ExternalBlocks
  BY ExternalsReached DEF ExternalsInv, WholeInv, OrderInv
<1> QED
  BY <1>1, <1>2, <1>3, PTL DEF Spec
==========================================================================
